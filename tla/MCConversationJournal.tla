------------------------- MODULE MCConversationJournal -------------------------
(* Small instances of the conversation journal.                            *)
EXTENDS ConversationJournal
=============================================================================
