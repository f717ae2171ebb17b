--------------------------- MODULE MCFlushScheduler ---------------------------
(* Small instances of the flush scheduler.                                 *)
EXTENDS FlushScheduler
=============================================================================
