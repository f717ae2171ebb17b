----------------------------- MODULE MCUpdateDrain -----------------------------
(* Three racing commands and a drain bound of two polls.            *)
EXTENDS UpdateDrain
=============================================================================
