---------------------------- MODULE OrderedDelivery ----------------------------
(***************************************************************************)
(* What the trajectory client promises the rest of the host: a log of      *)
(* batches that the device accepts one by one, hands to the cloud in the   *)
(* order it accepted them, and forgets only when the cloud holds them.     *)
(* The journal of a conversation and the flush scheduler each implement    *)
(* it.                                                                     *)
(***************************************************************************)
EXTENDS Integers

VARIABLES accepted,   \* the number of batches accepted
          owed,       \* the batches the device still has to deliver
          held        \* the batches the cloud holds

log == <<accepted, owed, held>>

Init == accepted = 0 /\ owed = {} /\ held = {}

Accept ==
    /\ accepted' = accepted + 1
    /\ owed' = owed \cup {accepted + 1}
    /\ UNCHANGED held

\* The cloud takes everything up to one of the batches it is owed.
Deliver ==
    /\ \E n \in owed : held' = held \cup 1..n
    /\ UNCHANGED <<accepted, owed>>

\* Everything up to a batch is forgotten at once, and only if it is held.
Settle ==
    /\ \E n \in owed : 1..n \subseteq held /\ owed' = owed \ 1..n
    /\ UNCHANGED <<accepted, held>>

Next == Accept \/ Deliver \/ Settle

Spec == Init /\ [][Next]_log
=============================================================================
