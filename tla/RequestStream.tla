----------------------------- MODULE RequestStream -----------------------------
(***************************************************************************)
(* What a caller of the remote worker relies on: each request is a stream  *)
(* of its own, opened once, whose progress arrives in the order the worker *)
(* wrote it and without a gap, and which ends once.  An end that carries   *)
(* the worker's answer comes after all of the progress; any other end is   *)
(* an error, and may cut the progress short.                               *)
(***************************************************************************)
EXTENDS Integers

CONSTANT Requests

VARIABLES produced,   \* progress frames the worker has written
          taken,      \* progress frames the caller has got
          phase       \* what the caller knows of the stream

stream == <<produced, taken, phase>>

Init ==
    /\ produced = [r \in Requests |-> 0]
    /\ taken = [r \in Requests |-> 0]
    /\ phase = [r \in Requests |-> "waiting"]

\* A number may be skipped: no answer can then be believed.
Produce(r) ==
    /\ \E n \in {1, 2} : produced' = [produced EXCEPT ![r] = @ + n]
    /\ UNCHANGED <<taken, phase>>

\* The call that opens a stream may also fail.
Open(r) ==
    /\ phase[r] = "waiting"
    /\ \E p \in {"open", "over"} : phase' = [phase EXCEPT ![r] = p]
    /\ UNCHANGED <<produced, taken>>

Take(r) ==
    /\ phase[r] = "open" /\ taken[r] < produced[r]
    /\ taken' = [taken EXCEPT ![r] = @ + 1]
    /\ UNCHANGED <<produced, phase>>

Answered(r) ==
    /\ phase[r] = "open" /\ taken[r] = produced[r]
    /\ phase' = [phase EXCEPT ![r] = "answered"]
    /\ UNCHANGED <<produced, taken>>

Over(r) ==
    /\ phase[r] \in {"open", "answered"}
    /\ phase' = [phase EXCEPT ![r] = "over"]
    /\ UNCHANGED <<produced, taken>>

Next == \E r \in Requests :
    Produce(r) \/ Open(r) \/ Take(r) \/ Answered(r) \/ Over(r)

Spec == Init /\ [][Next]_stream
=============================================================================
