------------------------------- MODULE PublicRun -------------------------------
(***************************************************************************)
(* What the desktop shows of one remote run: it opens once, work appears   *)
(* piece by piece, and it ends once.  A run that is shown as done has been *)
(* shown completely, and the agent that did the work has ended; any other  *)
(* end may come early.                                                     *)
(***************************************************************************)
EXTENDS Integers

CONSTANT Prompts

VARIABLES worked,   \* pieces of work the agent has reported
          ended,    \* the prompts whose agent has ended
          shown,    \* pieces of work the desktop has shown
          outcome   \* the state the desktop shows

public == <<worked, ended, shown, outcome>>

Init ==
    /\ worked = [p \in Prompts |-> 0] /\ ended = {}
    /\ shown = [p \in Prompts |-> 0]
    /\ outcome = [p \in Prompts |-> "none"]

Work(p) ==
    /\ p \notin ended
    /\ worked' = [worked EXCEPT ![p] = @ + 1]
    /\ UNCHANGED <<ended, shown, outcome>>

\* One death of the worker ends all of its agents.
End ==
    /\ \E S \in SUBSET (Prompts \ ended) : ended' = ended \cup S
    /\ UNCHANGED <<worked, shown, outcome>>

Open(p) ==
    /\ outcome[p] = "none"
    /\ outcome' = [outcome EXCEPT ![p] = "open"]
    /\ UNCHANGED <<worked, ended, shown>>

Show(p) ==
    /\ outcome[p] = "open" /\ shown[p] < worked[p]
    /\ shown' = [shown EXCEPT ![p] = @ + 1]
    /\ UNCHANGED <<worked, ended, outcome>>

Done(p) ==
    /\ outcome[p] = "open" /\ shown[p] = worked[p] /\ p \in ended
    /\ outcome' = [outcome EXCEPT ![p] = "done"]
    /\ UNCHANGED <<worked, ended, shown>>

\* The run failed or was cancelled, or the desktop stopped looking.
Stop(p) ==
    /\ outcome[p] = "open"
    /\ \E o \in {"failed", "cancelled", "gone"} :
          outcome' = [outcome EXCEPT ![p] = o]
    /\ UNCHANGED <<worked, ended, shown>>

Next == End \/ \E p \in Prompts :
    Work(p) \/ Open(p) \/ Show(p) \/ Done(p) \/ Stop(p)

Spec == Init /\ [][Next]_public
=============================================================================
