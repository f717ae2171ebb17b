---------------------------- MODULE ExecutionLedger ----------------------------
(***************************************************************************)
(* The ledger of one execution (src/crates/agent-orchestration/src/        *)
(* execution.rs and execution/reducer.rs) as the root run of the local     *)
(* provider writes it (src/crates/provider-local/src/root_execution.rs).   *)
(* An event the reducer refuses leaves the ledger as it is: the trace logs *)
(* a warning and the run goes on.                                          *)
(***************************************************************************)
EXTENDS Naturals

States == {"Queued", "Running", "AwaitingInput", "Recovering", "Verifying",
           "Completed", "Failed", "Cancelled", "Blocked"}
Final  == {"Completed", "Failed", "Cancelled", "Blocked"}

Ledgers(Tools) ==
    [state : States, attempts : Nat, recoveries : Nat, active : SUBSET Tools, tools : SUBSET Tools]

NewRoot == [state |-> "Queued", attempts |-> 0, recoveries |-> 0, active |-> {}, tools |-> {}]

StartAttempt(l) ==
    IF l.state \in {"Queued", "Recovering"}
    THEN [l EXCEPT !.state = "Running", !.attempts = @ + 1] ELSE l

ValidTransition ==
    ({"Running", "AwaitingInput"} \X {"Failed", "Cancelled"})
        \cup ({"Verifying"} \X {"Completed", "Failed", "Cancelled"})
        \cup {<<"Running", "AwaitingInput">>, <<"AwaitingInput", "Running">>,
              <<"Running", "Verifying">>, <<"Running", "Blocked">>}

Transition(l, to) == IF <<l.state, to>> \in ValidTransition THEN [l EXCEPT !.state = to] ELSE l

ToolStarted(l, tool) ==
    IF l.state = "Running" /\ tool \notin l.active \cup l.tools
    THEN [l EXCEPT !.active = @ \cup {tool}] ELSE l

ToolFinished(l, tool) ==
    IF tool \in l.active
    THEN [l EXCEPT !.active = @ \ {tool}, !.tools = @ \cup {tool}] ELSE l

\* recovery_decision, of a failure whose class is recoverable.
CanRecover(l) == l.state = "Running" /\ l.active = {}

\* RootExecutionTrace::schedule_recovery: the next attempt starts at once.
ScheduleRecovery(l) ==
    StartAttempt(IF CanRecover(l)
                 THEN [l EXCEPT !.state = "Recovering", !.recoveries = @ + 1] ELSE l)

\* RootExecutionTrace::finalize: unfinished tools are closed as cancelled, a
\* permission wait is left, and the terminal state follows the evidence.
Closed(l)  == [l EXCEPT !.active = {}, !.tools = @ \cup l.active]
\* Mutated form: the wait is not left.
WaitKept(l) == l
Resumed(l) == IF l.state = "AwaitingInput" THEN Transition(l, "Running") ELSE l
Settled(l, terminal) == IF l.state = "Verifying" THEN Transition(l, terminal) ELSE l
Verified(l) == IF l.state = "Running" THEN Transition(l, "Verifying") ELSE l
Finalized(l, terminal) == Settled(Verified(Resumed(Closed(l))), terminal)
=============================================================================
