------------------------- MODULE MultiRepoCoordinator -------------------------
(***************************************************************************)
(* One run of the coding delegation coordinator                            *)
(* (crates/agent-orchestration/src/multi_repo/runtime/run.rs): readers     *)
(* first, then the writers in batches that respect their dependencies, an  *)
(* optional independent review with rework, and a fresh integration of     *)
(* what the writers delivered.  Every task runs in a harness               *)
(* (multi_repo_provider.rs) that answers late, wrongly or with a failure.  *)
(*                                                                         *)
(* A package is the number of the patch its writer delivered.  Attempt     *)
(* numbers, events and prompts are left out.  Dependencies are those among *)
(* writers: readers always run first, whatever they depend on.             *)
(***************************************************************************)
EXTENDS SharedBudget, Sequences, FiniteSets, FiniteSetsExt, SequencesExt

CONSTANTS Readers, Writers,
          MaxParallel,     \* max_parallel_writers
          Reservation,     \* per task: budget_reservation
          Usages,          \* what a harness may report as its usage
          Patches          \* the patches a writer may deliver

Reviewer == "reviewer"
Integrator == "integrator"
Tasks == Readers \cup Writers \cup {Reviewer, Integrator}
Layers == 1..Cardinality(Writers)
NoPatch == 0
Nothing == [w \in Writers |-> NoPatch]

ASSUME CoordinatorAssumption ==
    /\ IsFiniteSet(Readers) /\ IsFiniteSet(Writers) /\ Readers \cap Writers = {}
    /\ Reviewer \notin Readers \cup Writers /\ Integrator \notin Readers \cup Writers
    /\ MaxParallel \in Nat \ {0}
    /\ Reservation \in [Tasks -> Nat \ {0}] /\ Usages \subseteq Nat
    /\ Patches \subseteq Nat \ {NoPatch}

VARIABLES
    deps,       \* per writer: the writers it depends on
    layers,     \* topological_layers of the plan
    reviewed,   \* requires_independent_review
    phase,      \* where run() is
    work,       \* per task: "idle", "queued" or "running"
    retry,      \* the failed tasks, or those to be reworked, in order
    begun,      \* the writers whose batch has started
    reports,    \* the readers that have reported
    packages,   \* per writer: the package that is accepted
    verdict,    \* the packages the reviewer accepted
    applied,    \* the packages the integration applied
    result,     \* how run() has returned
    cancelled,  \* the cancellation token
    overrun     \* some task has used more than it reserved

plan   == <<deps, layers, reviewed>>
output == <<reports, packages, verdict, applied>>
vars   == <<budget, plan, phase, work, retry, begun, output, result, cancelled, overrun>>

Before(i) == UNION {layers[j] : j \in 1..(i - 1)}

\* A valid plan: every layer holds what only depends on the layers before it,
\* and together they hold every writer, so no dependency is circular.
ValidPlan ==
    /\ \A i \in Layers :
          layers[i] = {w \in Writers \ Before(i) : deps[w] \subseteq Before(i)}
    /\ UNION {layers[i] : i \in Layers} = Writers

Init ==
    /\ EmptyBudget
    /\ deps \in [Writers -> SUBSET Writers]
    /\ layers \in [Layers -> SUBSET Writers] /\ ValidPlan
    /\ reviewed \in BOOLEAN
    /\ phase = "planning" /\ work = [t \in Tasks |-> "idle"]
    /\ retry = <<>> /\ begun = {} /\ reports = {}
    /\ packages = Nothing /\ verdict = Nothing /\ applied = Nothing
    /\ result = "none" /\ cancelled = FALSE /\ overrun = FALSE

Busy == {t \in Tasks : work[t] # "idle"}
Running == {t \in Tasks : work[t] = "running"}
Held(tasks) == MapThenSumSet(LAMBDA t : Reservation[t], tasks)

Queue(tasks) == work' = [t \in Tasks |-> IF t \in tasks THEN "queued" ELSE work[t]]
Idle(t) == work' = [work EXCEPT ![t] = "idle"]

\* run() returns: the futures that have not ended are dropped.
Return(how) ==
    /\ result' = how /\ phase' = "done"
    /\ work' = [t \in Tasks |-> "idle"]
    /\ UNCHANGED <<retry, begun>>

-----------------------------------------------------------------------------
(* The phases of run()                                                     *)

Delegated == MaxParallel >= 2 /\ \E i \in Layers : Cardinality(layers[i]) >= 2

Plan ==
    /\ phase = "planning"
    /\ \/ ~Delegated /\ Return("declined")
       \/ /\ Delegated /\ phase' = "reading" /\ Queue(Readers)
          /\ UNCHANGED <<retry, begun, result>>
    /\ UNCHANGED <<budget, plan, output, cancelled, overrun>>

\* Everything that ran at the same time has ended: the failed ones are next.
Collected ==
    /\ phase \in {"reading", "writing"} /\ Busy = {}
    /\ phase' = IF phase = "reading" THEN "rereading" ELSE "rewriting"
    /\ UNCHANGED <<budget, plan, work, retry, begun, output, result, cancelled, overrun>>

\* Mutant of Recover: the recovery loop does not ask for cancellation.
RecoverBlindly ==
    /\ phase \in {"rereading", "rewriting"} /\ Busy = {} /\ retry # <<>>
    /\ Queue({Head(retry)}) /\ UNCHANGED <<phase, retry, begun, result>>
    /\ UNCHANGED <<budget, plan, output, cancelled, overrun>>

\* A failed task runs again, alone, until it succeeds or the run is cancelled.
Recover ==
    /\ phase \in {"rereading", "rewriting"} /\ Busy = {} /\ retry # <<>>
    /\ \/ cancelled /\ Return("failed")
       \/ ~cancelled /\ Queue({Head(retry)}) /\ UNCHANGED <<phase, retry, begun, result>>
    /\ UNCHANGED <<budget, plan, output, cancelled, overrun>>

Recovered == phase \in {"rereading", "rewriting"} /\ Busy = {} /\ retry = <<>>

\* Mutant of OpenLayer: a batch is filled from any layer.
AnyLayer(i) == layers[i] \ begun # {}

OpenLayer(i) ==
    /\ layers[i] \ begun # {}
    /\ \A j \in 1..(i - 1) : layers[j] \subseteq begun

\* The next writers: a chunk of the layer, in an order of the tasks' names.
NextBatch ==
    /\ Recovered
    /\ \E i \in Layers, batch \in SUBSET (Writers \ begun) :
          /\ OpenLayer(i) /\ batch \subseteq layers[i]
          /\ LET left == Cardinality(layers[i] \ begun)
             IN  Cardinality(batch) = IF left < MaxParallel THEN left ELSE MaxParallel
          /\ begun' = begun \cup batch /\ Queue(batch)
    /\ phase' = "writing"
    /\ UNCHANGED <<budget, plan, retry, output, result, cancelled, overrun>>

WritersDone ==
    /\ Recovered /\ begun = Writers
    /\ \/ reviewed /\ phase' = "review" /\ Queue({Reviewer})
       \/ ~reviewed /\ phase' = "integration" /\ Queue({Integrator})
    /\ UNCHANGED <<budget, plan, retry, begun, output, result, cancelled, overrun>>

\* Mutant of Rework: the reworked packages are not reviewed again.
ReworkUnreviewed ==
    /\ phase = "rework" /\ Busy = {}
    /\ \/ /\ retry # <<>> /\ Queue({Head(retry)}) /\ UNCHANGED phase
       \/ /\ retry = <<>> /\ phase' = "integration" /\ Queue({Integrator})
    /\ UNCHANGED <<budget, plan, retry, begun, output, result, cancelled, overrun>>

\* The writers the review has named, one after the other, then the review again.
Rework ==
    /\ phase = "rework" /\ Busy = {}
    /\ \/ /\ retry # <<>> /\ Queue({Head(retry)}) /\ UNCHANGED phase
       \/ /\ retry = <<>> /\ phase' = "review" /\ Queue({Reviewer})
    /\ UNCHANGED <<budget, plan, retry, begun, output, result, cancelled, overrun>>

-----------------------------------------------------------------------------
(* A task: reservation, harness, settlement                                *)

\* A failed task is kept for recovery; outside of it the run has failed.
Failed(t) ==
    \/ /\ phase \in {"reading", "writing"}
       /\ Idle(t) /\ retry' = Append(retry, t) /\ UNCHANGED <<phase, begun, result>>
    \/ /\ phase \in {"rereading", "rewriting"}
       /\ Idle(t) /\ UNCHANGED <<phase, retry, begun, result>>
    \/ /\ phase \in {"rework", "review", "integration"}
       /\ Return("failed")

Begin(t) ==
    /\ work[t] = "queued"
    /\ \/ /\ Reserve(Reservation[t])
          /\ work' = [work EXCEPT ![t] = "running"]
          /\ UNCHANGED <<phase, retry, begun, result>>
       \/ /\ ~Fits(Reservation[t]) /\ Failed(t) /\ UNCHANGED budget
    /\ UNCHANGED <<plan, output, cancelled, overrun>>

\* Mutant of Settled: a future that is dropped keeps its reservation.
SettledAlone(t, usage) ==
    /\ Settle(Reservation[t], usage)
    /\ overrun' = (overrun \/ usage > Reservation[t])

\* The usage of a task is settled; if run() returns with it, the reservations
\* of the futures it drops are released as well.
Settled(t, usage) ==
    /\ Settle(IF phase' = "done" THEN Held(Running) ELSE Reservation[t], usage)
    /\ overrun' = (overrun \/ usage > Reservation[t])

\* A task that was recovered or reworked leaves the sequence.
Succeeded(t) ==
    /\ Idle(t)
    /\ retry' = IF phase \in {"rereading", "rewriting", "rework"} THEN Tail(retry) ELSE retry
    /\ UNCHANGED <<phase, begun, result>>

\* A reviewer or integrator that fails reports no usage.
HarnessFails(t) ==
    /\ work[t] = "running" /\ Failed(t)
    /\ \E u \in Usages :
          /\ t \in {Reviewer, Integrator} => u = 0
          /\ Settled(t, u)
    /\ UNCHANGED <<plan, output, cancelled>>

\* The answer is not one the plan admits.
AnswerRefused(t) ==
    /\ work[t] = "running" /\ t # Integrator /\ Return("error")
    /\ \E u \in Usages : Settled(t, u)
    /\ UNCHANGED <<plan, output, cancelled>>

Reported(r) ==
    /\ work[r] = "running" /\ Succeeded(r)
    /\ reports' = reports \cup {r}
    /\ \E u \in Usages : Settled(r, u)
    /\ UNCHANGED <<plan, packages, verdict, applied, cancelled>>

Delivered(w) ==
    /\ work[w] = "running" /\ Succeeded(w)
    /\ \E p \in Patches : packages' = [packages EXCEPT ![w] = p]
    /\ \E u \in Usages : Settled(w, u)
    /\ UNCHANGED <<plan, reports, verdict, applied, cancelled>>

Accepted ==
    /\ work[Reviewer] = "running"
    /\ verdict' = packages /\ phase' = "integration"
    /\ work' = [work EXCEPT ![Reviewer] = "idle", ![Integrator] = "queued"]
    /\ \E u \in Usages : Settled(Reviewer, u)
    /\ UNCHANGED <<plan, retry, begun, reports, packages, applied, result, cancelled>>

ReworkAsked ==
    /\ work[Reviewer] = "running"
    /\ \/ cancelled /\ Return("failed")
       \/ /\ ~cancelled /\ phase' = "rework" /\ Idle(Reviewer)
          /\ \E tasks \in (SUBSET Writers) \ {{}} : retry' = SetToSeq(tasks)
          /\ UNCHANGED <<begun, result>>
    /\ \E u \in Usages : Settled(Reviewer, u)
    /\ UNCHANGED <<plan, output, cancelled>>

Exact(replayed) == replayed = packages

\* The integrator's receipt says what it applied to a fresh checkout and
\* whether the checks passed.
Integrated ==
    /\ work[Integrator] = "running"
    /\ \E replayed \in [Writers -> Patches \cup {NoPatch}], passed \in BOOLEAN :
          /\ applied' = replayed
          /\ Return(IF passed /\ Exact(replayed) THEN "passed" ELSE "failed")
    /\ \E u \in Usages : Settled(Integrator, u)
    /\ UNCHANGED <<plan, reports, packages, verdict, cancelled>>

Cancel ==
    /\ phase # "done" /\ ~cancelled /\ cancelled' = TRUE
    /\ UNCHANGED <<budget, plan, phase, work, retry, begun, output, result, overrun>>

Coordinate == Plan \/ Collected \/ Recover \/ NextBatch \/ WritersDone \/ Rework
Answer(t) ==
    \/ HarnessFails(t) \/ AnswerRefused(t)
    \/ t \in Readers /\ Reported(t)
    \/ t \in Writers /\ Delivered(t)
    \/ t = Reviewer /\ (Accepted \/ ReworkAsked)
    \/ t = Integrator /\ Integrated

Next ==
    \/ Coordinate \/ Cancel
    \/ \E t \in Tasks : Begin(t) \/ Answer(t)

\* run() goes on by itself; a harness is only sure to end once it is cancelled.
Fairness ==
    /\ WF_vars(Coordinate)
    /\ \A t \in Tasks : WF_vars(Begin(t)) /\ WF_vars(cancelled /\ Answer(t))

Spec == Init /\ [][Next]_vars /\ Fairness

-----------------------------------------------------------------------------
(* Properties                                                              *)

TypeOK ==
    /\ deps \in [Writers -> SUBSET Writers] /\ layers \in [Layers -> SUBSET Writers]
    /\ reviewed \in BOOLEAN /\ cancelled \in BOOLEAN
    /\ phase \in {"planning", "reading", "rereading", "writing", "rewriting",
                  "review", "rework", "integration", "done"}
    /\ work \in [Tasks -> {"idle", "queued", "running"}]
    /\ retry \in Seq(Readers \cup Writers)
    /\ begun \subseteq Writers /\ reports \subseteq Readers
    /\ {packages, verdict, applied} \subseteq [Writers -> Patches \cup {NoPatch}]
    /\ result \in {"none", "declined", "failed", "error", "passed"}
    /\ (result = "none") = (phase # "done")

(* A writer works on what its dependencies delivered (multi_repo.rs         *)
(* topological_layers, run.rs): while it is queued or running, every        *)
(* reader has reported, every writer it depends on has an accepted          *)
(* package, recoveries included, and no more than MaxParallel writers work. *)
DependenciesFirst ==
    /\ \A w \in Writers \cap Busy :
          reports = Readers /\ \A d \in deps[w] : packages[d] # NoPatch
    /\ Cardinality(Writers \cap Busy) <= MaxParallel

(* What passed is what was integrated and, if the plan asks for it, what    *)
(* the reviewer accepted (validation.rs "exact current package set"): no    *)
(* recovery or rework can put another package there in between.             *)
IntegratedAsReviewed ==
    result = "passed" =>
        /\ reports = Readers /\ \A w \in Writers : packages[w] # NoPatch
        /\ applied = packages
        /\ reviewed => verdict = packages

(* The reservations are those of the tasks that run, also when run()        *)
(* returns and drops some of them, and tasks that keep to their             *)
(* reservations never take the budget over its limit together (budget.rs).  *)
BudgetKept ==
    /\ reserved = Held(Running)
    /\ overrun \/ used + reserved <= Limit

(* A cancelled run returns, whatever failed and however often it is         *)
(* repeated (run.rs, the checks in its recovery and rework loops).          *)
CancelEnds == cancelled ~> result # "none"
=============================================================================
