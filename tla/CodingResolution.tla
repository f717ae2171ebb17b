--------------------------- MODULE CodingResolution ---------------------------
(***************************************************************************)
(* What becomes of a coordinator's run: it is kept as pending until it is  *)
(* discarded or applied to the checkouts the user works in                 *)
(* (provider-local/src/orchestration_writer_tool.rs and                    *)
(* multi_repo_workspace/application.rs).  git applies one repository at a  *)
(* time, and the user goes on editing.                                     *)
(***************************************************************************)
EXTENDS MultiRepoCoordinator

CONSTANTS Repositories,  \* their ids, in the order of the map
          Home           \* per writer: the repository of its lease

ASSUME ResolutionAssumption ==
    /\ Repositories \in Seq(ToSet(Repositories)) /\ IsInjective(Repositories)
    /\ Home \in [Writers -> ToSet(Repositories)]

\* build_plan divides the budget, less a tenth for the reviewer and the
\* integrator, among the writers; a budget below the minimum is refused.
Lifecycle(review) == IF review THEN 2 ELSE 1
AdmittedBudget(review) == Limit >= Cardinality(Writers) + Lifecycle(review)
Headroom(review) ==
    Min({Max({Limit \div 10, Lifecycle(review)}), Limit - Cardinality(Writers)})
WriterReservation(review) ==
    Max({(Limit - Headroom(review)) \div Cardinality(Writers), 1})

VARIABLES
    stage,     \* where the pending run is, and its resolution
    primary,   \* per repository: the packages its checkout contains
    edits,     \* per repository: what the user has changed since the selection
    todo,      \* the repositories still to be applied, or to be rolled back
    torn       \* a rollback has stopped half way

resolution == <<stage, primary, edits, todo, torn>>

Repos == ToSet(Repositories)
Steps == 1..Len(Repositories)
Untouched == [r \in Repos |-> Nothing]

\* The packages of the run, as one repository has them.
Share(r) == [w \in Writers |-> IF Home[w] = r THEN applied[w] ELSE NoPatch]

ResolutionInit ==
    /\ Init
    /\ stage = "none" /\ torn = FALSE /\ todo = <<>>
    /\ primary = Untouched /\ edits = [r \in Repos |-> {}]

\* A run that passed is kept; any other is an error and leaves nothing.
Keep ==
    /\ stage = "none" /\ result = "passed" /\ stage' = "pending"
    /\ UNCHANGED <<vars, primary, edits, todo, torn>>

\* The user, or another program: "leased" changes a file the packages change,
\* "other" anything else a checkout is compared by.
Edit(r) ==
    /\ stage \notin {"none", "applied", "discarded"}
    /\ \E what \in {"leased", "other"} : edits' = [edits EXCEPT ![r] = @ \cup {what}]
    /\ UNCHANGED <<vars, stage, primary, todo, torn>>

\* verify_primaries_unchanged: HEAD and the digest of the working state.
Unchanged == primary = Untouched /\ \A r \in Repos : edits[r] = {}

\* The first check, the packages read again, and git apply --check.
Preflight ==
    /\ stage = "pending" /\ Unchanged
    /\ stage' = "preflighted"
    /\ UNCHANGED <<vars, primary, edits, todo, torn>>

\* The second check; a change in between, or a patch that does not fit, ends it.
Admit ==
    /\ stage = "preflighted"
    /\ \/ Unchanged /\ stage' = "applying" /\ todo' = Repositories
       \/ stage' = "pending" /\ UNCHANGED todo
    /\ UNCHANGED <<vars, primary, edits, torn>>

Tried == {i \in Steps : i + Len(todo) <= Len(Repositories)}

\* Mutant of RollBack: what was applied before the failure is kept.
KeepApplied == stage' = "pending" /\ todo' = <<>>

RollBack ==
    /\ stage' = "rolling_back"
    /\ todo' = Reverse(SubSeq(Repositories, 1, Cardinality(Tried)))

Apply ==
    /\ stage = "applying" /\ todo # <<>>
    /\ LET r == Head(todo) IN
       \/ /\ primary' = [primary EXCEPT ![r] = Share(r)]
          /\ todo' = Tail(todo) /\ UNCHANGED stage
       \/ UNCHANGED primary /\ RollBack
    /\ UNCHANGED <<vars, edits, torn>>

\* The receipt compares the changed paths and HEAD of every checkout.
Receipt ==
    /\ stage = "applying" /\ todo = <<>>
    /\ \/ /\ \A r \in Repos : "other" \notin edits[r]
          /\ stage' = "applied" /\ UNCHANGED todo
       \/ RollBack
    /\ UNCHANGED <<vars, primary, edits, torn>>

\* The latest first; the first reverse patch that fails ends it.
Reverted ==
    /\ stage = "rolling_back"
    /\ \/ /\ todo = <<>> /\ stage' = "pending" /\ UNCHANGED <<primary, todo, torn>>
       \/ /\ todo # <<>>
          /\ primary' = [primary EXCEPT ![Head(todo)] = Nothing]
          /\ todo' = Tail(todo) /\ UNCHANGED <<stage, torn>>
       \/ /\ todo # <<>> /\ torn' = TRUE
          /\ stage' = "pending" /\ todo' = <<>> /\ UNCHANGED primary
    /\ UNCHANGED <<vars, edits>>

Discard ==
    /\ stage = "pending" /\ stage' = "discarded"
    /\ UNCHANGED <<vars, primary, edits, todo, torn>>

ResolutionNext ==
    \/ Next /\ UNCHANGED resolution
    \/ Keep \/ Preflight \/ Admit \/ Apply \/ Receipt \/ Reverted \/ Discard
    \/ \E r \in Repos : Edit(r)

ResolutionSpec ==
    ResolutionInit /\ [][ResolutionNext]_<<vars, resolution>> /\ Fairness

-----------------------------------------------------------------------------
(* Apply is all or nothing (application.rs): a run that is reported as     *)
(* applied is in the checkouts with every package its integration          *)
(* replayed; one that is still pending, or was discarded, is in none of    *)
(* them, whatever the user edited and wherever git failed, unless a        *)
(* rollback stopped half way.                                              *)
AppliedWhole ==
    /\ stage = "applied" => \A w \in Writers : primary[Home[w]][w] = packages[w]
    /\ stage \in {"pending", "preflighted", "discarded"} /\ ~torn => primary = Untouched
=============================================================================
