------------------------------ MODULE UpdateDrain ------------------------------
(***************************************************************************)
(* The update latch of src/src-tauri/src/state.rs and the installer loop   *)
(* of applyUpdate in src/app/src/store/sessionStore.appActions.ts.         *)
(*                                                                         *)
(* Provider runs join a counter through try_start_run, which is three      *)
(* separate SeqCst operations (load, fetch_add, load).  The updater raises *)
(* the latch and reads the counter, again two separate operations, and     *)
(* installs when it has read zero.  Nothing but the order of these         *)
(* accesses keeps a run out of the process that is about to be replaced.   *)
(***************************************************************************)
EXTENDS Integers, FiniteSets

CONSTANTS Runs,         \* the prompt and compact commands that may start a run
          TimeoutPolls  \* UPDATE_DRAIN_TIMEOUT_MS / UPDATE_DRAIN_POLL_MS

ASSUME RunsAssumption == IsFiniteSet(Runs)
ASSUME TimeoutAssumption == TimeoutPolls \in Nat \ {0}

VARIABLES
    update_draining,  \* AppState::update_draining
    active_runs,      \* AppState::active_runs
    run,              \* run[r]: where command r is in try_start_run, or its guard
    visible,          \* the runs the WebView shows as busy; lags behind run
    updater,          \* where applyUpdate is
    waited            \* waitedMs, in polls

vars == <<update_draining, active_runs, run, visible, updater, waited>>

RunStates == {"idle",      \* not in try_start_run, holds no guard
              "admitted",  \* first load saw no drain
              "counted",   \* fetch_add done, second load outstanding
              "retreat",   \* second load saw a drain, fetch_sub outstanding
              "holding"}   \* owns an ActiveRunGuard

UpdaterStates == {"idle", "waiting", "latching", "latched", "polling",
                  "preparing", "installing", "relaunching"}

Counted == {r \in Runs : run[r] \in {"counted", "retreat", "holding"}}
Holding == {r \in Runs : run[r] = "holding"}

Init ==
    /\ update_draining = FALSE
    /\ active_runs = 0
    /\ run = [r \in Runs |-> "idle"]
    /\ visible = {}
    /\ updater = "idle"
    /\ waited = 0

-----------------------------------------------------------------------------
(* Mutated forms of the definitions below, each a bug the properties must  *)
(* catch.                                                                  *)

\* try_start_run without the second look at the latch.
SecondCheckBlind(r) ==
    /\ run[r] = "counted"
    /\ run' = [run EXCEPT ![r] = "holding"]
    /\ UNCHANGED <<update_draining, active_runs, visible, updater, waited>>

\* A rejected command that forgets its fetch_sub.
RetreatLeaking(r) ==
    /\ run[r] = "retreat"
    /\ run' = [run EXCEPT ![r] = "idle"]
    /\ UNCHANGED <<update_draining, active_runs, visible, updater, waited>>

\* A failed update that leaves the latch up.
CancelKeepsLatch ==
    /\ updater \in {"preparing", "installing", "relaunching"}
    /\ updater' = "idle"
    /\ UNCHANGED <<update_draining, active_runs, run, visible, waited>>

\* No bound on the native drain.
CancelUnbounded ==
    /\ updater \in {"preparing", "installing", "relaunching"}
    /\ update_draining' = FALSE
    /\ updater' = "idle"
    /\ UNCHANGED <<active_runs, run, visible, waited>>

-----------------------------------------------------------------------------
(* try_start_run and the guard                                             *)

FirstCheck(r) ==
    /\ run[r] = "idle"
    /\ ~update_draining
    /\ run' = [run EXCEPT ![r] = "admitted"]
    /\ UNCHANGED <<update_draining, active_runs, visible, updater, waited>>

Join(r) ==
    /\ run[r] = "admitted"
    /\ active_runs' = active_runs + 1
    /\ run' = [run EXCEPT ![r] = "counted"]
    /\ UNCHANGED <<update_draining, visible, updater, waited>>

\* The second load: the run owns a guard only if the drain has still not begun.
SecondCheck(r) ==
    /\ run[r] = "counted"
    /\ run' = [run EXCEPT ![r] = IF update_draining THEN "retreat" ELSE "holding"]
    /\ UNCHANGED <<update_draining, active_runs, visible, updater, waited>>

Retreat(r) ==
    /\ run[r] = "retreat"
    /\ active_runs' = active_runs - 1
    /\ run' = [run EXCEPT ![r] = "idle"]
    /\ UNCHANGED <<update_draining, visible, updater, waited>>

\* Drop of the ActiveRunGuard at the end of the stream task, or on any early
\* return of the command.
Release(r) ==
    /\ run[r] = "holding"
    /\ active_runs' = active_runs - 1
    /\ run' = [run EXCEPT ![r] = "idle"]
    /\ UNCHANGED <<update_draining, visible, updater, waited>>

\* A snapshot emitted by the host reaches the WebView some time after the
\* run started or ended.
Observe ==
    /\ visible # Holding
    /\ visible' = Holding
    /\ UNCHANGED <<update_draining, active_runs, run, updater, waited>>

-----------------------------------------------------------------------------
(* applyUpdate                                                             *)

ApplyUpdate ==
    /\ updater = "idle"
    /\ updater' = "waiting"
    /\ waited' = 0
    /\ UNCHANGED <<update_draining, active_runs, run, visible>>

\* while (connecting || liveUpdateBlockerCount() > 0): nothing is latched yet.
WorkSettled ==
    /\ updater = "waiting"
    /\ visible = {}
    /\ updater' = "latching"
    /\ UNCHANGED <<update_draining, active_runs, run, visible, waited>>

\* Still blocked: by a visible run, or by a connecting, dispatching, starting
\* or reconfiguring session that the bound is there for.
KeepWaiting ==
    /\ updater = "waiting"
    /\ waited < TimeoutPolls \/ visible # {}
    /\ waited' = IF visible # {} THEN 0 ELSE waited + 1
    /\ UNCHANGED <<update_draining, active_runs, run, visible, updater>>

\* begin_update_drain, first half: the store.
Latch ==
    /\ updater = "latching"
    /\ waited < TimeoutPolls
    /\ update_draining' = TRUE
    /\ updater' = "latched"
    /\ UNCHANGED <<active_runs, run, visible, waited>>

\* begin_update_drain, second half: the load that decides.
ReadCount ==
    /\ updater = "latched"
    /\ updater' = IF active_runs = 0 THEN "preparing" ELSE "polling"
    /\ UNCHANGED <<update_draining, active_runs, run, visible, waited>>

\* waitForDrainPoll: visible work resets the bound, anything else uses it up.
Poll ==
    /\ updater = "polling"
    /\ waited < TimeoutPolls
    /\ waited' = IF visible # {} THEN 0 ELSE waited + 1
    /\ updater' = "latching"
    /\ UNCHANGED <<update_draining, active_runs, run, visible>>

\* refreshStagedUpdate and prepareCloudDurability succeed.
Prepared ==
    /\ updater = "preparing"
    /\ updater' = "installing"
    /\ UNCHANGED <<update_draining, active_runs, run, visible, waited>>

Installed ==
    /\ updater = "installing"
    /\ updater' = "relaunching"
    /\ UNCHANGED <<update_draining, active_runs, run, visible, waited>>

\* The catch branch: the bound is used up, a step failed, or the process did
\* not relaunch.  cancel_update_drain lowers the latch.
CancelDrain ==
    /\ \/ updater = "waiting" /\ visible = {} /\ waited >= TimeoutPolls
       \/ updater = "latching" /\ waited >= TimeoutPolls
       \/ updater \in {"preparing", "installing", "relaunching"}
    /\ update_draining' = FALSE
    /\ updater' = "idle"
    /\ UNCHANGED <<active_runs, run, visible, waited>>

-----------------------------------------------------------------------------
StartRun(r) == FirstCheck(r) \/ Join(r) \/ SecondCheck(r) \/ Retreat(r)

Updater == \/ ApplyUpdate \/ KeepWaiting \/ WorkSettled \/ Latch \/ ReadCount
           \/ Poll \/ Prepared \/ Installed \/ CancelDrain

Next ==
    \/ \E r \in Runs : StartRun(r) \/ Release(r)
    \/ Observe
    \/ Updater

Spec == Init /\ [][Next]_vars

\* Started commands run on, guards are dropped (RunFinished ends the drain of
\* a stream even if the provider does not close it), snapshots are delivered
\* and the updater's promise chain is scheduled.  Nobody has to start a run
\* or an update.
Fairness ==
    /\ \A r \in Runs : /\ WF_vars(Join(r) \/ SecondCheck(r) \/ Retreat(r))
                       /\ WF_vars(Release(r))
    /\ WF_vars(Observe)
    /\ WF_vars(Latch \/ ReadCount \/ Poll \/ Prepared \/ Installed \/ CancelDrain)

FairSpec == Spec /\ Fairness

-----------------------------------------------------------------------------
(* Properties                                                              *)

TypeOK ==
    /\ update_draining \in BOOLEAN
    /\ active_runs \in Nat
    /\ run \in [Runs -> RunStates]
    /\ visible \subseteq Runs
    /\ updater \in UpdaterStates
    /\ waited \in 0..TimeoutPolls

\* From the moment begin_update_drain has returned zero until the process is
\* replaced or the drain is cancelled, no run owns a guard: no run that
\* slipped past the latch is killed by the relaunch.
Quiescing == updater \in {"preparing", "installing", "relaunching"}
InstallQuiescent == Quiescing => Holding = {}

\* The counter is exact: it is the number of commands between their
\* fetch_add and their fetch_sub, so a retreat or an early return never
\* leaks a count that would hold the updater forever.
CountExact == active_runs = Cardinality(Counted)

\* A latch that is up has an updater that will lower it: the composer is
\* never left rejecting every prompt.
LatchOwned == update_draining => updater \notin {"idle", "waiting"}

\* Once the latch is up the updater finishes: the process is relaunched or
\* the latch is lowered again.
DrainTerminates ==
    (updater = "latched") ~> (updater = "relaunching" \/ ~update_draining)
=============================================================================
