-------------------------- MODULE UpdateDrain_proofs --------------------------
(***************************************************************************)
(* Proofs about the update latch, for every finite set of commands and     *)
(* every drain bound.                                                      *)
(***************************************************************************)
EXTENDS UpdateDrain, FiniteSetTheorems, TLAPS

-----------------------------------------------------------------------------
\* How a change of one command's state changes the set that is counted.
LEMMA CountedFinite == IsFiniteSet(Counted) /\ Cardinality(Counted) \in Nat
<1>1. Counted \subseteq Runs
  BY DEF Counted
<1>2. IsFiniteSet(Counted)
  BY <1>1, RunsAssumption, FS_Subset
<1> QED
  BY <1>2, FS_CardinalityType

LEMMA CountedUnchanged ==
  ASSUME run' = run
  PROVE  Counted' = Counted
  BY DEF Counted

LEMMA CountedStays ==
  ASSUME run \in [Runs -> RunStates], NEW r \in Runs, NEW s,
         run' = [run EXCEPT ![r] = s],
         run[r] \in {"counted", "retreat", "holding"}
                      <=> s \in {"counted", "retreat", "holding"}
  PROVE  Counted' = Counted
  BY DEF Counted

LEMMA CountedAdds ==
  ASSUME run \in [Runs -> RunStates], NEW r \in Runs, run[r] = "admitted",
         run' = [run EXCEPT ![r] = "counted"]
  PROVE  Cardinality(Counted') = Cardinality(Counted) + 1
<1>1. Counted' = Counted \cup {r} /\ r \notin Counted
  BY DEF Counted
<1> QED
  BY <1>1, CountedFinite, FS_AddElement

LEMMA CountedRemoves ==
  ASSUME run \in [Runs -> RunStates], NEW r \in Runs,
         run[r] \in {"retreat", "holding"},
         run' = [run EXCEPT ![r] = "idle"]
  PROVE  /\ Cardinality(Counted') = Cardinality(Counted) - 1
         /\ Cardinality(Counted') \in Nat
<1>1. Counted' = Counted \ {r} /\ r \in Counted
  BY DEF Counted
<1>2. IsFiniteSet(Counted')
  BY <1>1, CountedFinite, FS_RemoveElement
<1> QED
  BY <1>1, <1>2, CountedFinite, FS_RemoveElement, FS_CardinalityType

-----------------------------------------------------------------------------
(* Type correctness and the exact count are proved together: active_runs   *)
(* stays a natural number because it is a cardinality.                     *)

TypeAndCount == TypeOK /\ CountExact

LEMMA TypeAndCountInit == Init => TypeAndCount
<1> SUFFICES ASSUME Init PROVE TypeAndCount
  OBVIOUS
<1>1. TypeOK
  <2>1. update_draining \in BOOLEAN
    BY DEF Init
  <2>2. waited \in 0..TimeoutPolls
    BY TimeoutAssumption DEF Init
  <2>3. active_runs \in Nat /\ visible \subseteq Runs /\ updater \in UpdaterStates
    BY DEF Init, UpdaterStates
  <2>4. run \in [Runs -> RunStates]
    BY DEF Init, RunStates
  <2> QED
    BY <2>1, <2>2, <2>3, <2>4 DEF TypeOK
<1>2. Counted = {}
  BY DEF Init, Counted
<1>3. CountExact
  BY <1>2, FS_EmptySet DEF Init, CountExact
<1> QED
  BY <1>1, <1>3 DEF TypeAndCount

LEMMA TypeAndCountStep == TypeAndCount /\ [Next]_vars => TypeAndCount'
<1> SUFFICES ASSUME TypeAndCount, [Next]_vars
             PROVE  TypeOK' /\ CountExact'
  BY DEF TypeAndCount
<1> USE DEF TypeAndCount, TypeOK, CountExact
<1>1. ASSUME NEW r \in Runs, FirstCheck(r)
      PROVE  TypeOK' /\ CountExact'
  <2>1. Counted' = Counted
    BY <1>1, CountedStays DEF FirstCheck
  <2> QED
    BY <1>1, <2>1 DEF FirstCheck, RunStates
<1>2. ASSUME NEW r \in Runs, Join(r)
      PROVE  TypeOK' /\ CountExact'
  <2>1. Cardinality(Counted') = Cardinality(Counted) + 1
    BY <1>2, CountedAdds DEF Join
  <2> QED
    BY <1>2, <2>1 DEF Join, RunStates
<1>3. ASSUME NEW r \in Runs, SecondCheck(r)
      PROVE  TypeOK' /\ CountExact'
  <2> DEFINE s == IF update_draining THEN "retreat" ELSE "holding"
  <2>1. s \in {"retreat", "holding"}
    OBVIOUS
  <2>2. run' = [run EXCEPT ![r] = s] /\ run[r] = "counted"
    BY <1>3 DEF SecondCheck
  <2> HIDE DEF s
  <2>3. Counted' = Counted
    BY <2>1, <2>2, CountedStays
  <2> QED
    BY <1>3, <2>1, <2>2, <2>3 DEF SecondCheck, RunStates
<1>4. ASSUME NEW r \in Runs, Retreat(r) \/ Release(r)
      PROVE  TypeOK' /\ CountExact'
  <2>1. /\ Cardinality(Counted') = Cardinality(Counted) - 1
        /\ Cardinality(Counted') \in Nat
    BY <1>4, CountedRemoves DEF Retreat, Release
  <2> QED
    BY <1>4, <2>1 DEF Retreat, Release, RunStates
<1>5. CASE Observe
  <2>1. Counted' = Counted
    BY <1>5, CountedUnchanged DEF Observe
  <2> QED
    BY <1>5, <2>1 DEF Observe, Holding
<1>6. CASE Updater
  <2>1. run' = run
    BY <1>6 DEF Updater, ApplyUpdate, KeepWaiting, WorkSettled, Latch, ReadCount, Poll,
                Prepared, Installed, CancelDrain
  <2>2. Counted' = Counted
    BY <2>1, CountedUnchanged
  <2>3. update_draining' \in BOOLEAN
    BY <1>6 DEF Updater, ApplyUpdate, KeepWaiting, WorkSettled, Latch, ReadCount, Poll,
                Prepared, Installed, CancelDrain
  <2>4. waited' \in 0..TimeoutPolls
    BY <1>6, TimeoutAssumption
    DEF Updater, ApplyUpdate, KeepWaiting, WorkSettled, Latch, ReadCount, Poll,
        Prepared, Installed, CancelDrain
  <2>5. active_runs' = active_runs /\ visible' = visible /\ updater' \in UpdaterStates
    BY <1>6 DEF Updater, ApplyUpdate, KeepWaiting, WorkSettled, Latch, ReadCount, Poll,
                Prepared, Installed, CancelDrain, UpdaterStates
  <2> QED
    BY <2>1, <2>2, <2>3, <2>4, <2>5
<1>7. CASE UNCHANGED vars
  <2>1. Counted' = Counted
    BY <1>7, CountedUnchanged DEF vars
  <2> QED
    BY <1>7, <2>1 DEF vars
<1> QED
  BY <1>1, <1>2, <1>3, <1>4, <1>5, <1>6, <1>7 DEF Next, StartRun

\* The counter equals the number of commands between their increment and
\* their decrement in every reachable state.
THEOREM TypeAndCountInvariant == Spec => [](TypeOK /\ CountExact)
<1>1. Spec => []TypeAndCount
  BY TypeAndCountInit, TypeAndCountStep, PTL DEF Spec
<1> QED
  BY <1>1, PTL DEF TypeAndCount

-----------------------------------------------------------------------------
(* No run survives into the installation.  InstallQuiescent is not         *)
(* inductive: a command that is already counted when the latch goes up     *)
(* would still obtain its guard if the latch were down at its second load. *)
(* The latch is up from the store until the drain ends.                    *)

LatchHeld == updater \in {"latched", "polling", "preparing", "installing", "relaunching"}
             => update_draining

IInv == TypeOK /\ CountExact /\ LatchHeld /\ InstallQuiescent

LEMMA ZeroMeansNobody ==
  ASSUME CountExact, active_runs = 0
  PROVE  Holding = {}
<1>1. Counted = {}
  BY CountedFinite, FS_EmptySet DEF CountExact
<1> QED
  BY <1>1 DEF Counted, Holding

LEMMA LatchHeldStep ==
  ASSUME LatchHeld, [Next]_vars
  PROVE  LatchHeld'
  BY DEF LatchHeld, Next, vars, StartRun, FirstCheck, Join, SecondCheck, Retreat,
         Release, Observe, Updater, ApplyUpdate, KeepWaiting, WorkSettled, Latch, ReadCount,
         Poll, Prepared, Installed, CancelDrain

LEMMA QuiescentStep ==
  ASSUME IInv, [Next]_vars
  PROVE  InstallQuiescent'
<1> SUFFICES ASSUME Quiescing' PROVE Holding' = {}
  BY DEF InstallQuiescent
<1> USE DEF IInv, TypeOK
<1>1. CASE \E r \in Runs : StartRun(r) \/ Release(r)
  <2>1. Quiescing /\ update_draining
    BY <1>1 DEF Quiescing, LatchHeld, StartRun, FirstCheck, Join, SecondCheck,
                Retreat, Release
  <2>2. Holding = {}
    BY <2>1 DEF InstallQuiescent
  <2>3. \A q \in Runs : run'[q] = "holding" => run[q] = "holding"
    BY <1>1, <2>1 DEF StartRun, FirstCheck, Join, SecondCheck, Retreat, Release
  <2> QED
    BY <2>2, <2>3 DEF Holding
<1>2. CASE ReadCount
  <2>1. active_runs = 0 /\ run' = run
    BY <1>2 DEF ReadCount, Quiescing
  <2> QED
    BY <2>1, ZeroMeansNobody DEF Holding
<1>3. CASE Observe \/ (Updater /\ ~ReadCount) \/ UNCHANGED vars
  <2>1. Quiescing /\ run' = run
    BY <1>3 DEF Quiescing, Observe, Updater, ApplyUpdate, KeepWaiting, WorkSettled, Latch,
                Poll, Prepared, Installed, CancelDrain, vars
  <2> QED
    BY <2>1 DEF InstallQuiescent, Holding
<1> QED
  BY <1>1, <1>2, <1>3 DEF Next, Updater

LEMMA IInvInit == Init => IInv
  BY TypeAndCountInit
  DEF IInv, TypeAndCount, LatchHeld, InstallQuiescent, Quiescing, Init

LEMMA IInvStep == IInv /\ [Next]_vars => IInv'
  BY TypeAndCountStep, LatchHeldStep, QuiescentStep DEF IInv, TypeAndCount

\* Between the zero count and the relaunch no provider run owns a guard.
THEOREM NoRunDuringInstall == Spec => []InstallQuiescent
<1>1. IInv => InstallQuiescent
  BY DEF IInv
<1> QED
  BY IInvInit, IInvStep, <1>1, PTL DEF Spec

-----------------------------------------------------------------------------
\* A latch that is up has an updater that goes on to lower it or to relaunch,
\* whatever the commands do (applyUpdate and its catch branch).
THEOREM LatchHasOwner == Spec => []LatchOwned
<1>1. Init => LatchOwned
  BY DEF Init, LatchOwned
<1>2. LatchOwned /\ [Next]_vars => LatchOwned'
  BY DEF LatchOwned, Next, vars, StartRun, FirstCheck, Join, SecondCheck, Retreat, Release,
         Observe, Updater, ApplyUpdate, KeepWaiting, WorkSettled, Latch, ReadCount, Poll,
         Prepared, Installed, CancelDrain
<1> QED
  BY <1>1, <1>2, PTL DEF Spec
=============================================================================
