------------------------- MODULE AccountRuntimes_proofs -------------------------
(***************************************************************************)
(* Proofs about the account and its runtimes, for every set of commands,   *)
(* renewals and configurations, every threshold and any number of workers, *)
(* with and without publications that take the lease a second time.        *)
(***************************************************************************)
EXTENDS AccountPublication, SequenceTheorems, TLAPS

Labels == {"idle", "waiting", "admitted", "readmitted", "asking", "done",
           "prepared", "gated", "found", "missing", "replacing", "starting", "started",
           "replaced", "inserted", "mapped", "selected", "resolved", "current",
           "locked", "cleared", "observed", "renewing", "committing"}
\* The command is admitted under the lease and has not returned.
Inside == Labels \ {"idle", "waiting", "done"}
\* It is at work, and not at its second lease.
Going == Inside \ {"asking", "readmitted"}
\* It has read the account.
Bound == Inside \ {"admitted"}
\* It holds the gate of its configuration.
Gated == {"gated", "found", "missing", "replacing", "starting", "started", "replaced",
          "inserted", "mapped", "selected"}

Readers == Commands \ SignOuts

-----------------------------------------------------------------------------
(* The lease: a reader inside has one, or the second one it has asked for, *)
(* a sign-out inside has them all, and whoever queues is waiting, once.    *)

\* The read leases of a reader.
Reads(l) == IF l \in Inside THEN IF l = "readmitted" THEN 2 ELSE 1 ELSE 0

Queued == /\ queue \in Seq(Commands)
          /\ \A i \in 1..Len(queue) :
                \/ pc[queue[i]] = "waiting"
                \/ pc[queue[i]] = "asking" /\ queue[i] \in Publications
          /\ \A i, j \in 1..Len(queue) : queue[i] = queue[j] => i = j
LeaseInv ==
    /\ pc \in [Commands \cup Renewals -> Labels]
    /\ leases = [p \in Commands |-> IF p \in Readers THEN Reads(pc[p]) ELSE 0]
    /\ writer \in SignOuts \cup {None}
    /\ writer # None => \A p \in Readers : pc[p] \notin Inside
    /\ \A s \in SignOuts : pc[s] \in Inside => writer = s
    /\ writer # None => pc[writer] \in Inside
    /\ Queued

\* A command that is inside goes on, or returns.
GoesOn(p) == \E l \in Going : Go(p, l) /\ UNCHANGED lock
Moved(p) == pc[p] \in Going /\ (GoesOn(p) \/ Return(p))
\* A renewal moves: it has no part in the lease.
RenewalMoved == UNCHANGED lock /\ \E n \in Renewals, l \in Labels : Go(n, l)

LEMMA LeaseInit == Init => LeaseInv
<1> SUFFICES ASSUME Init PROVE LeaseInv
  OBVIOUS
<1>1. Queued
  BY DEF Init, Queued
<1> QED
  BY <1>1 DEF Init, LeaseInv, Labels, Inside, Reads, Readers, Commands

LEMMA GoesOnLease ==
  ASSUME LeaseInv, NEW p \in Commands, pc[p] \in Going, GoesOn(p)
  PROVE  LeaseInv'
<1>1. PICK l \in Going : pc' = [pc EXCEPT ![p] = l] /\ UNCHANGED lock
  BY DEF GoesOn, Go
<1>2. Queued'
  BY <1>1 DEF LeaseInv, Queued, lock, Going, Inside
<1>3. pc' \in [Commands \cup Renewals -> Labels]
  BY <1>1 DEF LeaseInv, Going, Inside
<1>4. \A q \in Commands : (pc'[q] \in Inside <=> pc[q] \in Inside) /\ Reads(pc'[q]) = Reads(pc[q])
  BY <1>1 DEF LeaseInv, Going, Reads
<1> QED
  BY <1>1, <1>2, <1>3, <1>4 DEF LeaseInv, lock, Readers

LEMMA ReturnLease ==
  ASSUME LeaseInv, NEW p \in Commands, pc[p] \in Inside \ {"asking"}, Return(p)
  PROVE  LeaseInv'
<1>1. /\ pc' = [pc EXCEPT ![p] = "done"] /\ leases' = [leases EXCEPT ![p] = 0]
      /\ writer' = (IF writer = p THEN None ELSE writer) /\ queue' = queue
  BY DEF Return, Go
<1>2. Queued'
  BY <1>1 DEF LeaseInv, Queued, Inside
<1>3. pc' \in [Commands \cup Renewals -> Labels]
  BY <1>1 DEF LeaseInv, Labels
<1>4. /\ \A q \in Commands \ {p} : pc'[q] = pc[q]
      /\ pc'[p] \notin Inside
  BY <1>1 DEF LeaseInv, Inside, Commands
<1>5. leases' = [q \in Commands |-> IF q \in Readers THEN Reads(pc'[q]) ELSE 0]
  BY <1>1, <1>4 DEF LeaseInv, Reads
<1>6. /\ writer' \in SignOuts \cup {None}
      /\ writer' # None => \A q \in Readers : pc'[q] \notin Inside
      /\ \A s \in SignOuts : pc'[s] \in Inside => writer' = s
      /\ writer' # None => pc'[writer'] \in Inside
  BY <1>1, <1>4 DEF LeaseInv, Readers, Commands
<1> QED
  BY <1>2, <1>3, <1>5, <1>6 DEF LeaseInv

LEMMA RenewalLease ==
  ASSUME LeaseInv, RenewalMoved
  PROVE  LeaseInv'
<1>1. PICK n \in Renewals, l \in Labels : pc' = [pc EXCEPT ![n] = l] /\ UNCHANGED lock
  BY DEF RenewalMoved, Go
<1>2. \A p \in Commands : pc'[p] = pc[p]
  BY <1>1, KindsDistinct DEF LeaseInv, Commands
<1>3. pc' \in [Commands \cup Renewals -> Labels]
  BY <1>1 DEF LeaseInv
<1>4. Queued'
  BY <1>1, <1>2 DEF LeaseInv, Queued, lock
<1> QED
  BY <1>1, <1>2, <1>3, <1>4 DEF LeaseInv, lock, Readers, Commands

\* A command asks: for its first lease, or as a publication for a second one.
Asks(p, from, to) ==
    \/ from = "idle" /\ to = "waiting"
    \/ from = "admitted" /\ to = "asking" /\ p \in Publications

LEMMA AskLease ==
  ASSUME LeaseInv, NEW p \in Commands, NEW from, NEW to, Asks(p, from, to), Ask(p, from, to)
  PROVE  LeaseInv'
<1>1. /\ pc[p] = from /\ pc' = [pc EXCEPT ![p] = to]
      /\ queue' = Append(queue, p) /\ UNCHANGED <<leases, writer>>
  BY DEF Ask, Go
<1>2. /\ queue' \in Seq(Commands) /\ Len(queue') = Len(queue) + 1 /\ Len(queue) \in Nat
      /\ queue'[Len(queue) + 1] = p
      /\ \A i \in 1..Len(queue) : queue'[i] = queue[i] /\ queue[i] \in Commands
  BY <1>1 DEF LeaseInv, Queued
<1>3. \A i \in 1..Len(queue) : queue[i] # p
  BY <1>1 DEF LeaseInv, Queued, Asks
<1>4. Queued'
  <2>1. pc'[p] = "waiting" \/ (pc'[p] = "asking" /\ p \in Publications)
    BY <1>1 DEF LeaseInv, Asks
  <2>2. \A i \in 1..Len(queue) : pc'[queue[i]] = pc[queue[i]]
    BY <1>1, <1>2, <1>3 DEF LeaseInv
  <2>3. \A i, j \in 1..Len(queue') : queue'[i] = queue'[j] => i = j
    BY <1>2, <1>3 DEF LeaseInv, Queued
  <2> QED
    BY <1>2, <2>1, <2>2, <2>3 DEF LeaseInv, Queued
<1>5. \A q \in Commands : (pc'[q] \in Inside <=> pc[q] \in Inside) /\ Reads(pc'[q]) = Reads(pc[q])
  BY <1>1 DEF LeaseInv, Asks, Inside, Labels, Reads
<1>6. pc' \in [Commands \cup Renewals -> Labels]
  BY <1>1 DEF LeaseInv, Asks, Labels
<1> QED
  BY <1>1, <1>4, <1>5, <1>6 DEF LeaseInv, Readers, Commands

LEMMA CallLease ==
  ASSUME LeaseInv, NEW p \in Commands, Call(p)
  PROVE  LeaseInv'
  BY AskLease DEF Call, Asks

\* What a grant does, to a reader and to a sign-out.
LEMMA Granted ==
  ASSUME LeaseInv, Grant
  PROVE  \E p \in Commands :
           /\ queue # <<>> /\ p = queue[1] /\ queue' = Tail(queue) /\ writer = None
           /\ \/ pc[p] = "waiting" /\ pc' = [pc EXCEPT ![p] = "admitted"]
              \/ pc[p] = "asking" /\ pc' = [pc EXCEPT ![p] = "readmitted"] /\ p \in Publications
           /\ IF p \in SignOuts
              THEN writer' = p /\ leases' = leases /\ \A q \in Readers : pc[q] \notin Inside
              ELSE writer' = None /\ leases' = [leases EXCEPT ![p] = leases[p] + 1]
<1> DEFINE p == Head(queue)
<1>1. queue # <<>> /\ queue \in Seq(Commands)
  BY DEF Grant, LeaseInv, Queued
<1>2. p = queue[1] /\ 1 \in 1..Len(queue) /\ p \in Commands
  BY <1>1
<1>3. pc[p] = "waiting" \/ (pc[p] = "asking" /\ p \in Publications)
  BY <1>2 DEF LeaseInv, Queued
<1>4. Free => writer = None /\ \A q \in Readers : pc[q] \notin Inside
  BY DEF Free, LeaseInv, Readers, Reads
<1> QED
  BY <1>2, <1>3, <1>4 DEF Grant, Go

LEMMA GrantLease ==
  ASSUME LeaseInv, Grant
  PROVE  LeaseInv'
<1>1. PICK p \in Commands :
        /\ queue # <<>> /\ p = queue[1] /\ queue' = Tail(queue) /\ writer = None
        /\ \/ pc[p] = "waiting" /\ pc' = [pc EXCEPT ![p] = "admitted"]
           \/ pc[p] = "asking" /\ pc' = [pc EXCEPT ![p] = "readmitted"] /\ p \in Publications
        /\ IF p \in SignOuts
           THEN writer' = p /\ leases' = leases /\ \A q \in Readers : pc[q] \notin Inside
           ELSE writer' = None /\ leases' = [leases EXCEPT ![p] = leases[p] + 1]
  BY Granted
<1>2. PICK l \in {"admitted", "readmitted"} :
        pc' = [pc EXCEPT ![p] = l] /\ Reads(l) = Reads(pc[p]) + 1
        /\ (pc[p] \in Inside => p \in Publications)
  BY <1>1 DEF Reads, Inside, Labels
<1>3. /\ \A q \in Commands \ {p} : pc'[q] = pc[q]
      /\ pc'[p] = l /\ l \in Inside /\ l \in Labels
      /\ pc' \in [Commands \cup Renewals -> Labels]
  BY <1>2 DEF LeaseInv, Inside, Labels, Commands
<1>4. Queued'
  <2>1. queue \in Seq(Commands)
    BY DEF LeaseInv, Queued
  <2>2. /\ Len(queue') = Len(queue) - 1 /\ Len(queue) \in Nat /\ queue' \in Seq(Commands)
        /\ \A i \in 1..Len(queue') : queue'[i] = queue[i + 1] /\ i + 1 \in 1..Len(queue) /\ i + 1 # 1
        /\ 1 \in 1..Len(queue)
    BY <1>1, <2>1
  <2>3. \A i \in 1..Len(queue') : queue'[i] \in Commands \ {p}
    BY <1>1, <2>1, <2>2 DEF LeaseInv, Queued
  <2>4. \A i \in 1..Len(queue') :
           pc'[queue'[i]] = "waiting" \/ (pc'[queue'[i]] = "asking" /\ queue'[i] \in Publications)
    BY <1>3, <2>2, <2>3 DEF LeaseInv, Queued
  <2>5. \A i, j \in 1..Len(queue') : queue'[i] = queue'[j] => i = j
    BY <2>2, SMTT(30) DEF LeaseInv, Queued
  <2> QED
    BY <2>2, <2>4, <2>5 DEF Queued
<1>5. leases' = [q \in Commands |-> IF q \in Readers THEN Reads(pc'[q]) ELSE 0]
  <2>1. CASE p \in SignOuts
    BY <1>1, <1>3, <2>1 DEF LeaseInv, Readers
  <2>2. CASE p \notin SignOuts
    <3>1. leases[p] = Reads(pc[p]) /\ p \in Readers
      BY <2>2 DEF LeaseInv, Readers
    <3> QED
      BY <1>1, <1>2, <1>3, <2>2, <3>1 DEF LeaseInv
  <2> QED
    BY <2>1, <2>2
<1>6. /\ writer' \in SignOuts \cup {None}
      /\ writer' # None => \A q \in Readers : pc'[q] \notin Inside
      /\ \A s \in SignOuts : pc'[s] \in Inside => writer' = s
      /\ writer' # None => pc'[writer'] \in Inside
  <2>1. \A s \in SignOuts : pc[s] \notin Inside /\ s # None
    BY <1>1, KindsDistinct DEF LeaseInv, None
  <2>2. CASE p \in SignOuts
    BY <1>1, <1>3, <2>1, <2>2 DEF Readers, Commands
  <2>3. CASE p \notin SignOuts
    BY <1>1, <1>3, <2>1, <2>3 DEF Commands
  <2> QED
    BY <2>2, <2>3
<1> QED
  BY <1>3, <1>4, <1>5, <1>6 DEF LeaseInv

-----------------------------------------------------------------------------
(* Every step is a command that asks, is granted, goes on inside or        *)
(* returns, or a renewal; nothing else touches the lease.                  *)

LEMMA ConnectMoved ==
  ASSUME NEW c \in Connects, ConnectMoves(c)
  PROVE  Moved(c)
<1> USE DEF Moved, GoesOn, Going, Inside, Labels
<1>1. CASE Prepare(c)
  BY <1>1 DEF Prepare
<1>2. CASE Gate(c) \/ Lookup(c) \/ Reuse(c)
  BY <1>2 DEF Gate, Lookup, Reuse
<1>3. CASE Permit(c)
  BY <1>3 DEF Permit
<1>4. CASE BootFails(c) \/ Boots(c)
  BY <1>4 DEF BootFails, Boots
<1>5. CASE Reinsert(c) \/ InsertNew(c) \/ MapHandle(c)
  BY <1>5 DEF Reinsert, InsertNew, MapHandle
<1>6. CASE SelectSuperseded(c) \/ RetireSuperseded(c)
  BY <1>6 DEF SelectSuperseded, RetireSuperseded
<1> QED
  BY <1>1, <1>2, <1>3, <1>4, <1>5, <1>6 DEF ConnectMoves

LEMMA OpenMoved ==
  ASSUME NEW o \in Opens, OpenMoves(o)
  PROVE  Moved(o)
  BY DEF OpenMoves, Resolve, NewSession, Bind, Moved, GoesOn, Going, Inside, Labels

LEMMA SignOutMoved ==
  ASSUME NEW s \in SignOuts, SignOutMoves(s)
  PROVE  Moved(s)
  BY DEF SignOutMoves, SignOutLock, SignOutFails, SignOutClears, SignOutDisconnects,
         Moved, GoesOn, Going, Inside, Labels

LEMMA RenewalMoves ==
  ASSUME NEW n \in Renewals, CommitMoves(n) \/ Observe(n)
  PROVE  RenewalMoved
  BY DEF CommitMoves, Observe, ReadSession, Compare, CommitFails, Commit, RenewalMoved, Labels

LEMMA MovedLease ==
  ASSUME LeaseInv, NEW p \in Commands, Moved(p)
  PROVE  LeaseInv'
  BY GoesOnLease, ReturnLease DEF Moved, Going

Freed(p) == [k \in Keys |-> IF gate[k] = p THEN None ELSE gate[k]]

\* A publication is a reader: it asks, goes and returns, and leaves the account
\* and what belongs to it alone.
LEMMA PublishAside ==
  ASSUME LeaseInv, NEW u \in Publications, PublishMoves(u)
  PROVE  /\ u \in Commands /\ u \in Readers /\ u \notin Connects \cup Opens \cup Renewals
         /\ UNCHANGED <<identity, seen, workers, sessions, key, circuit, writer>>
         /\ gate' = gate \/ gate' = Freed(u)
         /\ \E l : pc' = [pc EXCEPT ![u] = l]
         /\ \A q \in (Commands \cup Renewals) \ {u} : pc'[q] = pc[q]
<1>1. u \in Commands /\ u \in Readers /\ u \notin Connects \cup Opens \cup Renewals
  BY KindsDistinct DEF Commands, Readers
<1>2. CASE Return(u) /\ PublishMoves(u)
  <2>1. pc[u] \in Inside /\ UNCHANGED <<identity, seen, workers, sessions, key, circuit>>
    BY <1>2 DEF PublishMoves, PublishEnds, PublishUnprepared, Quarantine, Ask, Go, Inside, Labels,
                registry
  <2>2. writer = None
    BY <1>1, <2>1 DEF LeaseInv
  <2>3. pc' = [pc EXCEPT ![u] = "done"] /\ gate' = Freed(u) /\ writer' = writer
    BY <1>2, <2>2 DEF Return, Go, Freed
  <2> QED
    BY <1>1, <2>1, <2>3 DEF LeaseInv
<1>3. CASE PublishUnprepared(u)
  BY <1>1, <1>3 DEF PublishUnprepared, Ask, Go, LeaseInv, registry
<1> QED
  BY <1>2, <1>3 DEF PublishMoves, PublishEnds, Quarantine

LEMMA PublishLease ==
  ASSUME LeaseInv, NEW u \in Publications, PublishMoves(u)
  PROVE  LeaseInv'
<1>1. u \in Commands
  BY DEF Commands
<1>2. CASE PublishEnds(u) \/ Quarantine(u)
  BY <1>1, <1>2, ReturnLease DEF PublishEnds, Quarantine, Inside, Labels
<1>3. CASE PublishUnprepared(u)
  BY <1>1, <1>3, AskLease DEF PublishUnprepared, Asks
<1> QED
  BY <1>2, <1>3 DEF PublishMoves

LEMMA LeaseStep == LeaseInv /\ [NextWithPublications]_vars => LeaseInv'
<1> SUFFICES ASSUME LeaseInv, [NextWithPublications]_vars PROVE LeaseInv'
  OBVIOUS
<1>1. CASE UNCHANGED <<pc, lock>>
  BY <1>1 DEF LeaseInv, Queued, lock
<1>2. ASSUME NEW k \in Keys, Cool(k) PROVE UNCHANGED <<pc, lock>>
  BY <1>2 DEF Cool
<1>3. CASE Moves
  BY <1>3, GrantLease, ConnectMoved, OpenMoved, SignOutMoved, RenewalMoves, MovedLease,
     RenewalLease DEF Moves, Commands
<1>4. CASE UNCHANGED vars
  BY <1>1, <1>4 DEF vars
<1> QED
  BY <1>1, <1>2, <1>3, <1>4, CallLease, RenewalMoves, RenewalLease, PublishLease
  DEF NextWithPublications, Next

-----------------------------------------------------------------------------
(* What belongs to which sign-in.  While a command is inside no sign-out   *)
(* is, so what it read of the account stays so.  Between the clearing of   *)
(* the account and the end of the sign-out the old workers are still there.*)

SeenOK == seen \in [Commands \cup Renewals -> [epoch : Nat, generation : Nat, retained : Nat]]
ReadCurrent == \A p \in Connects \cup Opens :
                 pc[p] \in Bound => account = "in" /\ seen[p].epoch = epoch
Clearing == writer # None /\ pc[writer] = "cleared"
WorkersCurrent == ~Clearing => \A w \in workers : account = "in" /\ w.epoch = epoch
SessionsCurrent == \A b \in sessions : account = "in" /\ b[2] = epoch
EpochInv == /\ SeenOK /\ epoch \in Nat /\ generation \in Nat /\ retained \in Nat
            /\ ReadCurrent /\ WorkersCurrent /\ SessionsCurrent

\* A step of a reader: it adds workers and sessions of the present sign-in only.
ReaderStep(p) ==
    /\ account' = account /\ epoch' = epoch /\ generation' = generation /\ retained' = retained
    /\ \A q \in (Connects \cup Opens) \ {p} : pc'[q] = pc[q] /\ seen'[q] = seen[q]
    /\ pc'[p] \in Bound => account = "in" /\ seen'[p].epoch = epoch
    /\ \A w \in workers' : w \in workers \/ (account = "in" /\ w.epoch = epoch)
    /\ \A b \in sessions' : b \in sessions \/ (account = "in" /\ b[2] = epoch)

LEMMA ReaderAlone ==
  ASSUME LeaseInv, NEW p \in Connects \cup Opens, pc[p] \in Inside
  PROVE  writer = None /\ pc[p] \in Labels /\ p \in Commands \cup Renewals
<1>1. p \in Readers /\ p \in Commands
  BY KindsDistinct DEF Readers, Commands
<1> QED
  BY <1>1 DEF LeaseInv, Inside

LEMMA OthersStay ==
  ASSUME LeaseInv, NEW p \in Connects \cup Opens, Moved(p)
  PROVE  /\ \A q \in (Connects \cup Opens) \ {p} : pc'[q] = pc[q]
         /\ pc'[p] \in Inside \/ pc'[p] = "done"
<1>1. /\ Connects \cup Opens \subseteq Commands \cup Renewals
      /\ pc \in [Commands \cup Renewals -> Labels]
  BY DEF LeaseInv, Commands
<1>2. \E l \in Inside \cup {"done"} : pc' = [pc EXCEPT ![p] = l]
  BY DEF Moved, GoesOn, Going, Return, Go
<1> QED
  BY <1>1, <1>2

LEMMA SeenEpoch ==
  ASSUME EpochInv, NEW p \in Connects \cup Opens, seen' = [seen EXCEPT ![p].epoch = epoch]
  PROVE  /\ SeenOK' /\ seen'[p].epoch = epoch
         /\ \A q \in (Connects \cup Opens) \ {p} : seen'[q] = seen[q]
<1>1. Connects \cup Opens \subseteq Commands \cup Renewals /\ SeenOK /\ epoch \in Nat
  BY DEF Commands, EpochInv
<1>2. [seen[p] EXCEPT !.epoch = epoch] \in [epoch : Nat, generation : Nat, retained : Nat]
  BY <1>1 DEF SeenOK
<1>3. seen' = [seen EXCEPT ![p] = [seen[p] EXCEPT !.epoch = epoch]]
  OBVIOUS
<1>4. [seen[p] EXCEPT !.epoch = epoch].epoch = epoch
  BY <1>1 DEF SeenOK
<1> QED
  BY <1>1, <1>2, <1>3, <1>4 DEF SeenOK

\* A step that has read the account and does not change it.
LEMMA BoundStep ==
  ASSUME LeaseInv, EpochInv, NEW p \in Connects \cup Opens, Moved(p), pc[p] \in Bound,
         UNCHANGED <<identity, seen>>,
         \A w \in workers' : w \in workers \/ w.epoch = seen[p].epoch,
         \A b \in sessions' : b \in sessions \/ b[2] = seen[p].epoch
  PROVE  ReaderStep(p)
<1>1. account = "in" /\ seen[p].epoch = epoch
  BY DEF EpochInv, ReadCurrent
<1> QED
  BY <1>1, OthersStay DEF ReaderStep, identity

\* The step that reads it.
LEMMA ReadingStep ==
  ASSUME LeaseInv, EpochInv, NEW p \in Connects \cup Opens, Moved(p),
         UNCHANGED <<identity, workers, sessions>>, seen' = [seen EXCEPT ![p].epoch = epoch],
         account = "in" \/ Return(p)
  PROVE  ReaderStep(p)
<1>1. Return(p) => pc'[p] \notin Bound
  BY DEF LeaseInv, Return, Go, Bound, Inside, Commands
<1> QED
  BY <1>1, OthersStay, SeenEpoch DEF ReaderStep, identity

LEMMA OpenReads ==
  ASSUME LeaseInv, EpochInv, NEW o \in Opens, OpenMoves(o)
  PROVE  ReaderStep(o)
<1>1. CASE Resolve(o)
  BY <1>1, OpenMoved, ReadingStep DEF Resolve
<1>2. CASE NewSession(o)
  BY <1>2, OpenMoved, BoundStep DEF NewSession, Bound, Inside, Labels
<1>3. CASE Bind(o)
  BY <1>3, OpenMoved, BoundStep DEF Bind, Bound, Inside, Labels
<1> QED
  BY <1>1, <1>2, <1>3 DEF OpenMoves

LEMMA ConnectReads ==
  ASSUME LeaseInv, EpochInv, NEW c \in Connects, ConnectMoves(c)
  PROVE  ReaderStep(c)
<1>1. CASE Prepare(c)
  BY <1>1, ConnectMoved, ReadingStep DEF Prepare
<1>2. CASE Gate(c) \/ Lookup(c) \/ Reuse(c) \/ Permit(c)
  BY <1>2, ConnectMoved, BoundStep DEF Gate, Lookup, Reuse, Permit, Bound, Inside, Labels
<1>3. CASE BootFails(c) \/ Boots(c) \/ MapHandle(c) \/ SelectSuperseded(c)
  BY <1>3, ConnectMoved, BoundStep
  DEF BootFails, Boots, MapHandle, SelectSuperseded, Bound, Inside, Labels
<1>4. CASE Reinsert(c) \/ InsertNew(c)
  BY <1>4, ConnectMoved, BoundStep
  DEF Reinsert, InsertNew, Insert, Runtime, Bound, Inside, Labels
<1>5. CASE RetireSuperseded(c)
  BY <1>5, ConnectMoved, BoundStep DEF RetireSuperseded, Bound, Inside, Labels
<1> QED
  BY <1>1, <1>2, <1>3, <1>4, <1>5 DEF ConnectMoves

LEMMA EpochInit == Init => EpochInv
  BY DEF Init, EpochInv, SeenOK, ReadCurrent, WorkersCurrent, SessionsCurrent, Clearing, Bound,
         Inside, Labels, Commands

\* The step of a reader keeps what belongs to the present sign-in.
LEMMA ReaderEpoch ==
  ASSUME LeaseInv, EpochInv, NEW p \in Connects \cup Opens, pc[p] \in Inside, ReaderStep(p), SeenOK'
  PROVE  EpochInv'
<1>1. ~Clearing
  BY ReaderAlone DEF Clearing
<1>2. ReadCurrent'
  BY DEF ReaderStep, EpochInv, ReadCurrent
<1>3. WorkersCurrent' /\ SessionsCurrent'
  BY <1>1 DEF ReaderStep, EpochInv, WorkersCurrent, SessionsCurrent
<1> QED
  BY <1>2, <1>3 DEF EpochInv, ReaderStep

LEMMA ReaderSeen ==
  ASSUME EpochInv, NEW p \in Connects \cup Opens, ConnectMoves(p) \/ OpenMoves(p)
  PROVE  SeenOK'
<1>1. seen' = seen \/ seen' = [seen EXCEPT ![p].epoch = epoch]
  BY DEF ConnectMoves, Prepare, Gate, Lookup, Reuse, Permit, BootFails, Boots, Reinsert,
         InsertNew, MapHandle, SelectSuperseded, RetireSuperseded, OpenMoves, Resolve,
         NewSession, Bind
<1> QED
  BY <1>1, SeenEpoch DEF EpochInv, SeenOK

\* A step that leaves the account, the readers and what they hold alone.
LEMMA AsideEpoch ==
  ASSUME EpochInv, UNCHANGED <<account, epoch, workers, sessions>>, SeenOK',
         generation' \in Nat, retained' \in Nat, Clearing' <=> Clearing,
         \A p \in Connects \cup Opens :
            pc'[p] \in Bound => pc[p] \in Bound /\ seen'[p].epoch = seen[p].epoch
  PROVE  EpochInv'
  BY DEF EpochInv, ReadCurrent, WorkersCurrent, SessionsCurrent

LEMMA GrantEpoch ==
  ASSUME LeaseInv, EpochInv, Grant
  PROVE  EpochInv'
<1>1. PICK p \in Commands :
        /\ writer = None /\ (writer' = p \/ writer' = None)
        /\ \/ pc' = [pc EXCEPT ![p] = "admitted"]
           \/ pc' = [pc EXCEPT ![p] = "readmitted"] /\ p \in Publications
  BY Granted
<1>2. /\ \A q \in Commands \ {p} : pc'[q] = pc[q]
      /\ pc'[p] = "admitted" \/ (pc'[p] = "readmitted" /\ p \notin Connects \cup Opens)
  BY <1>1, KindsDistinct DEF LeaseInv, Commands
<1>3. UNCHANGED <<account, epoch, generation, retained, seen, workers, sessions>>
  BY DEF Grant, identity, registry
<1>4. ~Clearing /\ ~Clearing'
  BY <1>1, <1>2 DEF Clearing
<1>5. \A q \in Connects \cup Opens : pc'[q] \in Bound => pc[q] \in Bound
  BY <1>2 DEF Bound, Commands
<1> QED
  BY <1>3, <1>4, <1>5, AsideEpoch DEF EpochInv, SeenOK

LEMMA CallEpoch ==
  ASSUME LeaseInv, EpochInv, NEW p \in Commands, Call(p)
  PROVE  EpochInv'
<1>1. pc[p] = "idle" /\ pc' = [pc EXCEPT ![p] = "waiting"]
  BY DEF Call, Ask, Go
<1>2. UNCHANGED <<account, epoch, generation, retained, seen, workers, sessions, writer>>
  BY DEF Call, Ask, identity, registry
<1>3. \A q \in Connects \cup Opens : pc'[q] \in Bound => pc[q] \in Bound
  BY <1>1 DEF LeaseInv, Bound, Inside, Commands
<1>4. Clearing' <=> Clearing
  BY <1>1, <1>2 DEF LeaseInv, Clearing, Inside, Commands
<1> QED
  BY <1>2, <1>3, <1>4, AsideEpoch DEF EpochInv, SeenOK

\* A sign-out: the account goes with its sessions, then its workers.
LEMMA SignOutEpoch ==
  ASSUME LeaseInv, EpochInv, NEW s \in SignOuts, SignOutMoves(s)
  PROVE  EpochInv'
<1>1. writer = s /\ s # None
  BY SignOutMoved, KindsDistinct DEF LeaseInv, Moved, Going, None
<1>2. \A q \in Connects \cup Opens : pc'[q] \notin Bound
  <2>1. \A q \in Connects \cup Opens : pc[q] \notin Inside /\ q # s /\ q \in Commands
    BY <1>1, KindsDistinct DEF LeaseInv, Readers, Commands
  <2>2. \E l : pc' = [pc EXCEPT ![s] = l]
    BY SignOutMoved DEF Moved, GoesOn, Return, Go
  <2> QED
    BY <2>1, <2>2 DEF LeaseInv, Bound
<1>3. UNCHANGED <<epoch, seen>> /\ generation' \in Nat /\ retained' \in Nat
  BY DEF SignOutMoves, SignOutLock, SignOutFails, SignOutClears, SignOutDisconnects, identity,
         EpochInv
<1>4. /\ pc' \in [Commands \cup Renewals -> Labels] /\ s \in Commands \cup Renewals
      /\ pc \in [Commands \cup Renewals -> Labels]
  BY LeaseStep, SignOutMoved, MovedLease DEF LeaseInv, Commands
<1>5. WorkersCurrent' /\ SessionsCurrent'
  <2>1. CASE SignOutLock(s)
    BY <1>1, <1>4, <2>1 DEF SignOutLock, lock, registry, EpochInv, WorkersCurrent, SessionsCurrent,
                      Clearing, Go
  <2>2. CASE SignOutFails(s)
    BY <1>1, <2>2 DEF SignOutFails, EpochInv, WorkersCurrent, SessionsCurrent, Clearing
  <2>3. CASE SignOutClears(s) /\ account = "in"
    <3>1. writer' = s /\ pc'[s] = "cleared" /\ sessions' = {}
      BY <1>1, <1>4, <2>3 DEF SignOutClears, Go, lock
    <3> QED
      BY <1>1, <3>1 DEF WorkersCurrent, SessionsCurrent, Clearing
  <2>4. CASE SignOutClears(s) /\ account # "in"
    <3>1. workers = {} /\ sessions = {}
      BY <1>1, <2>4 DEF SignOutClears, EpochInv, WorkersCurrent, SessionsCurrent, Clearing
    <3> QED
      BY <2>4, <3>1 DEF SignOutClears, WorkersCurrent, SessionsCurrent
  <2>5. CASE SignOutDisconnects(s)
    BY <2>5 DEF SignOutDisconnects, identity, EpochInv, WorkersCurrent, SessionsCurrent
  <2> QED
    BY <2>1, <2>2, <2>3, <2>4, <2>5 DEF SignOutMoves
<1> QED
  BY <1>2, <1>3, <1>5 DEF EpochInv, ReadCurrent, SeenOK

\* A renewal moves beside everything else: it can sign in only where nobody is.
LEMMA RenewalEpoch ==
  ASSUME LeaseInv, EpochInv, NEW n \in Renewals, CommitMoves(n) \/ Observe(n)
  PROVE  EpochInv'
<1>1. UNCHANGED <<workers, sessions, writer>>
  BY DEF CommitMoves, Observe, ReadSession, Compare, CommitFails, Commit, lock, registry
<1>2. \A p \in Commands : pc'[p] = pc[p]
  <2>1. \A p \in Commands : p # n
    BY KindsDistinct DEF Commands
  <2>2. \E l : pc' = [pc EXCEPT ![n] = l]
    BY DEF CommitMoves, Observe, ReadSession, Compare, CommitFails, Commit, Go
  <2> QED
    BY <2>1, <2>2 DEF LeaseInv
<1>3. /\ SeenOK' /\ generation' \in Nat /\ retained' \in Nat
      /\ \A p \in Connects \cup Opens : seen'[p] = seen[p]
  <2>1. \A p \in Connects \cup Opens : p # n /\ p \in Commands \cup Renewals
    BY KindsDistinct DEF Commands
  <2>2. /\ seen' = seen \/ seen' = [seen EXCEPT ![n].generation = generation]
                        \/ seen' = [seen EXCEPT ![n].retained = retained]
        /\ generation' \in {generation, generation + 1} /\ retained' \in {retained, generation + 1}
    BY DEF CommitMoves, Observe, ReadSession, Compare, CommitFails, Commit, identity
  <2>3. /\ [seen[n] EXCEPT !.generation = generation] \in [epoch : Nat, generation : Nat, retained : Nat]
        /\ [seen[n] EXCEPT !.retained = retained] \in [epoch : Nat, generation : Nat, retained : Nat]
    BY DEF EpochInv, SeenOK
  <2>4. SeenOK' /\ \A p \in Connects \cup Opens : seen'[p] = seen[p]
    BY <2>1, <2>2, <2>3 DEF EpochInv, SeenOK
  <2> QED
    BY <2>2, <2>4 DEF EpochInv
<1>4. Clearing' <=> Clearing
  BY <1>1, <1>2 DEF Clearing, LeaseInv, Commands
<1>5. CASE UNCHANGED <<account, epoch>>
  BY <1>1, <1>2, <1>3, <1>4, <1>5, AsideEpoch DEF Commands
<1>6. CASE Commit(n) /\ account = "in"
  BY <1>5, <1>6 DEF Commit
<1>7. CASE Commit(n) /\ account # "in"
  <2>1. account' = "in" /\ epoch' = epoch + 1
    BY <1>7 DEF Commit
  <2>2. \A p \in Connects \cup Opens : pc'[p] \notin Bound
    BY <1>2, <1>7 DEF EpochInv, ReadCurrent, Commands
  <2>3. sessions = {} /\ (~Clearing => workers = {})
    BY <1>7 DEF EpochInv, WorkersCurrent, SessionsCurrent
  <2> QED
    BY <1>1, <1>3, <1>4, <2>1, <2>2, <2>3
    DEF EpochInv, ReadCurrent, WorkersCurrent, SessionsCurrent
<1>8. Commit(n) \/ UNCHANGED <<account, epoch>>
  BY DEF CommitMoves, Observe, ReadSession, Compare, CommitFails, identity
<1> QED
  BY <1>5, <1>6, <1>7, <1>8

LEMMA PublishEpoch ==
  ASSUME LeaseInv, EpochInv, NEW u \in Publications, PublishMoves(u)
  PROVE  EpochInv'
<1>1. /\ UNCHANGED <<identity, seen, workers, sessions, writer>>
      /\ \A q \in (Commands \cup Renewals) \ {u} : pc'[q] = pc[q]
      /\ u \in Readers /\ u \notin Connects \cup Opens
  BY PublishAside
<1>2. \A q \in Connects \cup Opens : pc'[q] = pc[q]
  BY <1>1 DEF Commands
<1>3. Clearing' <=> Clearing
  BY <1>1 DEF LeaseInv, Clearing, Readers, Commands
<1> QED
  BY <1>1, <1>2, <1>3, AsideEpoch DEF identity, EpochInv, SeenOK

LEMMA EpochStep == LeaseInv /\ EpochInv /\ [NextWithPublications]_vars => EpochInv'
<1> SUFFICES ASSUME LeaseInv, EpochInv, [NextWithPublications]_vars PROVE EpochInv'
  OBVIOUS
<1>1. ASSUME NEW c \in Connects, ConnectMoves(c) PROVE EpochInv'
  BY <1>1, ConnectMoved, ConnectReads, ReaderSeen, ReaderEpoch DEF Moved, Going
<1>2. ASSUME NEW o \in Opens, OpenMoves(o) PROVE EpochInv'
  BY <1>2, OpenMoved, OpenReads, ReaderSeen, ReaderEpoch DEF Moved, Going
<1>3. CASE Moves
  BY <1>1, <1>2, <1>3, GrantEpoch, SignOutEpoch, RenewalEpoch DEF Moves
<1>4. CASE UNCHANGED <<pc, lock, identity, seen, workers, sessions>>
  BY <1>4, AsideEpoch DEF lock, identity, Clearing, EpochInv, SeenOK
<1>5. ASSUME NEW k \in Keys, Cool(k) PROVE EpochInv'
  BY <1>4, <1>5 DEF Cool
<1>6. CASE UNCHANGED vars
  BY <1>4, <1>6 DEF vars, registry
<1> QED
  BY <1>3, <1>5, <1>6, CallEpoch, RenewalEpoch, PublishEpoch DEF NextWithPublications, Next

LEMMA WithoutPublications == [Next]_vars => [NextWithPublications]_vars
  BY DEF NextWithPublications

LEMMA EpochSafe == EpochInv => SignedOutGone
  BY DEF EpochInv, WorkersCurrent, SessionsCurrent, Clearing, SignedOutGone

\* For every set of commands and configurations, and any number of workers:
\* when no sign-out is under way, every registered worker and every bound
\* session belongs to the account that is signed in now (disconnect_account
\* against remote_worker_connect and session_open).
THEOREM NothingOutlivesSignOut == Spec => []SignedOutGone
<1>1. Init => LeaseInv /\ EpochInv
  BY LeaseInit, EpochInit
<1>2. LeaseInv /\ EpochInv /\ [Next]_vars => (LeaseInv /\ EpochInv)'
  BY LeaseStep, EpochStep, WithoutPublications
<1>3. EpochInv => SignedOutGone
  BY EpochSafe
<1> QED
  BY <1>1, <1>2, <1>3, PTL DEF Spec

-----------------------------------------------------------------------------
(* The circuit.  Between the permit and the failure it is charged with a   *)
(* caller awaits for long, so the bound rests on the gate: whoever starts  *)
(* a worker is alone with its configuration, and its circuit is closed.    *)

Trying == {"replacing", "starting"}
CircuitStates == [failures : Nat, state : {"closed", "open", "cooled"}]
GateTypes == gate \in [Keys -> Connects \cup {None}] /\ key \in [Connects -> Keys]
GateHeld == \A c \in Connects : pc[c] \in Gated => gate[key[c]] = c
CircuitOK == /\ circuit \in [Keys -> CircuitStates]
             /\ \A k \in Keys : circuit[k].failures <= Threshold
             /\ \A k \in Keys : circuit[k].state = "closed" => circuit[k].failures < Threshold
TriedClosed == \A c \in Connects : pc[c] \in Trying => circuit[key[c]].state = "closed"
GateInv == GateTypes /\ GateHeld
CircuitInv == CircuitOK /\ TriedClosed

LEMMA GateInit == Init => GateInv /\ CircuitInv
<1> SUFFICES ASSUME Init PROVE GateInv /\ CircuitInv
  OBVIOUS
<1>1. /\ \A c \in Connects : pc[c] = "idle"
      /\ \A k \in Keys : circuit[k] = [failures |-> 0, state |-> "closed"]
      /\ circuit \in [Keys -> CircuitStates]
  BY DEF Init, CircuitStates, Commands
<1>2. GateTypes
  BY DEF Init, GateTypes
<1> QED
  BY <1>1, <1>2, RuntimeBounds DEF GateInv, GateHeld, CircuitInv, CircuitOK, TriedClosed, Gated, Trying

\* Two callers with a gate have different configurations.
LEMMA GatesDiffer ==
  ASSUME GateInv, NEW c \in Connects, NEW d \in Connects, pc[c] \in Gated, pc[d] \in Gated, c # d
  PROVE  key[c] # key[d]
  BY DEF GateInv, GateHeld

LEMMA GateKept ==
  ASSUME GateInv, NEW p, key' = key, gate' = gate \/ gate' = Freed(p),
         \A c \in Connects \ {p} : pc'[c] \in Gated => pc[c] \in Gated,
         p \in Connects /\ pc'[p] \in Gated => pc[p] \in Gated /\ gate' = gate
  PROVE  GateInv'
<1>1. GateTypes'
  BY DEF GateInv, GateTypes, Freed
<1>2. \A c \in Connects : key[c] \in Keys
  BY DEF GateInv, GateTypes
<1>3. GateHeld'
  <2> SUFFICES ASSUME NEW c \in Connects, pc'[c] \in Gated PROVE gate'[key[c]] = c
    BY DEF GateHeld
  <2>1. gate[key[c]] = c
    BY DEF GateInv, GateHeld
  <2>2. CASE c = p
    BY <2>1, <2>2
  <2>3. CASE c # p
    BY <1>2, <2>1, <2>3 DEF Freed
  <2> QED
    BY <2>2, <2>3
<1> QED
  BY <1>1, <1>3 DEF GateInv

LEMMA GateTaken ==
  ASSUME LeaseInv, GateInv, NEW c \in Connects, Gate(c)
  PROVE  GateInv'
<1>1. /\ gate[key[c]] = None /\ gate' = [gate EXCEPT ![key[c]] = c] /\ key' = key
      /\ \A d \in Connects \ {c} : pc'[d] = pc[d]
      /\ key[c] \in Keys /\ c # None /\ None \notin Connects
  BY KindsDistinct DEF Gate, Go, LeaseInv, GateInv, GateTypes, Commands, None
<1>2. GateTypes'
  BY <1>1 DEF GateInv, GateTypes
<1>3. GateHeld'
  BY <1>1 DEF GateInv, GateTypes, GateHeld
<1> QED
  BY <1>2, <1>3 DEF GateInv

LEMMA ConnectGate ==
  ASSUME LeaseInv, GateInv, NEW c \in Connects, ConnectMoves(c)
  PROVE  GateInv'
<1>0. c \in Connects \cup Opens /\ c \in Commands
  BY DEF Commands
<1>1. \A d \in Connects \ {c} : pc'[d] = pc[d]
  BY <1>0, ConnectMoved, OthersStay
<1>2. Return(c) => gate' = Freed(c) /\ pc'[c] \notin Gated
  BY <1>0 DEF Return, Freed, Go, LeaseInv, Gated
<1>3. CASE Prepare(c)
  BY <1>1, <1>2, <1>3, <1>0, GateKept DEF Prepare, Gated, Go, LeaseInv
<1>4. CASE Reuse(c) \/ BootFails(c) \/ Reinsert(c) \/ RetireSuperseded(c)
  BY <1>1, <1>2, <1>4, GateKept DEF Reuse, BootFails, Reinsert, RetireSuperseded
<1>5. CASE Permit(c)
  BY <1>1, <1>2, <1>5, GateKept DEF Permit, Gated
<1>6. CASE Lookup(c) \/ Boots(c) \/ InsertNew(c) \/ MapHandle(c) \/ SelectSuperseded(c)
  BY <1>1, <1>6, GateKept DEF Lookup, Boots, InsertNew, MapHandle, SelectSuperseded, Gated
<1> QED
  BY <1>3, <1>4, <1>5, <1>6, GateTaken DEF ConnectMoves

\* What is not a connect keeps no gate.
LEMMA OtherGate ==
  ASSUME LeaseInv, GateInv, NEW p \in Opens \cup SignOuts, OpenMoves(p) \/ SignOutMoves(p)
  PROVE  GateInv'
<1>1. \A c \in Connects : pc'[c] = pc[c]
  <2>1. \A c \in Connects : c # p
    BY KindsDistinct
  <2>2. \E l : pc' = [pc EXCEPT ![p] = l]
    BY DEF OpenMoves, Resolve, NewSession, Bind, SignOutMoves, SignOutLock, SignOutFails,
           SignOutClears, SignOutDisconnects, Return, Go
  <2> QED
    BY <2>1, <2>2 DEF LeaseInv, Commands
<1>2. key' = key /\ (gate' = gate \/ gate' = Freed(p)) /\ p \notin Connects
  BY KindsDistinct
  DEF OpenMoves, Resolve, NewSession, Bind, SignOutMoves, SignOutLock, SignOutFails,
      SignOutClears, SignOutDisconnects, Return, Freed, registry
<1> QED
  BY <1>1, <1>2, GateKept

LEMMA CircuitKept ==
  ASSUME GateInv, CircuitInv, circuit' = circuit, key' = key,
         \A c \in Connects : pc'[c] \in Trying => pc[c] \in Trying
  PROVE  CircuitInv'
  BY DEF CircuitInv, CircuitOK, TriedClosed

\* The circuit of a configuration is written by the caller that has its gate.
LEMMA CircuitWritten ==
  ASSUME GateInv, CircuitInv, NEW c \in Connects, pc[c] \in Gated, key' = key,
         \A d \in Connects \ {c} : pc'[d] = pc[d],
         NEW r \in CircuitStates, circuit' = [circuit EXCEPT ![key[c]] = r],
         r.failures <= Threshold, r.state = "closed" => r.failures < Threshold,
         pc'[c] \in Trying => r.state = "closed"
  PROVE  CircuitInv'
<1>1. /\ key[c] \in Keys /\ circuit'[key[c]] = r
      /\ \A k \in Keys \ {key[c]} : circuit'[k] = circuit[k]
  BY DEF GateInv, GateTypes, CircuitInv, CircuitOK
<1>2. \A d \in Connects \ {c} : pc[d] \in Trying => key[d] # key[c] /\ key[d] \in Keys
  BY GatesDiffer DEF Trying, Gated, GateInv, GateTypes
<1>3. CircuitOK'
  BY <1>1 DEF CircuitInv, CircuitOK
<1>4. TriedClosed'
  BY <1>1, <1>2 DEF CircuitInv, TriedClosed
<1> QED
  BY <1>3, <1>4 DEF CircuitInv

LEMMA ConnectCircuit ==
  ASSUME LeaseInv, GateInv, CircuitInv, NEW c \in Connects, ConnectMoves(c)
  PROVE  CircuitInv'
<1>0. c \in Connects \cup Opens /\ c \in Commands
  BY DEF Commands
<1>1. \A d \in Connects \ {c} : pc'[d] = pc[d]
  BY <1>0, ConnectMoved, OthersStay
<1>2. Return(c) => pc'[c] \notin Trying
  BY <1>0 DEF Return, Go, LeaseInv, Trying
<1>3. key[c] \in Keys /\ circuit[key[c]] \in CircuitStates /\ circuit \in [Keys -> CircuitStates]
  BY DEF GateInv, GateTypes, CircuitInv, CircuitOK
<1>4. [failures |-> 0, state |-> "closed"] \in CircuitStates /\ 0 < Threshold
  BY RuntimeBounds DEF CircuitStates
<1>5. CASE circuit' = circuit /\ key' = key /\ pc'[c] \notin Trying
  BY <1>1, <1>5, CircuitKept
<1>6. CASE Permit(c) /\ circuit[key[c]].state = "open"
  <2>1. Return(c) /\ circuit' = circuit /\ key' = key
    BY <1>6 DEF Permit
  <2> QED
    BY <1>2, <1>5, <2>1
<1>7. CASE Permit(c) /\ circuit[key[c]].state # "open"
  <2>1. key' = key /\ pc[c] \in Gated
    BY <1>7 DEF Permit, Gated
  <2>2. CASE circuit[key[c]].state = "cooled"
    <3>1. circuit' = [circuit EXCEPT ![key[c]] = [failures |-> 0, state |-> "closed"]]
      BY <1>7, <2>2 DEF Permit
    <3>2. PICK r \in CircuitStates : r = [failures |-> 0, state |-> "closed"]
      BY <1>4
    <3>3. r.failures <= Threshold /\ r.failures < Threshold
      BY <1>4, <3>2, RuntimeBounds
    <3> QED
      BY <1>1, <2>1, <3>1, <3>2, <3>3, CircuitWritten
  <2>3. CASE circuit[key[c]].state = "closed"
    <3>1. circuit' = circuit /\ circuit' = [circuit EXCEPT ![key[c]] = circuit[key[c]]]
      BY <1>3, <1>7, <2>3 DEF Permit
    <3> QED
      BY <1>1, <1>3, <2>1, <2>3, <3>1, CircuitWritten DEF CircuitInv, CircuitOK
  <2> QED
    BY <1>3, <1>7, <2>1, <2>2, <2>3 DEF CircuitStates
<1>8. CASE BootFails(c)
  <2> DEFINE n == circuit[key[c]].failures + 1
             r == [failures |-> n, state |-> IF n >= Threshold THEN "open" ELSE circuit[key[c]].state]
  <2>1. pc[c] \in Trying /\ circuit[key[c]].state = "closed" /\ circuit[key[c]].failures < Threshold
    BY <1>3, <1>8 DEF BootFails, Trying, CircuitInv, CircuitOK, TriedClosed
  <2>2. circuit[key[c]].failures \in Nat /\ Threshold \in Nat
    BY <1>3, RuntimeBounds DEF CircuitStates
  <2>3. /\ r \in CircuitStates /\ r.failures <= Threshold
        /\ r.state = "closed" => r.failures < Threshold
    BY <2>1, <2>2 DEF CircuitStates
  <2>4. circuit' = [circuit EXCEPT ![key[c]] = r] /\ key' = key
    BY <1>8 DEF BootFails
  <2>5. pc'[c] \notin Trying /\ pc[c] \in Gated
    BY <1>2, <1>8, <2>1 DEF BootFails, Trying, Gated
  <2> HIDE DEF r
  <2> QED
    BY <1>1, <2>3, <2>4, <2>5, CircuitWritten
<1>9. CASE Boots(c)
  <2>1. /\ circuit' = [circuit EXCEPT ![key[c]] = [failures |-> 0, state |-> "closed"]]
        /\ pc[c] \in Gated /\ key' = key
    BY <1>9 DEF Boots, Gated
  <2>2. PICK r \in CircuitStates : r = [failures |-> 0, state |-> "closed"]
    BY <1>4
  <2>3. r.failures <= Threshold /\ r.failures < Threshold
    BY <1>4, <2>2, RuntimeBounds
  <2> QED
    BY <1>1, <2>1, <2>2, <2>3, CircuitWritten
<1>10. CASE ConnectMoves(c) /\ ~Permit(c) /\ ~BootFails(c) /\ ~Boots(c)
  <2>1. circuit' = circuit /\ key' = key
    <3>1. Prepare(c) \/ Reuse(c) \/ Reinsert(c) \/ RetireSuperseded(c) => circuit' = circuit /\ key' = key
      BY DEF Prepare, Reuse, Reinsert, RetireSuperseded
    <3>2. Gate(c) \/ Lookup(c) \/ InsertNew(c) \/ MapHandle(c) \/ SelectSuperseded(c)
            => circuit' = circuit /\ key' = key
      BY DEF Gate, Lookup, InsertNew, MapHandle, SelectSuperseded
    <3> QED
      BY <1>10, <3>1, <3>2 DEF ConnectMoves
  <2>2. Prepare(c) \/ Reuse(c) \/ Reinsert(c) \/ RetireSuperseded(c) => pc'[c] \notin Trying
    BY <1>0, <1>2 DEF Prepare, Reuse, Reinsert, RetireSuperseded, Go, LeaseInv, Trying
  <2>3. Gate(c) \/ Lookup(c) \/ InsertNew(c) \/ MapHandle(c) \/ SelectSuperseded(c)
          => pc'[c] \notin Trying
    BY <1>0 DEF Gate, Lookup, InsertNew, MapHandle, SelectSuperseded, Go, LeaseInv, Trying
  <2>4. pc'[c] \notin Trying
    BY <1>10, <2>2, <2>3 DEF ConnectMoves
  <2> QED
    BY <1>5, <2>1, <2>4
<1> QED
  BY <1>6, <1>7, <1>8, <1>9, <1>10

LEMMA OtherCircuit ==
  ASSUME LeaseInv, GateInv, CircuitInv, NEW p \in Opens \cup SignOuts, OpenMoves(p) \/ SignOutMoves(p)
  PROVE  CircuitInv'
<1>1. \A c \in Connects : pc'[c] = pc[c]
  <2>1. \A c \in Connects : c # p
    BY KindsDistinct
  <2>2. \E l : pc' = [pc EXCEPT ![p] = l]
    BY DEF OpenMoves, Resolve, NewSession, Bind, SignOutMoves, SignOutLock, SignOutFails,
           SignOutClears, SignOutDisconnects, Return, Go
  <2> QED
    BY <2>1, <2>2 DEF LeaseInv, Commands
<1>2. key' = key
  BY DEF OpenMoves, Resolve, NewSession, Bind, SignOutMoves, SignOutLock, SignOutFails,
         SignOutClears, SignOutDisconnects, registry
<1>3. CASE circuit' = circuit
  BY <1>1, <1>2, <1>3, CircuitKept
<1>4. CASE SignOutDisconnects(p)
  <2>1. /\ circuit' \in [Keys -> CircuitStates]
        /\ \A k \in Keys : circuit'[k] = circuit[k] \/ circuit'[k] = [failures |-> 0, state |-> "closed"]
    BY <1>4 DEF SignOutDisconnects, CircuitInv, CircuitOK, CircuitStates
  <2>2. CircuitOK'
    BY <2>1, RuntimeBounds DEF CircuitInv, CircuitOK
  <2>3. TriedClosed'
    BY <1>1, <1>2, <2>1 DEF CircuitInv, TriedClosed, GateInv, GateTypes
  <2> QED
    BY <2>2, <2>3 DEF CircuitInv
<1> QED
  BY <1>3, <1>4 DEF OpenMoves, Resolve, NewSession, Bind, SignOutMoves, SignOutLock,
                    SignOutFails, SignOutClears, registry

LEMMA CoolCircuit ==
  ASSUME GateInv, CircuitInv, NEW k \in Keys, Cool(k)
  PROVE  GateInv' /\ CircuitInv'
<1>1. /\ circuit[k].state = "open" /\ UNCHANGED <<pc, gate, key>>
      /\ circuit' = [circuit EXCEPT ![k] = [circuit[k] EXCEPT !.state = "cooled"]]
  BY DEF Cool
<1>2. [circuit[k] EXCEPT !.state = "cooled"] \in CircuitStates
      /\ [circuit[k] EXCEPT !.state = "cooled"].state = "cooled"
      /\ [circuit[k] EXCEPT !.state = "cooled"].failures = circuit[k].failures
  BY DEF CircuitInv, CircuitOK, CircuitStates
<1>3. \A c \in Connects : pc[c] \in Trying => key[c] # k /\ key[c] \in Keys
  BY <1>1 DEF CircuitInv, TriedClosed, GateInv, GateTypes
<1>4. CircuitOK' /\ TriedClosed'
  BY <1>1, <1>2, <1>3 DEF CircuitInv, CircuitOK, TriedClosed
<1> QED
  BY <1>1, <1>4 DEF CircuitInv, GateInv, GateTypes, GateHeld

\* A step that moves no connect into or out of a gate.
LEMMA AsideGate ==
  ASSUME GateInv, CircuitInv, UNCHANGED <<gate, key, circuit>>,
         \A c \in Connects : pc'[c] \in Gated => pc[c] = pc'[c]
  PROVE  GateInv' /\ CircuitInv'
  BY DEF GateInv, GateTypes, GateHeld, CircuitInv, CircuitOK, TriedClosed, Gated, Trying

LEMMA PublishCircuit ==
  ASSUME LeaseInv, GateInv, CircuitInv, NEW u \in Publications, PublishMoves(u)
  PROVE  GateInv' /\ CircuitInv'
<1>1. /\ key' = key /\ circuit' = circuit /\ (gate' = gate \/ gate' = Freed(u))
      /\ \A q \in (Commands \cup Renewals) \ {u} : pc'[q] = pc[q]
      /\ u \notin Connects
  BY PublishAside
<1>2. \A c \in Connects : pc'[c] = pc[c]
  BY <1>1 DEF Commands
<1> QED
  BY <1>1, <1>2, GateKept, CircuitKept

LEMMA CircuitStep ==
  LeaseInv /\ GateInv /\ CircuitInv /\ [NextWithPublications]_vars => GateInv' /\ CircuitInv'
<1> SUFFICES ASSUME LeaseInv, GateInv, CircuitInv, [NextWithPublications]_vars
             PROVE  GateInv' /\ CircuitInv'
  OBVIOUS
<1>1. CASE Grant
  <2>1. PICK p \in Commands, l \in {"admitted", "readmitted"} : pc' = [pc EXCEPT ![p] = l]
    BY <1>1, Granted
  <2>2. \A c \in Connects : pc'[c] \in Gated => pc[c] = pc'[c]
    BY <2>1 DEF LeaseInv, Gated, Commands
  <2> QED
    BY <1>1, <2>2, AsideGate DEF Grant, registry
<1>2. ASSUME NEW p \in Commands, Call(p) PROVE GateInv' /\ CircuitInv'
  <2>1. \A c \in Connects : pc'[c] \in Gated => pc[c] = pc'[c]
    BY <1>2 DEF Call, Ask, Go, LeaseInv, Gated, Commands
  <2> QED
    BY <1>2, <2>1, AsideGate DEF Call, Ask, registry
<1>3. ASSUME NEW n \in Renewals, CommitMoves(n) \/ Observe(n) PROVE GateInv' /\ CircuitInv'
  <2>1. \A c \in Connects : c # n
    BY KindsDistinct
  <2>2. \E l : pc' = [pc EXCEPT ![n] = l]
    BY <1>3 DEF CommitMoves, Observe, ReadSession, Compare, CommitFails, Commit, Go
  <2>3. \A c \in Connects : pc'[c] = pc[c]
    BY <2>1, <2>2 DEF LeaseInv, Commands
  <2>4. UNCHANGED <<gate, key, circuit>>
    BY <1>3 DEF CommitMoves, Observe, ReadSession, Compare, CommitFails, Commit, registry
  <2> QED
    BY <2>3, <2>4, AsideGate
<1>4. CASE Moves
  BY <1>1, <1>3, <1>4, ConnectGate, ConnectCircuit, OtherGate, OtherCircuit DEF Moves
<1>5. CASE UNCHANGED vars
  BY <1>5, AsideGate DEF vars, registry
<1> QED
  BY <1>2, <1>3, <1>4, <1>5, CoolCircuit, PublishCircuit DEF NextWithPublications, Next

LEMMA CircuitSafe == CircuitInv => PausedInTime
  BY DEF CircuitInv, CircuitOK, PausedInTime

\* For every set of callers and configurations and every threshold: a
\* configuration is tried no more than Threshold times without a pause
\* (connect_gate and ConnectCircuits).
THEOREM CircuitBounded == Spec => []PausedInTime
<1>1. Init => LeaseInv /\ GateInv /\ CircuitInv
  BY LeaseInit, GateInit
<1>2. LeaseInv /\ GateInv /\ CircuitInv /\ [Next]_vars => (LeaseInv /\ GateInv /\ CircuitInv)'
  BY LeaseStep, CircuitStep, WithoutPublications
<1>3. CircuitInv => PausedInTime
  BY CircuitSafe
<1> QED
  BY <1>1, <1>2, <1>3, PTL DEF Spec

-----------------------------------------------------------------------------
(* The fence of a renewal: a sign-out leaves every renewal that is on its  *)
(* way with a generation that is behind, and only one that is not behind   *)
(* comes to commit.                                                        *)

Underway == {"observed", "renewing"}
NotAhead == \A n \in Renewals : pc[n] \in Underway => seen[n].generation <= generation
OutrunBehind == \A n \in Renewals \cap outrun :
                  /\ pc[n] \in Underway \cup {"done"}
                  /\ pc[n] \in Underway => seen[n].generation < generation
FenceInv == NotAhead /\ OutrunBehind

LEMMA FenceInit == Init => FenceInv
<1> SUFFICES ASSUME Init PROVE FenceInv
  OBVIOUS
<1>1. \A n \in Renewals : pc[n] = "idle"
  BY DEF Init
<1> QED
  BY <1>1 DEF Init, FenceInv, NotAhead, OutrunBehind, Underway

\* A command has no part in the renewals, except that a sign-out overtakes them.
LEMMA CommandAside ==
  ASSUME LeaseInv, NEW p \in Commands, \E l : pc' = [pc EXCEPT ![p] = l]
  PROVE  \A n \in Renewals : pc'[n] = pc[n]
<1>1. \A n \in Renewals : n # p
  BY KindsDistinct DEF Commands
<1> QED
  BY <1>1 DEF LeaseInv

LEMMA FenceAside ==
  ASSUME FenceInv, UNCHANGED <<generation, outrun>>,
         \A n \in Renewals : pc'[n] = pc[n] /\ seen'[n] = seen[n]
  PROVE  FenceInv'
  BY DEF FenceInv, NotAhead, OutrunBehind

LEMMA ReaderFence ==
  ASSUME LeaseInv, EpochInv, FenceInv, NEW p \in Connects \cup Opens,
         ConnectMoves(p) \/ OpenMoves(p), p \in Connects \/ OpenMoves(p)
  PROVE  FenceInv' /\ account' = account
<1>1. p \in Commands /\ p \notin Renewals
  BY KindsDistinct DEF Commands
<1>2. \E l : pc' = [pc EXCEPT ![p] = l]
  <2>1. CASE Prepare(p) \/ Reuse(p) \/ Permit(p) \/ BootFails(p) \/ Reinsert(p) \/ RetireSuperseded(p)
    BY <2>1 DEF Prepare, Reuse, Permit, BootFails, Reinsert, RetireSuperseded, Return, Go
  <2>2. CASE Gate(p) \/ Lookup(p) \/ Boots(p) \/ InsertNew(p) \/ MapHandle(p) \/ SelectSuperseded(p)
    BY <2>2 DEF Gate, Lookup, Boots, InsertNew, MapHandle, SelectSuperseded, Go
  <2>3. CASE OpenMoves(p)
    BY <2>3 DEF OpenMoves, Resolve, NewSession, Bind, Return, Go
  <2> QED
    BY <2>1, <2>2, <2>3 DEF ConnectMoves
<1>3. UNCHANGED identity /\ (seen' = seen \/ seen' = [seen EXCEPT ![p].epoch = epoch])
  <2>1. CASE Prepare(p) \/ Reuse(p) \/ Permit(p) \/ BootFails(p) \/ Reinsert(p) \/ RetireSuperseded(p)
    BY <2>1 DEF Prepare, Reuse, Permit, BootFails, Reinsert, RetireSuperseded
  <2>2. CASE Gate(p) \/ Lookup(p) \/ Boots(p) \/ InsertNew(p) \/ MapHandle(p) \/ SelectSuperseded(p)
    BY <2>2 DEF Gate, Lookup, Boots, InsertNew, MapHandle, SelectSuperseded
  <2>3. CASE OpenMoves(p)
    BY <2>3 DEF OpenMoves, Resolve, NewSession, Bind
  <2> QED
    BY <2>1, <2>2, <2>3 DEF ConnectMoves
<1>4. \A n \in Renewals : seen'[n] = seen[n]
  BY <1>1, <1>3 DEF EpochInv, SeenOK
<1> QED
  BY <1>1, <1>2, <1>3, <1>4, CommandAside, FenceAside DEF identity

\* A sign-out that takes the lock of the account moves the generation on.
LEMMA SignOutFence ==
  ASSUME LeaseInv, EpochInv, FenceInv, NEW s \in SignOuts, SignOutMoves(s)
  PROVE  FenceInv' /\ account' \in {account, "out"}
<1>1. \A n \in Renewals : pc'[n] = pc[n]
  <2>1. \E l : pc' = [pc EXCEPT ![s] = l]
    BY DEF SignOutMoves, SignOutLock, SignOutFails, SignOutClears, SignOutDisconnects, Return, Go
  <2> QED
    BY <2>1, CommandAside DEF Commands
<1>2. seen' = seen /\ account' \in {account, "out"}
  BY DEF SignOutMoves, SignOutLock, SignOutFails, SignOutClears, SignOutDisconnects, identity
<1>3. CASE SignOutLock(s)
  <2>1. /\ generation' = generation + 1 /\ generation \in Nat
        /\ outrun' = outrun \cup {n \in Renewals : pc[n] \in Underway}
    BY <1>3 DEF SignOutLock, EpochInv, Underway
  <2>2. \A n \in Renewals : seen[n].generation \in Nat
    BY DEF EpochInv, SeenOK
  <2>3. NotAhead'
    BY <1>1, <1>2, <2>1, <2>2 DEF FenceInv, NotAhead
  <2>4. OutrunBehind'
    BY <1>1, <1>2, <2>1, <2>2 DEF FenceInv, NotAhead, OutrunBehind
  <2> QED
    BY <1>2, <2>3, <2>4 DEF FenceInv
<1>4. CASE SignOutFails(s) \/ SignOutClears(s) \/ SignOutDisconnects(s)
  <2>1. UNCHANGED <<generation, outrun>>
    BY <1>4 DEF SignOutFails, SignOutClears, SignOutDisconnects, identity
  <2> QED
    BY <1>1, <1>2, <2>1, FenceAside
<1> QED
  BY <1>3, <1>4 DEF SignOutMoves

\* Only a renewal that is not behind signs in.
LEMMA RenewalFence ==
  ASSUME LeaseInv, EpochInv, FenceInv, NEW n \in Renewals, CommitMoves(n) \/ Observe(n)
  PROVE  /\ FenceInv'
         /\ account = "out" /\ account' = "in" => n \notin outrun
         /\ \A m \in Renewals \ {n} : pc'[m] = pc[m]
<1>1. pc \in [Commands \cup Renewals -> Labels] /\ SeenOK /\ generation \in Nat
  BY DEF LeaseInv, EpochInv
<1>2. \A m \in Renewals \ {n} : pc'[m] = pc[m] /\ seen'[m] = seen[m]
  BY <1>1 DEF CommitMoves, Observe, ReadSession, Compare, CommitFails, Commit, Go, SeenOK
<1>3. \A m \in Renewals : seen[m].generation \in Nat
  BY <1>1 DEF SeenOK
<1>4. outrun' = outrun /\ generation' \in {generation, generation + 1}
  BY DEF CommitMoves, Observe, ReadSession, Compare, CommitFails, Commit, identity
<1>5. CASE Observe(n)
  <2>1. pc[n] = "idle" /\ pc'[n] = "observed" /\ seen'[n].generation = generation
        /\ generation' = generation /\ account' = account
    BY <1>1, <1>5 DEF Observe, Go, SeenOK, identity
  <2> QED
    BY <1>1, <1>2, <1>3, <1>4, <2>1 DEF FenceInv, NotAhead, OutrunBehind, Underway
<1>6. CASE ReadSession(n)
  <2>1. /\ pc[n] = "observed" /\ pc'[n] = "renewing" /\ generation' = generation /\ account' = account
        /\ seen'[n].generation = seen[n].generation
    BY <1>1, <1>6 DEF ReadSession, Go, SeenOK, identity
  <2> QED
    BY <1>1, <1>2, <1>3, <1>4, <2>1 DEF FenceInv, NotAhead, OutrunBehind, Underway
<1>7. CASE Compare(n)
  <2>1. /\ pc[n] = "renewing" /\ account' = account /\ seen' = seen
        /\ \/ generation = seen[n].generation /\ pc'[n] = "committing"
           \/ pc'[n] = "done"
    BY <1>1, <1>7 DEF Compare, Current, Go
  <2>2. pc'[n] = "committing" => n \notin outrun
    BY <1>1, <1>3, <2>1 DEF FenceInv, OutrunBehind, Underway
  <2>3. NotAhead'
    BY <1>1, <1>2, <1>3, <1>4, <2>1 DEF FenceInv, NotAhead, Underway
  <2>4. OutrunBehind'
    BY <1>1, <1>2, <1>3, <1>4, <2>1, <2>2 DEF FenceInv, OutrunBehind, Underway
  <2> QED
    BY <1>2, <2>1, <2>3, <2>4 DEF FenceInv
<1>8. CASE CommitFails(n) \/ Commit(n)
  <2>1. pc[n] = "committing" /\ pc'[n] = "done" /\ generation' = generation
    BY <1>1, <1>8 DEF CommitFails, Commit, Go
  <2>2. n \notin outrun
    BY <2>1 DEF FenceInv, OutrunBehind, Underway
  <2> QED
    BY <1>2, <1>4, <2>1, <2>2 DEF FenceInv, NotAhead, OutrunBehind, Underway
<1> QED
  BY <1>5, <1>6, <1>7, <1>8 DEF CommitMoves

SignsIn == account = "out" /\ account' = "in"
Fenced == SignsIn => \A n \in Renewals : pc[n] # pc'[n] => n \notin outrun

LEMMA FenceStep ==
  LeaseInv /\ EpochInv /\ FenceInv /\ [NextWithPublications]_vars => FenceInv' /\ Fenced
<1> SUFFICES ASSUME LeaseInv, EpochInv, FenceInv, [NextWithPublications]_vars
             PROVE  FenceInv' /\ Fenced
  OBVIOUS
<1>0. account' \in {account, "out"} => Fenced
  BY DEF Fenced, SignsIn
<1>1. CASE Grant
  <2>1. PICK p \in Commands, l \in {"admitted", "readmitted"} : pc' = [pc EXCEPT ![p] = l]
    BY <1>1, Granted
  <2>2. UNCHANGED <<identity, seen>>
    BY <1>1 DEF Grant
  <2> QED
    BY <1>0, <2>1, <2>2, CommandAside, FenceAside DEF identity
<1>2. ASSUME NEW p \in Commands, Call(p) PROVE FenceInv' /\ Fenced
  <2>1. UNCHANGED <<identity, seen>> /\ \E l : pc' = [pc EXCEPT ![p] = l]
    BY <1>2 DEF Call, Ask, Go
  <2> QED
    BY <1>0, <2>1, CommandAside, FenceAside DEF identity
<1>3. ASSUME NEW n \in Renewals, CommitMoves(n) \/ Observe(n) PROVE FenceInv' /\ Fenced
  BY <1>3, RenewalFence DEF Fenced, SignsIn
<1>4. CASE Moves
  <2>1. ASSUME NEW c \in Connects, ConnectMoves(c) PROVE FenceInv' /\ Fenced
    BY <1>0, <2>1, ReaderFence
  <2>2. ASSUME NEW o \in Opens, OpenMoves(o) PROVE FenceInv' /\ Fenced
    BY <1>0, <2>2, ReaderFence
  <2>3. ASSUME NEW s \in SignOuts, SignOutMoves(s) PROVE FenceInv' /\ Fenced
    BY <1>0, <2>3, SignOutFence
  <2> QED
    BY <1>1, <1>3, <1>4, <2>1, <2>2, <2>3 DEF Moves
<1>5. CASE UNCHANGED <<pc, identity, seen>>
  BY <1>0, <1>5, FenceAside DEF identity
<1>6. ASSUME NEW k \in Keys, Cool(k) PROVE FenceInv' /\ Fenced
  BY <1>5, <1>6 DEF Cool
<1>7. ASSUME NEW u \in Publications, PublishMoves(u) PROVE FenceInv' /\ Fenced
  <2>1. /\ UNCHANGED <<identity, seen>> /\ \E l : pc' = [pc EXCEPT ![u] = l]
        /\ u \in Commands
    BY <1>7, PublishAside
  <2> QED
    BY <1>0, <2>1, CommandAside, FenceAside DEF identity
<1> QED
  BY <1>2, <1>3, <1>4, <1>5, <1>6, <1>7 DEF NextWithPublications, Next, vars

\* For every set of renewals, sign-outs and other commands: a renewal that a
\* sign-out has overtaken never signs in, also when another sign-in came and
\* went in between (commit_account, cloud_account_generation_compare_write).
THEOREM OvertakenNeverSignsIn == Spec => RenewalFenced
<1>1. Init => LeaseInv /\ EpochInv /\ FenceInv
  BY LeaseInit, EpochInit, FenceInit
<1>2. LeaseInv /\ EpochInv /\ FenceInv /\ [Next]_vars => (LeaseInv /\ EpochInv /\ FenceInv)'
  BY LeaseStep, EpochStep, FenceStep, WithoutPublications
<1>3. LeaseInv /\ EpochInv /\ FenceInv /\ [Next]_vars
        => [(account = "out" /\ account' = "in")
              => \A n \in Renewals : pc[n] # pc'[n] => n \notin outrun]_vars
  BY FenceStep, WithoutPublications DEF Fenced, SignsIn
<1> QED
  BY <1>1, <1>2, <1>3, PTL DEF Spec, RenewalFenced

-----------------------------------------------------------------------------
(* Publications beside them                                                *)

\* A publication that asks for the lease it already holds, behind a sign-out
\* that waits, can bring every command to a stop, but never breaks what the
\* lease is for: all three properties hold beside any number of publications
\* (desktop_conv_publish).
THEOREM PublicationsOnlyDelay == PublicationSpec => []SignedOutGone /\ []PausedInTime /\ RenewalFenced
<1>1. Init => LeaseInv /\ EpochInv /\ GateInv /\ CircuitInv /\ FenceInv
  BY LeaseInit, EpochInit, GateInit, FenceInit
<1>2. LeaseInv /\ EpochInv /\ GateInv /\ CircuitInv /\ FenceInv /\ [NextWithPublications]_vars
        => (LeaseInv /\ EpochInv /\ GateInv /\ CircuitInv /\ FenceInv)'
  BY LeaseStep, EpochStep, CircuitStep, FenceStep
<1>3. EpochInv => SignedOutGone
  BY EpochSafe
<1>4. CircuitInv => PausedInTime
  BY CircuitSafe
<1>5. LeaseInv /\ EpochInv /\ FenceInv /\ [NextWithPublications]_vars
        => [(account = "out" /\ account' = "in")
              => \A n \in Renewals : pc[n] # pc'[n] => n \notin outrun]_vars
  BY FenceStep DEF Fenced, SignsIn
<1> QED
  BY <1>1, <1>2, <1>3, <1>4, <1>5, PTL DEF PublicationSpec, RenewalFenced
=============================================================================
