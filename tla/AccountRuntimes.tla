---------------------------- MODULE AccountRuntimes ----------------------------
(***************************************************************************)
(* What the desktop holds for the signed-in account: the account itself    *)
(* and its generation, the remote workers and the sessions bound to it     *)
(* (src/src-tauri/src/runtime_registry.rs), and the commands that use them *)
(* under the account lifecycle lease (product.rs, commands/*.rs).          *)
(*                                                                         *)
(* The lease is tokio's RwLock: a queue in the order of arrival, in which  *)
(* a reader waits behind a writer that is waiting.  Every await of a       *)
(* command is a step of its own; what it calls over the network answers or *)
(* fails within its own deadline.                                          *)
(***************************************************************************)
EXTENDS Integers, Sequences

CONSTANTS Connects,      \* calls of remote_worker_connect, of one checkout
          Keys,          \* the configurations of a worker (WorkerKey)
          Opens,         \* calls of session_open on a remote worker
          Publications,  \* calls of desktop_conv_publish (AccountPublication)
          SignOuts,      \* calls of clear_account
          Renewals,      \* token renewals and sign-ins
          Threshold,     \* CIRCUIT_FAILURE_THRESHOLD
          MaxBoots       \* bound on the workers that are started

ASSUME RuntimeBounds == Threshold \in Nat \ {0} /\ MaxBoots \in Nat

ASSUME KindsDistinct ==
    /\ Connects \cap (Opens \cup Publications \cup SignOuts \cup Renewals) = {}
    /\ Opens \cap (Publications \cup SignOuts \cup Renewals) = {}
    /\ Publications \cap (SignOuts \cup Renewals) = {}
    /\ SignOuts \cap Renewals = {}
    /\ "none" \notin Connects \cup SignOuts

VARIABLES
    pc,          \* where each command is
    leases,      \* the read leases each command holds
    writer,      \* the command that holds the write lease
    queue,       \* the commands that wait for a lease, in order
    account,     \* "in" or "out"
    epoch,       \* the number of the sign-in
    generation,  \* cloud_account_generation
    authority,   \* who holds the lock of the account state
    retained,    \* the retained session, 0 for none
    seen,        \* what a command has read of the account
    workers,     \* the registered workers
    handles,     \* handles_by_key
    key,         \* per connect: the configuration it asks for
    gate,        \* per key: the connect that holds its gate
    own,         \* per connect: the handle it works on
    victims,     \* per connect: the handles it retires
    circuit,     \* connect_circuits
    boots,       \* the workers started so far
    sessions,    \* the bound sessions, with the sign-in they belong to
    outrun       \* renewals begun before a sign-out took the account

lock     == <<leases, writer, queue>>
identity == <<account, epoch, generation, authority, retained, outrun>>
registry == <<workers, handles, key, gate, own, victims, circuit, boots>>
vars     == <<pc, lock, identity, seen, registry, sessions>>

None == "none"
NoHandle == 0
Commands == Connects \cup Opens \cup Publications \cup SignOuts
Handles == 1..MaxBoots

Init ==
    /\ pc = [p \in Commands \cup Renewals |-> "idle"]
    /\ leases = [p \in Commands |-> 0] /\ writer = None /\ queue = <<>>
    /\ account = "out" /\ epoch = 0 /\ generation = 0 /\ authority = None
    /\ retained \in {0, 1} /\ outrun = {}
    /\ seen = [p \in Commands \cup Renewals |-> [epoch |-> 0, generation |-> 0, retained |-> 0]]
    /\ workers = {} /\ handles = [k \in Keys |-> NoHandle]
    /\ key \in [Connects -> Keys] /\ gate = [k \in Keys |-> None]
    /\ own = [c \in Connects |-> NoHandle] /\ victims = [c \in Connects |-> {}]
    /\ circuit = [k \in Keys |-> [failures |-> 0, state |-> "closed"]]
    /\ boots = 0 /\ sessions = {}

Go(p, to) == pc' = [pc EXCEPT ![p] = to]

-----------------------------------------------------------------------------
(* The lifecycle lease                                                     *)

Ask(p, from, to) ==
    /\ pc[p] = from /\ Go(p, to)
    /\ queue' = Append(queue, p)
    /\ UNCHANGED <<leases, writer, identity, seen, registry, sessions>>

\* Mutant of Call: a connect is not admitted under the lease.
CallUnleased(p) ==
    \/ p \notin Connects /\ Ask(p, "idle", "waiting")
    \/ /\ p \in Connects /\ pc[p] = "idle" /\ Go(p, "admitted")
       /\ UNCHANGED <<lock, identity, seen, registry, sessions>>

Call(p) == Ask(p, "idle", "waiting")

Free == writer = None /\ \A p \in Commands : leases[p] = 0

Grant ==
    /\ queue # <<>>
    /\ LET p == Head(queue) IN
       /\ IF p \in SignOuts
          THEN Free /\ writer' = p /\ UNCHANGED leases
          ELSE writer = None /\ leases' = [leases EXCEPT ![p] = @ + 1] /\ UNCHANGED writer
       /\ Go(p, IF pc[p] = "waiting" THEN "admitted" ELSE "readmitted")
    /\ queue' = Tail(queue)
    /\ UNCHANGED <<identity, seen, registry, sessions>>

\* Mutant of Return: the gate of the configuration stays taken.
ReturnGated(p) ==
    /\ Go(p, "done")
    /\ leases' = [leases EXCEPT ![p] = 0]
    /\ writer' = IF writer = p THEN None ELSE writer
    /\ UNCHANGED <<gate, queue>>

\* A command returns: its leases and its gate are dropped.
Return(p) ==
    /\ Go(p, "done")
    /\ leases' = [leases EXCEPT ![p] = 0]
    /\ writer' = IF writer = p THEN None ELSE writer
    /\ gate' = [k \in Keys |-> IF gate[k] = p THEN None ELSE gate[k]]
    /\ UNCHANGED queue

-----------------------------------------------------------------------------
(* remote_worker_connect                                                   *)

\* The owner and the credentials of the worker are those of the account.
Prepare(c) ==
    /\ pc[c] = "admitted" /\ authority = None
    /\ seen' = [seen EXCEPT ![c].epoch = epoch]
    /\ \/ account = "in" /\ Go(c, "prepared") /\ UNCHANGED <<lock, gate>>
       \/ account = "out" /\ Return(c)
    /\ UNCHANGED <<identity, workers, handles, key, own, victims, circuit, boots, sessions>>

\* Mutant of Gate: the calls of one configuration are not serialised.
GateOpen(c) ==
    /\ pc[c] = "prepared" /\ Go(c, "gated")
    /\ UNCHANGED <<lock, identity, seen, registry, sessions>>

\* connect_gate: one connect per configuration.
Gate(c) ==
    /\ pc[c] = "prepared" /\ gate[key[c]] = None
    /\ gate' = [gate EXCEPT ![key[c]] = c]
    /\ Go(c, "gated")
    /\ UNCHANGED <<lock, identity, seen, workers, handles, key, own, victims, circuit,
                   boots, sessions>>

Registered(h) == \E w \in workers : w.handle = h

\* A handle whose worker is gone is as good as none.
Lookup(c) ==
    /\ pc[c] = "gated"
    /\ LET h == handles[key[c]] IN
       IF Registered(h)
       THEN own' = [own EXCEPT ![c] = h] /\ Go(c, "found")
       ELSE UNCHANGED own /\ Go(c, "missing")
    /\ UNCHANGED <<lock, identity, seen, workers, handles, gate, key, victims, circuit,
                   boots, sessions>>

Reuse(c) ==
    /\ pc[c] = "found" /\ Return(c)
    /\ UNCHANGED <<identity, seen, workers, handles, key, own, victims, circuit, boots, sessions>>

Permit(c) ==
    /\ pc[c] \in {"found", "missing"}
    /\ LET k == key[c] IN
       \/ /\ circuit[k].state = "open" /\ Return(c) /\ UNCHANGED circuit
       \/ /\ circuit[k].state # "open"
          /\ circuit' = IF circuit[k].state = "cooled"
                        THEN [circuit EXCEPT ![k] = [failures |-> 0, state |-> "closed"]]
                        ELSE circuit
          /\ Go(c, IF pc[c] = "found" THEN "replacing" ELSE "starting")
          /\ UNCHANGED <<lock, gate>>
    /\ UNCHANGED <<identity, seen, workers, handles, key, own, victims, boots, sessions>>

\* Two attempts, half a second apart, count as one failure.
BootFails(c) ==
    /\ pc[c] \in {"replacing", "starting"}
    /\ LET k == key[c] IN
       circuit' = [circuit EXCEPT ![k] =
          [failures |-> @.failures + 1,
           state |-> IF @.failures + 1 >= Threshold THEN "open" ELSE @.state]]
    /\ Return(c)
    /\ UNCHANGED <<identity, seen, workers, handles, key, own, victims, boots, sessions>>

\* CIRCUIT_OPEN_DURATION.
Cool(k) ==
    /\ circuit[k].state = "open"
    /\ circuit' = [circuit EXCEPT ![k].state = "cooled"]
    /\ UNCHANGED <<pc, lock, identity, seen, workers, handles, gate, key, own, victims,
                   boots, sessions>>

Boots(c) ==
    /\ pc[c] \in {"replacing", "starting"} /\ boots < MaxBoots
    /\ boots' = boots + 1
    /\ circuit' = [circuit EXCEPT ![key[c]] = [failures |-> 0, state |-> "closed"]]
    /\ own' = [own EXCEPT ![c] = IF pc[c] = "starting" THEN boots' ELSE @]
    /\ Go(c, IF pc[c] = "starting" THEN "started" ELSE "replaced")
    /\ UNCHANGED <<lock, identity, seen, workers, handles, gate, key, victims, sessions>>

Runtime(c) == [handle |-> own[c], key |-> key[c], epoch |-> seen[c].epoch]
Insert(c) == workers' = {w \in workers : w.handle # own[c]} \cup {Runtime(c)}

\* The handle is registered again, also when it was retired on the way.
Reinsert(c) ==
    /\ pc[c] = "replaced" /\ Insert(c) /\ Return(c)
    /\ UNCHANGED <<identity, seen, handles, key, own, victims, circuit, boots, sessions>>

InsertNew(c) ==
    /\ pc[c] = "started" /\ Insert(c) /\ Go(c, "inserted")
    /\ UNCHANGED <<lock, identity, seen, handles, gate, key, own, victims, circuit,
                   boots, sessions>>

MapHandle(c) ==
    /\ pc[c] = "inserted"
    /\ handles' = [handles EXCEPT ![key[c]] = own[c]]
    /\ Go(c, "mapped")
    /\ UNCHANGED <<lock, identity, seen, workers, gate, key, own, victims, circuit,
                   boots, sessions>>

\* Every other worker of the checkout.
SelectSuperseded(c) ==
    /\ pc[c] = "mapped"
    /\ victims' = [victims EXCEPT ![c] =
          {w.handle : w \in {v \in workers : v.epoch = seen[c].epoch}} \ {own[c]}]
    /\ Go(c, "selected")
    /\ UNCHANGED <<lock, identity, seen, workers, handles, gate, key, own, circuit,
                   boots, sessions>>

Unmapped(gone) ==
    [k \in Keys |-> IF \E w \in gone : w.key = k /\ w.handle = handles[k]
                    THEN NoHandle ELSE handles[k]]

RetireSuperseded(c) ==
    /\ pc[c] = "selected"
    /\ LET gone == {w \in workers : w.handle \in victims[c]} IN
       workers' = workers \ gone /\ handles' = Unmapped(gone)
    /\ Return(c)
    /\ UNCHANGED <<identity, seen, key, own, victims, circuit, boots, sessions>>

-----------------------------------------------------------------------------
(* session_open on a remote worker                                         *)

\* resolve: the handle must be registered for the present account.
Resolve(o) ==
    /\ pc[o] = "admitted" /\ authority = None
    /\ \/ account = "in" /\ workers # {} /\ Go(o, "resolved") /\ UNCHANGED <<lock, gate>>
       \/ (account = "out" \/ workers = {}) /\ Return(o)
    /\ seen' = [seen EXCEPT ![o].epoch = epoch]
    /\ UNCHANGED <<identity, workers, handles, key, own, victims, circuit, boots, sessions>>

\* new_session, and then the second look at the account.
NewSession(o) ==
    /\ pc[o] = "resolved" /\ authority = None
    /\ \/ account = "in" /\ Go(o, "current") /\ UNCHANGED <<lock, gate>>
       \/ Return(o)
    /\ UNCHANGED <<identity, seen, workers, handles, key, own, victims, circuit, boots, sessions>>

Bind(o) ==
    /\ pc[o] = "current"
    /\ sessions' = sessions \cup {<<o, seen[o].epoch>>}
    /\ Return(o)
    /\ UNCHANGED <<identity, seen, workers, handles, key, own, victims, circuit, boots>>

-----------------------------------------------------------------------------
(* clear_account                                                           *)

SignOutLock(s) ==
    /\ pc[s] = "admitted" /\ authority = None
    /\ authority' = s /\ generation' = generation + 1
    /\ outrun' = outrun \cup {n \in Renewals : pc[n] \in {"observed", "renewing"}}
    /\ Go(s, "locked")
    /\ UNCHANGED <<lock, account, epoch, retained, seen, registry, sessions>>

\* The credentials cannot be cleared: nothing else changes.
SignOutFails(s) ==
    /\ pc[s] = "locked" /\ authority' = None /\ Return(s)
    /\ UNCHANGED <<account, epoch, generation, retained, outrun, seen, workers,
                   handles, key, own, victims, circuit, boots, sessions>>

\* The credentials, the sessions, then the account.
SignOutClears(s) ==
    /\ pc[s] = "locked"
    /\ retained' = 0 /\ account' = "out" /\ authority' = None
    /\ sessions' = {b \in sessions : account = "out"}
    /\ IF account = "in" THEN Go(s, "cleared") /\ UNCHANGED <<lock, gate>> ELSE Return(s)
    /\ UNCHANGED <<epoch, generation, outrun, seen, workers, handles, key, own, victims,
                   circuit, boots>>

\* disconnect_account: first out of the table, then one worker at a time.
SignOutDisconnects(s) ==
    /\ pc[s] = "cleared"
    /\ workers' = {}
    /\ handles' = [k \in Keys |-> IF \E w \in workers : w.key = k THEN NoHandle ELSE handles[k]]
    /\ circuit' = [k \in Keys |-> IF \E w \in workers : w.key = k
                                  THEN [failures |-> 0, state |-> "closed"] ELSE circuit[k]]
    /\ Return(s)
    /\ UNCHANGED <<identity, seen, key, own, victims, boots, sessions>>

-----------------------------------------------------------------------------
(* commit_account: a sign-in or a renewed token                            *)

\* The generation a renewal starts from is an atomic load: no lock is taken.
Observe(n) ==
    /\ pc[n] = "idle" /\ Go(n, "observed")
    /\ seen' = [seen EXCEPT ![n].generation = generation]
    /\ UNCHANGED <<lock, identity, registry, sessions>>

\* The session it renews, from the credential store.
ReadSession(n) ==
    /\ pc[n] = "observed" /\ Go(n, "renewing")
    /\ seen' = [seen EXCEPT ![n].retained = retained]
    /\ UNCHANGED <<lock, identity, registry, sessions>>

\* Mutant of Current: the retained session alone is compared.
SameSession(n) == TRUE

\* cloud_account_generation_compare_write
Current(n) == generation = seen[n].generation

Compare(n) ==
    /\ pc[n] = "renewing" /\ authority = None
    /\ \/ /\ Current(n)
          /\ authority' = n /\ generation' = generation + 1 /\ Go(n, "committing")
       \/ ~Current(n) /\ Go(n, "done") /\ UNCHANGED <<authority, generation>>
    /\ UNCHANGED <<lock, account, epoch, retained, outrun, seen, registry, sessions>>

\* Another session is retained, or the credentials cannot be written.
CommitFails(n) ==
    /\ pc[n] = "committing" /\ authority' = None /\ Go(n, "done")
    /\ UNCHANGED <<lock, account, epoch, generation, retained, outrun, seen,
                   registry, sessions>>

Commit(n) ==
    /\ pc[n] = "committing" /\ retained = seen[n].retained
    /\ retained' = generation + 1
    /\ account' = "in" /\ epoch' = IF account = "in" THEN epoch ELSE epoch + 1
    /\ authority' = None /\ Go(n, "done")
    /\ UNCHANGED <<lock, generation, outrun, seen, registry, sessions>>

-----------------------------------------------------------------------------
ConnectMoves(c) ==
    \/ Prepare(c) \/ Gate(c) \/ Lookup(c) \/ Reuse(c) \/ Permit(c) \/ BootFails(c)
    \/ Boots(c) \/ Reinsert(c) \/ InsertNew(c) \/ MapHandle(c)
    \/ SelectSuperseded(c) \/ RetireSuperseded(c)
OpenMoves(o) == Resolve(o) \/ NewSession(o) \/ Bind(o)
SignOutMoves(s) ==
    SignOutLock(s) \/ SignOutFails(s) \/ SignOutClears(s) \/ SignOutDisconnects(s)
CommitMoves(n) == ReadSession(n) \/ Compare(n) \/ CommitFails(n) \/ Commit(n)

Moves ==
    \/ Grant
    \/ \E c \in Connects : ConnectMoves(c)
    \/ \E o \in Opens : OpenMoves(o)
    \/ \E s \in SignOuts : SignOutMoves(s)
    \/ \E n \in Renewals : CommitMoves(n)

Next ==
    \/ Moves
    \/ \E p \in Commands : Call(p)
    \/ \E n \in Renewals : Observe(n)
    \/ \E k \in Keys : Cool(k)

Spec == Init /\ [][Next]_vars

\* The runtime polls every task, its locks are fair, and what a command waits
\* for on the network has a deadline.
Fairness ==
    /\ WF_vars(Grant)
    /\ \A c \in Connects : WF_vars(ConnectMoves(c))
    /\ \A o \in Opens : WF_vars(OpenMoves(o))
    /\ \A s \in SignOuts : WF_vars(SignOutMoves(s))
    /\ \A n \in Renewals : WF_vars(CommitMoves(n))

FairSpec == Spec /\ Fairness

-----------------------------------------------------------------------------
(* Properties                                                              *)

TypeOK ==
    /\ leases \in [Commands -> 0..2] /\ writer \in SignOuts \cup {None}
    /\ writer # None => \A p \in Commands : leases[p] = 0
    /\ queue \in Seq(Commands)
    /\ account \in {"in", "out"} /\ authority \in SignOuts \cup Renewals \cup {None}
    /\ workers \subseteq [handle : Handles, key : Keys, epoch : 1..epoch]
    /\ \A v, w \in workers : v.handle = w.handle => v = w
    /\ handles \in [Keys -> {NoHandle} \cup Handles]
    /\ key \in [Connects -> Keys] /\ gate \in [Keys -> Connects \cup {None}]
    /\ own \in [Connects -> {NoHandle} \cup Handles]
    /\ victims \in [Connects -> SUBSET Handles]
    /\ circuit \in [Keys -> [failures : Nat, state : {"closed", "open", "cooled"}]]
    /\ sessions \subseteq Opens \X (1..epoch) /\ outrun \subseteq Renewals

\* "Sign-out cannot remove the partition midway and leave a newly published
\* orphan worker behind" (commands/remote_worker.rs): what is registered or
\* bound while nobody signs out belongs to the present sign-in.
SignedOutGone ==
    writer = None =>
        /\ \A w \in workers : account = "in" /\ w.epoch = epoch
        /\ \A b \in sessions : account = "in" /\ b[2] = epoch

\* A configuration that cannot be started is not tried more than Threshold
\* times without a pause, however many callers ask for it at once
\* (connect_gate and ConnectCircuits).
PausedInTime == \A k \in Keys : circuit[k].failures <= Threshold

\* "A completed renewal may publish only into the generation it observed": one
\* that a sign-out has overtaken never signs in again, also when a sign-in came
\* and went in between.
RenewalFenced ==
    [][(account = "out" /\ account' = "in")
         => \A n \in Renewals : pc[n] # pc'[n] => n \notin outrun]_vars

\* "Readers block until the durable and live sides of a sign-in/sign-out
\* transaction agree": no command waits for the lease for ever.
CommandsEnd == \A p \in Commands : pc[p] = "waiting" ~> pc[p] = "done"
=============================================================================
