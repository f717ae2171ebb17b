---------------------------- MODULE TrajectoryOutbox ----------------------------
(***************************************************************************)
(* The device's durable tables for one conversation, and the SQLite        *)
(* transactions over them (src/src-tauri/src/trajectory/outbox.rs and      *)
(* outbox/recovery.rs).                                                    *)
(*                                                                         *)
(* A trajectory batch is its local_seq.  A snapshot is the set of batches  *)
(* with visible content it has applied, the set of another device's edits  *)
(* it contains, whether a run is live in it, and its history_checkpoint.   *)
(* Every operator of this module that primes a variable is one             *)
(* transaction; a module that uses it decides who calls it and when.       *)
(***************************************************************************)
EXTENDS Integers, FiniteSets

CONSTANTS MaxSeq,       \* bound on the batches appended
          MaxMutations, \* bound on the snapshot mutation ids
          MaxForeign,   \* bound on the edits of the other device
          MaxClock      \* bound on the revisions handed out

ASSUME OutboxBounds ==
    /\ MaxSeq \in Nat \ {0}
    /\ MaxMutations \in Nat \ {0}
    /\ MaxForeign \in Nat
    /\ MaxClock \in Nat \ {0}

VARIABLES
    journal,     \* the journal_conversation row, or NoRow
    rows,        \* local_seq of the trajectory_outbox rows
    unacked,     \* the rows with acknowledged = 0
    replayable,  \* the rows with replayable = 1
    lastSeq,     \* the AUTOINCREMENT counter
    live,        \* the batches that leave a run live when they are applied
    content      \* the batches whose events change what a snapshot shows

outbox == <<journal, rows, unacked, replayable, lastSeq, live, content>>

Seqs      == 1..MaxSeq
Mutations == 1..MaxMutations
Revs      == 0..MaxClock
None      == 0

Snapshot == [events : SUBSET Seqs, foreign : SUBSET (1..MaxForeign),
             running : BOOLEAN, checkpoint : 0..MaxSeq]
EmptySnapshot == [events |-> {}, foreign |-> {}, running |-> FALSE, checkpoint |-> 0]

\* base is base_snapshot_json together with the checkpoint_seq column, which is
\* what every reader takes the checkpoint from.  snapshot_pending and
\* pending_mutation_id are set and cleared together: pending is the id, or None.
JournalRow == [base : Snapshot, rev : Revs, local_live : BOOLEAN,
               pending : 0..MaxMutations, acknowledged : 0..MaxMutations]
NoRow == [absent |-> "journal_conversation"]

OutboxTypeOK ==
    /\ journal \in JournalRow \cup {NoRow}
    /\ rows \subseteq 1..lastSeq
    /\ unacked \subseteq rows
    /\ replayable \subseteq rows
    /\ lastSeq \in 0..MaxSeq
    /\ live \subseteq 1..lastSeq
    /\ content \subseteq 1..lastSeq

OutboxInit ==
    /\ journal = NoRow
    /\ rows = {} /\ unacked = {} /\ replayable = {}
    /\ lastSeq = 0 /\ live = {} /\ content = {}

MaxOf(S) == CHOOSE n \in S : \A m \in S : m <= n

-----------------------------------------------------------------------------
(* Mutated forms of the transactions, for the sensitivity of the runs      *)

\* Acknowledged batches are deleted without comparing checkpoint_seq.
AcknowledgeDeleting(batches) ==
    /\ unacked' = unacked \ batches
    /\ rows' = rows \ batches
    /\ replayable' = replayable \cap rows'
    /\ UNCHANGED <<journal, lastSeq, live, content>>

\* A late cloud response is not compared with pending_mutation_id.
AcknowledgeUnfenced(snapshot, rev, mutation) ==
    IF journal # NoRow
    THEN /\ journal' = [base |-> snapshot, rev |-> rev, local_live |-> snapshot.running,
                        pending |-> None, acknowledged |-> mutation]
         /\ rows' = {s \in rows : s \in unacked \/ s > snapshot.checkpoint}
         /\ replayable' = replayable \cap rows'
         /\ UNCHANGED <<unacked, lastSeq, live, content>>
    ELSE UNCHANGED outbox

-----------------------------------------------------------------------------
(* Transactions                                                            *)

\* enqueue_sync: append one batch.
Enqueue(visible, runs) ==
    /\ lastSeq' = lastSeq + 1
    /\ rows' = rows \cup {lastSeq + 1}
    /\ unacked' = unacked \cup {lastSeq + 1}
    /\ replayable' = replayable \cup {lastSeq + 1}
    /\ live' = IF runs THEN live \cup {lastSeq + 1} ELSE live
    /\ content' = IF visible THEN content \cup {lastSeq + 1} ELSE content

\* initialize_sync: bind the conversation.  The base and its revision are
\* replaced only while no batch hangs on the old ones; a pending mutation
\* stays pending either way.
Initialized(snapshot, rev) ==
    IF journal = NoRow
    THEN [base |-> snapshot, rev |-> rev, local_live |-> snapshot.running,
          pending |-> None, acknowledged |-> None]
    ELSE IF rows = {}
    THEN [journal EXCEPT !.base = snapshot, !.rev = rev,
                         !.local_live = snapshot.running]
    ELSE journal

\* acknowledge_many_sync: the acknowledged batches that the checkpoint covers go.
Acknowledge(batches) ==
    /\ unacked' = unacked \ batches
    /\ rows' = rows \ {s \in batches : s <= journal.base.checkpoint}
    /\ replayable' = replayable \cap rows'
    /\ UNCHANGED <<journal, lastSeq, live, content>>

\* commit_pending_snapshot: the WebView's projection becomes the base.
CommitPending(snapshot, rev, mutation) ==
    /\ journal' = [base |-> snapshot, rev |-> rev, local_live |-> snapshot.running,
                   pending |-> mutation,
                   acknowledged |-> IF journal = NoRow THEN None
                                    ELSE journal.acknowledged]
    /\ UNCHANGED <<rows, unacked, replayable, lastSeq, live, content>>

\* acknowledge_snapshot_publication: only the mutation that is still pending is
\* promoted, with the acknowledged prefix it covers.
AcknowledgePublication(snapshot, rev, mutation) ==
    IF journal # NoRow /\ journal.pending = mutation
    THEN /\ journal' = [base |-> snapshot, rev |-> rev, local_live |-> snapshot.running,
                        pending |-> None, acknowledged |-> mutation]
         /\ rows' = {s \in rows : s \in unacked \/ s > snapshot.checkpoint}
         /\ replayable' = replayable \cap rows'
         /\ UNCHANGED <<unacked, lastSeq, live, content>>
    ELSE UNCHANGED outbox

\* quarantine_snapshot_branch after a conflict.
Quarantine ==
    /\ replayable' = {}
    /\ UNCHANGED <<journal, rows, unacked, lastSeq, live, content>>

-----------------------------------------------------------------------------
(* recover_sync                                                            *)

NoCloud == [absent |-> "cloud"]

\* The cached branch is the read model: the cloud gave nothing, it is at the
\* cached revision, or a local mutation is pending.
PrefersCache(cloud, rev) ==
    /\ journal # NoRow
    /\ cloud = NoCloud \/ rev = journal.rev \/ journal.pending # None

Diverges(cloud, rev) == journal # NoRow /\ ~PrefersCache(cloud, rev)

RecoveryBase(cloud, rev) ==
    IF PrefersCache(cloud, rev) THEN journal.base
    ELSE [cloud EXCEPT !.checkpoint = 0]

\* Batches past the checkpoint are replayed whether acknowledged or not.
Replayed(cloud, rev) ==
    IF PrefersCache(cloud, rev)
    THEN {s \in replayable : s > journal.base.checkpoint}
    ELSE {}

Replay(base, batches) ==
    IF batches = {} THEN base
    ELSE [base EXCEPT !.events = @ \cup (batches \cap content),
                      !.running = MaxOf(batches) \in live,
                      !.checkpoint = MaxOf(batches)]

Merged(cloud, rev) == Replay(RecoveryBase(cloud, rev), Replayed(cloud, rev))

\* interrupt_live_runs: a run that was live in this process is over.
Interrupts(cloud, rev) ==
    /\ PrefersCache(cloud, rev)
    /\ journal.local_live \/ Replayed(cloud, rev) # {}
    /\ Merged(cloud, rev).running

Recovered(cloud, rev) ==
    IF Interrupts(cloud, rev)
    THEN [Merged(cloud, rev) EXCEPT !.events = @ \cup {lastSeq + 1},
                                    !.running = FALSE,
                                    !.checkpoint = lastSeq + 1]
    ELSE Merged(cloud, rev)

NeedsPublication(cloud, rev) ==
    /\ PrefersCache(cloud, rev)
    /\ \/ Replayed(cloud, rev) # {}
       \/ journal.pending # None
       \/ Interrupts(cloud, rev)

\* The writes of recover_sync.  The terminal batch and the reset of local_live
\* are separate commits: settled is FALSE when the process dies between them.
RecoverWrites(cloud, rev, settled) ==
    \/ /\ Diverges(cloud, rev)
       /\ journal' = [journal EXCEPT !.base = RecoveryBase(cloud, rev), !.rev = rev,
                                     !.local_live = FALSE, !.pending = None]
       /\ replayable' = {}
       /\ UNCHANGED <<rows, unacked, lastSeq, live, content>>
    \/ /\ Interrupts(cloud, rev)
       /\ Enqueue(TRUE, FALSE)
       /\ journal' = IF settled THEN [journal EXCEPT !.local_live = FALSE] ELSE journal
    \/ /\ ~Diverges(cloud, rev) /\ ~Interrupts(cloud, rev)
       /\ UNCHANGED outbox
=============================================================================
