-------------------------- MODULE ConversationJournal --------------------------
(***************************************************************************)
(* One conversation from the provider event to the product cloud.  The     *)
(* device's tables (TrajectoryOutbox) are written by                       *)
(*   - the live session, which appends every batch before it renders it,   *)
(*   - the trajectory client, which delivers batches to the cloud,         *)
(*   - the WebView's write pipeline (src/app/src/lib/cloudHistory.ts),     *)
(*     which commits a snapshot locally and then publishes it through      *)
(*     commands/cloud_publication.rs and head.rs,                          *)
(*   - recovery (desktop_conv_get), after a crash or a conflict.           *)
(* Another device edits the same conversation in the cloud.  The device    *)
(* may crash at any point; a request may be lost before or after the       *)
(* cloud has served it.                                                    *)
(***************************************************************************)
EXTENDS TrajectoryOutbox

CONSTANTS MaxCrashes,   \* bound on the crashes of this device
          MaxLists      \* bound on refreshes of the conversation list

ASSUME JournalBounds == MaxCrashes \in Nat /\ MaxLists \in Nat

VARIABLES
    \* the native host and the WebView, lost in a crash
    view,        \* the snapshot of the open conversation, or NoView
    session,     \* "none" or "open": a provider session bound to the trajectory
    client,      \* a CloudTrajectoryClient of this process exists
    opening,     \* a desktop_conv_get between its cloud read and recover_sync
    sending,     \* batches delivered whose acknowledgement is outstanding
    job,         \* the queued PendingPush, or NoJob
    pub,         \* the publication in flight, or NoPub
    serverRev,   \* serverRevisions.get(id)
    metaRev,     \* ConversationMeta.rev in the conversation list
    conflicted,  \* conflicted.has(id)
    \* the product cloud
    cloud,       \* the conversation head: revision and snapshot
    applied,     \* applied[m]: the revision mutation m produced, or 0
    trajectory,  \* the batches the cloud trajectory holds
    \* bookkeeping
    clock,       \* the last revision handed out (milliseconds of wall clock)
    lastMutation, crashes, lists,
    disowned     \* batches this device gave up for the cloud's branch

host     == <<view, session, client, opening, sending>>
web      == <<job, pub, serverRev, metaRev, conflicted>>
product  == <<cloud, applied, trajectory>>
counters == <<clock, lastMutation, crashes, lists, disowned>>
vars     == <<outbox, host, web, product, counters>>

NoView == [absent |-> "view"]
NoJob  == [absent |-> "job"]
NoPub  == [absent |-> "publication"]
NoOpen == [absent |-> "opening"]

Job == [mutation : Mutations, snapshot : Snapshot, rev : Revs, committed : BOOLEAN]
Publication == [mutation : Mutations, snapshot : Snapshot, rev : Revs, baseRev : Revs,
                stage : {"read", "barrier", "put", "stored", "conflict"}, stored : Revs]

Init ==
    /\ OutboxInit
    /\ view = NoView /\ session = "none" /\ client = FALSE
    /\ opening = NoOpen /\ sending = {}
    /\ job = NoJob /\ pub = NoPub
    /\ serverRev = 0 /\ metaRev = 0 /\ conflicted = FALSE
    /\ cloud = [rev |-> 0, snapshot |-> EmptySnapshot]
    /\ applied = [m \in Mutations |-> 0]
    /\ trajectory = {}
    /\ clock = 0 /\ lastMutation = 0 /\ crashes = 0 /\ lists = 0 /\ disowned = {}

-----------------------------------------------------------------------------
(* The live session                                                        *)

NewConversation ==
    /\ view = NoView /\ opening = NoOpen /\ journal = NoRow /\ cloud.rev = 0
    /\ view' = EmptySnapshot
    /\ UNCHANGED <<outbox, session, client, opening, sending, web, product, counters>>

\* session_configure_cloud: initialize with the list's revision, then append
\* the desktop_session trace, which no snapshot shows.
Configure ==
    /\ view # NoView /\ session = "none" /\ lastSeq < MaxSeq
    /\ journal' = Initialized(view, metaRev)
    /\ Enqueue(FALSE, view.running)
    /\ session' = "open" /\ client' = TRUE
    /\ UNCHANGED <<view, opening, sending, web, product, counters>>

\* append before render: the batch is in the outbox when the view changes.
Append(runs) ==
    /\ session = "open" /\ lastSeq < MaxSeq
    /\ Enqueue(TRUE, runs)
    /\ view' = [view EXCEPT !.events = @ \cup {lastSeq'}, !.running = runs,
                            !.checkpoint = lastSeq']
    /\ UNCHANGED <<journal, session, client, opening, sending, web, product, counters>>

\* session_close of a settled session (a live run gets its terminal batch
\* first: Append(FALSE)).  The WebView keeps the snapshot in its cache.
CloseSession ==
    /\ session = "open" /\ ~view.running
    /\ session' = "none"
    /\ UNCHANGED <<outbox, view, client, opening, sending, web, product, counters>>

-----------------------------------------------------------------------------
(* Opening a conversation that is not in the WebView's cache               *)

\* desktop_conv_get, first half: read the cloud head, or fall back to the cache.
ReadCloud ==
    /\ view = NoView /\ opening = NoOpen
    /\ \/ /\ cloud.rev > 0
          /\ opening' = [cloud |-> cloud.snapshot, rev |-> cloud.rev]
       \/ /\ journal # NoRow
          /\ opening' = [cloud |-> NoCloud, rev |-> journal.rev]
    /\ UNCHANGED <<outbox, view, session, client, sending, web, product, counters>>

\* scheduleCloudPut: replace the queued job; the revision is strictly newer
\* than every revision this device knows.
Schedule(snapshot, mutation) ==
    /\ clock < MaxClock
    /\ clock' = clock + 1
    /\ job' = [mutation |-> mutation, snapshot |-> snapshot, rev |-> clock + 1,
               committed |-> FALSE]

\* What recovery would show if the process died now without a connection.
Recoverable ==
    IF journal = NoRow THEN {}
    ELSE journal.base.events \cup {s \in replayable \cap content : s > journal.base.checkpoint}

\* desktop_conv_get, second half, and cloudGet: recover, adopt the revision
\* that came with the answer, and queue the recovered projection.
Recover ==
    LET c == opening.cloud
        r == opening.rev
    IN
    /\ opening # NoOpen
    /\ Interrupts(c, r) => lastSeq < MaxSeq
    /\ RecoverWrites(c, r, TRUE)
    /\ view' = Recovered(c, r)
    /\ opening' = NoOpen
    /\ serverRev' = r
    /\ conflicted' = FALSE
    /\ IF NeedsPublication(c, r)
       THEN LET reuse == journal.pending # None
            IN /\ reuse \/ lastMutation < MaxMutations
               /\ Schedule(Recovered(c, r), IF reuse THEN journal.pending
                                            ELSE lastMutation + 1)
               /\ lastMutation' = IF reuse THEN lastMutation ELSE lastMutation + 1
       ELSE UNCHANGED <<job, clock, lastMutation>>
    /\ disowned' = IF Diverges(c, r) THEN disowned \cup (Recoverable \ c.events)
                   ELSE disowned
    /\ UNCHANGED <<session, client, sending, pub, metaRev, product, crashes, lists>>

-----------------------------------------------------------------------------
(* Trajectory delivery                                                     *)

\* Mutated form: a delivery takes one pending batch, in any order.
DeliverAny ==
    /\ client /\ sending = {}
    /\ \E s \in unacked : sending' = {s} /\ trajectory' = trajectory \cup {s}
    /\ UNCHANGED <<outbox, view, session, client, opening, web, cloud, applied, counters>>

\* deliver: the cloud stores a prefix of the pending batches (idempotent by
\* event id).
Deliver ==
    /\ client /\ sending = {}
    /\ \E s \in unacked :
          /\ sending' = {q \in unacked : q <= s}
          /\ trajectory' = trajectory \cup sending'
    /\ UNCHANGED <<outbox, view, session, client, opening, web, cloud, applied, counters>>

\* Mutated form: the acknowledgement names the conversation, not the batches.
DeliveryAcknowledgedForAll ==
    /\ sending # {}
    /\ Acknowledge(unacked)
    /\ sending' = {}
    /\ UNCHANGED <<view, session, client, opening, web, product, counters>>

DeliveryAcknowledged ==
    /\ sending # {}
    /\ Acknowledge(sending)
    /\ sending' = {}
    /\ UNCHANGED <<view, session, client, opening, web, product, counters>>

\* The answer is lost; a later flush delivers the same batches again.
DeliveryLost ==
    /\ sending # {}
    /\ sending' = {}
    /\ UNCHANGED <<outbox, view, session, client, opening, web, product, counters>>

-----------------------------------------------------------------------------
(* Snapshot publication                                                    *)

\* The throttled persist callback of the store queues the rendered snapshot.
Persist ==
    /\ session = "open" /\ ~conflicted
    /\ lastMutation < MaxMutations
    /\ journal.base # view
    /\ Schedule(view, lastMutation + 1)
    /\ lastMutation' = lastMutation + 1
    /\ UNCHANGED <<outbox, host, pub, serverRev, metaRev, conflicted, product,
                   crashes, lists, disowned>>

\* ensurePendingSnapshotDurable.  Usually just before the publication;
\* prepareCloudDurability does it while an older publication is in flight.
Commit ==
    /\ job # NoJob /\ ~job.committed
    /\ CommitPending(job.snapshot, serverRev, job.mutation)
    /\ job' = [job EXCEPT !.committed = TRUE]
    /\ UNCHANGED <<host, pub, serverRev, metaRev, conflicted, product, counters>>

\* drainPush: one publication in flight per conversation.
StartPublish ==
    /\ job # NoJob /\ job.committed /\ pub = NoPub
    /\ pub' = [mutation |-> job.mutation, snapshot |-> job.snapshot, rev |-> job.rev,
               baseRev |-> serverRev, stage |-> "read", stored |-> 0]
    /\ job' = NoJob
    /\ UNCHANGED <<outbox, host, serverRev, metaRev, conflicted, product, counters>>

\* publication_snapshot: take the exact bytes committed under this mutation,
\* or learn that it has been published or superseded.
PublishRead ==
    /\ pub # NoPub /\ pub.stage = "read"
    /\ IF journal.pending = pub.mutation
       THEN /\ pub' = [pub EXCEPT !.snapshot = journal.base, !.stage = "barrier"]
            /\ UNCHANGED serverRev
       ELSE /\ pub' = NoPub
            /\ serverRev' = IF journal.pending = None /\ journal.acknowledged = pub.mutation
                            THEN journal.rev ELSE serverRev
    /\ UNCHANGED <<outbox, host, job, metaRev, conflicted, product, counters>>

\* A failed attempt is queued again unless a newer job has taken its place.
Requeue ==
    /\ pub' = NoPub
    /\ job' = IF job = NoJob
              THEN [mutation |-> pub.mutation, snapshot |-> pub.snapshot,
                    rev |-> pub.rev, committed |-> TRUE]
              ELSE job

\* Mutated form: the barrier stops one batch short of the checkpoint.
PrefixPendingBefore == \E s \in unacked : s < pub.snapshot.checkpoint

\* wait_for_acknowledged_prefix
PrefixPending == \E s \in unacked : s <= pub.snapshot.checkpoint

PassBarrier ==
    /\ pub # NoPub /\ pub.stage = "barrier" /\ ~PrefixPending
    /\ pub' = [pub EXCEPT !.stage = "put"]
    /\ UNCHANGED <<outbox, host, job, serverRev, metaRev, conflicted, product, counters>>

BarrierTimeout ==
    /\ pub # NoPub /\ pub.stage = "barrier" /\ PrefixPending
    /\ Requeue
    /\ UNCHANGED <<outbox, host, serverRev, metaRev, conflicted, product, counters>>

\* conversation.put as its callers rely on it: a mutation id that has been
\* applied is answered again, with its own revision or the head's, and a
\* mismatched base revision conflicts.  An answer newer than the revision sent
\* is a conflict too.
Accepts == applied[pub.mutation] = 0 /\ pub.baseRev = cloud.rev

CloudPut ==
    /\ IF Accepts
       THEN /\ cloud' = [rev |-> pub.rev,
                         snapshot |-> [pub.snapshot EXCEPT !.checkpoint = 0]]
            /\ applied' = [applied EXCEPT ![pub.mutation] = pub.rev]
       ELSE UNCHANGED <<cloud, applied>>
    /\ UNCHANGED trajectory

Put ==
    /\ pub # NoPub /\ pub.stage = "put"
    /\ CloudPut
    /\ \E stored \in {applied'[pub.mutation], cloud'.rev} :
          pub' = IF applied'[pub.mutation] # 0 /\ stored <= pub.rev
                 THEN [pub EXCEPT !.stage = "stored", !.stored = stored]
                 ELSE [pub EXCEPT !.stage = "conflict"]
    /\ UNCHANGED <<outbox, host, job, serverRev, metaRev, conflicted, counters>>

\* The request or its answer is lost.
PutLost ==
    /\ pub # NoPub /\ pub.stage = "put"
    /\ CloudPut \/ UNCHANGED product
    /\ Requeue
    /\ UNCHANGED <<outbox, host, serverRev, metaRev, conflicted, counters>>

PublishStored ==
    /\ pub # NoPub /\ pub.stage = "stored"
    /\ AcknowledgePublication(pub.snapshot, pub.stored, pub.mutation)
    /\ serverRev' = pub.stored
    /\ pub' = NoPub
    /\ UNCHANGED <<host, job, metaRev, conflicted, product, counters>>

\* Quarantine the branch, then handleCloudHistoryConflict: the live session is
\* closed, its cached snapshot dropped, nothing is queued until cloudGet.
PublishConflict ==
    /\ pub # NoPub /\ pub.stage = "conflict"
    /\ Quarantine
    /\ disowned' = disowned \cup {s \in replayable \cap content : s > journal.base.checkpoint}
    /\ conflicted' = TRUE
    /\ job' = NoJob /\ pub' = NoPub
    /\ view' = NoView /\ session' = "none"
    /\ UNCHANGED <<client, opening, sending, serverRev, metaRev, product, clock,
                   lastMutation, crashes, lists>>

-----------------------------------------------------------------------------
(* The environment                                                         *)

\* Another device publishes an edit of the current head.
ForeignEdit ==
    /\ cloud.rev > 0 /\ clock < MaxClock
    /\ \E f \in 1..MaxForeign :
          /\ f \notin cloud.snapshot.foreign
          /\ \A g \in 1..(f - 1) : g \in cloud.snapshot.foreign
          /\ cloud' = [rev |-> clock + 1,
                       snapshot |-> [cloud.snapshot EXCEPT !.foreign = @ \cup {f}]]
    /\ clock' = clock + 1
    /\ UNCHANGED <<outbox, host, web, applied, trajectory, lastMutation, crashes, lists,
                   disowned>>

\* syncCloudIndex: cloudList stores the listed revision as the server revision.
ListConversations ==
    /\ lists < MaxLists /\ cloud.rev > 0
    /\ lists' = lists + 1
    /\ metaRev' = cloud.rev
    /\ serverRev' = cloud.rev
    /\ UNCHANGED <<outbox, host, job, pub, conflicted, product, clock, lastMutation,
                   crashes, disowned>>

\* The process dies; the next one lists the conversations when it starts.
Forget ==
    /\ crashes < MaxCrashes
    /\ crashes' = crashes + 1
    /\ view' = NoView /\ session' = "none" /\ client' = FALSE
    /\ opening' = NoOpen /\ sending' = {}
    /\ job' = NoJob /\ pub' = NoPub /\ conflicted' = FALSE
    /\ metaRev' = cloud.rev /\ serverRev' = cloud.rev
    /\ UNCHANGED <<product, clock, lastMutation, lists, disowned>>

Crash ==
    /\ client \/ view # NoView
    /\ Forget
    /\ UNCHANGED outbox

\* recover_sync dies between its terminal batch and the reset of local_live.
CrashInRecovery ==
    /\ opening # NoOpen /\ lastSeq < MaxSeq
    /\ Interrupts(opening.cloud, opening.rev)
    /\ RecoverWrites(opening.cloud, opening.rev, FALSE)
    /\ Forget

-----------------------------------------------------------------------------
Session  == NewConversation \/ Configure \/ (\E b \in BOOLEAN : Append(b)) \/ CloseSession
Open     == ReadCloud \/ Recover
Delivery == Deliver \/ DeliveryAcknowledged \/ DeliveryLost
Publish  == \/ Persist \/ Commit \/ StartPublish \/ PublishRead
            \/ PassBarrier \/ BarrierTimeout \/ Put \/ PutLost
            \/ PublishStored \/ PublishConflict
Environment == ForeignEdit \/ ListConversations \/ Crash \/ CrashInRecovery

Next == Session \/ Open \/ Delivery \/ Publish \/ Environment

Spec == Init /\ [][Next]_vars

-----------------------------------------------------------------------------
(* Properties                                                              *)

TypeOK ==
    /\ OutboxTypeOK
    /\ view \in Snapshot \cup {NoView}
    /\ session \in {"none", "open"}
    /\ client \in BOOLEAN
    /\ opening \in [cloud : Snapshot \cup {NoCloud}, rev : Revs] \cup {NoOpen}
    /\ sending \subseteq unacked
    /\ job \in Job \cup {NoJob}
    /\ pub \in Publication \cup {NoPub}
    /\ serverRev \in Revs /\ metaRev \in Revs
    /\ conflicted \in BOOLEAN
    /\ cloud \in [rev : Revs, snapshot : Snapshot]
    /\ applied \in [Mutations -> Revs]
    /\ trajectory \subseteq 1..lastSeq
    /\ clock \in Revs /\ lastMutation \in 0..MaxMutations
    /\ crashes \in 0..MaxCrashes /\ lists \in 0..MaxLists
    /\ disowned \subseteq Seqs

\* A batch the host has accepted is either in the cloud trajectory or still
\* owed to it by the outbox, through crashes, lost answers and conflicts.
TrajectoryComplete == \A s \in 1..lastSeq : s \in trajectory \/ s \in unacked

\* Appends, crashes, quarantined branches and recovery's own terminal batches
\* leave the trajectory a log that the cloud holds in order.
Ordered == INSTANCE OrderedDelivery WITH accepted <- lastSeq, owed <- unacked,
                                         held <- trajectory
DeliveredInOrder == Ordered!Spec

\* The full-snapshot barrier: other readers never see in the conversation head
\* an event whose batch the cloud trajectory does not hold yet.
HeadBehindTrajectory == cloud.snapshot.events \subseteq trajectory

\* Every visible batch that was accepted survives on this device, unless a
\* conflict made it give up its branch: recovery, also without a connection,
\* shows it again.
NoLocalLoss == content \subseteq Recoverable \cup disowned

\* A pending mutation is released only when the cloud has taken it: neither a
\* late acknowledgement nor recovery drops a newer snapshot of this device.
PendingReleased ==
    [][\A m \in Mutations :
          (journal # NoRow /\ journal.pending = m /\ journal'.pending = None)
             => applied[m] # 0]_vars

\* "cloud snapshot must win a CAS conflict" (outbox/tests.rs): a conversation
\* that is reopened after its pending mutation was refused shows what the other
\* device wrote.
CloudWinsConflict ==
    [][(conflicted /\ opening # NoOpen /\ opening.cloud # NoCloud /\ view' # NoView
          /\ \A m \in Mutations : journal.pending = m => applied[m] = 0)
         => opening.cloud.foreign \subseteq view'.foreign]_vars
=============================================================================
