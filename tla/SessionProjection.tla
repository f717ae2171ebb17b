--------------------------- MODULE SessionProjection ---------------------------
(***************************************************************************)
(* The native host's projection of one conversation (src/src-tauri/src/    *)
(* commands.rs, commands/provider_stream.rs, commands/session_close.rs).   *)
(* A prompt command allocates a run and hands its stream to a drain task;  *)
(* a steer command, a close command and a reopen of the same conversation  *)
(* run beside them.  Each appends batches to the local trajectory, applies *)
(* them to the snapshot of the session entry it captured, and emits the    *)
(* snapshot to the WebView.  Two mutexes order them: the entry's own lock, *)
(* held across an append only by prompt admission and steer, and the       *)
(* projection gate, held by drains, seals and the close.                   *)
(*                                                                         *)
(* Prompt admission, its echo and every other locked section without an    *)
(* interleaving inside it is one step.                                     *)
(***************************************************************************)
EXTENDS Integers, Sequences, FiniteSets

CONSTANTS Runs,         \* one prompt, one run and one drain each
          Steer, Close, Open,
          MaxEntries,   \* bound on the session entries of the conversation
          MaxContent,   \* bound on the content batches of the providers
          MaxFailures   \* bound on the outbox appends that fail

ASSUME ProjectionBounds ==
    /\ Steer # Close /\ Steer # Open /\ Close # Open
    /\ {Steer, Close, Open} \cap Runs = {} /\ 0 \notin Runs \cup {Steer, Close, Open}
    /\ IsFiniteSet(Runs)
    /\ MaxEntries \in Nat \ {0}
    /\ MaxContent \in Nat /\ MaxFailures \in Nat

VARIABLES
    current,     \* the registry's entry for the conversation, or None
    entries,     \* the entries created so far
    closing,     \* closing[e]
    snapshot,    \* snapshot[e]
    gate,        \* gate[e]: who holds the projection gate, or Free
    lock,        \* lock[e]: who holds the entry across an await, or Free
    trajectory,  \* the batches appended to the outbox, in local_seq order
    webview,     \* the last snapshot emitted, and the entry it came from
    pc, entry, batch, clone, failures

tables     == <<current, entries, closing, gate, lock>>
projection == <<tables, snapshot, trajectory, webview, pc, entry, batch, clone, failures>>

Actors  == Runs \cup {Steer, Close, Open}
Entries == 1..MaxEntries
None    == 0
Free    == 0

Terminals == {"finished", "sealed", "closed"}
Kinds     == {"prompt", "started", "content", "steer"} \cup Terminals
MaxBatches == 3 * Cardinality(Runs) + MaxContent + 2
Snapshot  == [applied : SUBSET (1..MaxBatches), live : SUBSET Runs, checkpoint : 0..MaxBatches]
Clean     == [applied |-> {}, live |-> {}, checkpoint |-> 0]

ProjectionInit ==
    /\ current = 1 /\ entries = 1
    /\ closing = [e \in Entries |-> FALSE]
    /\ snapshot = [e \in Entries |-> Clean]
    /\ gate = [e \in Entries |-> Free] /\ lock = [e \in Entries |-> Free]
    /\ trajectory = <<>>
    /\ webview = [entry |-> 1, snapshot |-> Clean]
    /\ pc = [a \in Actors |-> "idle"]
    /\ entry = [a \in Actors |-> None]
    /\ batch = [a \in Actors |-> None]
    /\ clone = [a \in Actors |-> Clean]
    /\ failures = 0

-----------------------------------------------------------------------------
(* Pieces of the commands                                                  *)

Goto(a, label) == pc' = [pc EXCEPT ![a] = label]
At(a, label)   == pc[a] = label
Mine(a)        == snapshot[entry[a]]
Unlocked(a)    == lock[entry[a]] = Free
Ungated(a)     == gate[entry[a]] = Free
Take(mutex, a) == [mutex EXCEPT ![entry[a]] = a]
Drop(mutex, a) == [mutex EXCEPT ![entry[a]] = Free]

\* The command finds the live entry of its conversation.
Capture(a) ==
    /\ At(a, "idle") /\ current # None /\ ~At(Open, "announce")
    /\ entry' = [entry EXCEPT ![a] = current]

\* CloudTrajectoryClient::append
Journal(a, kind, runs) ==
    /\ trajectory' = Append(trajectory, [entry |-> entry[a], kind |-> kind, runs |-> runs])
    /\ batch' = [batch EXCEPT ![a] = Len(trajectory) + 1]
    /\ UNCHANGED failures

JournalFails ==
    /\ failures < MaxFailures
    /\ failures' = failures + 1
    /\ UNCHANGED <<trajectory, batch>>

Emit(e, s) == webview' = [entry |-> e, snapshot |-> s]

Stale(a) == current # entry[a] \/ closing[entry[a]]

\* Apply the batch under the entry lock and move the checkpoint to it.
Project(a, live) ==
    /\ Unlocked(a)
    /\ snapshot' = [snapshot EXCEPT ![entry[a]] =
           [applied |-> @.applied \cup {batch[a]}, live |-> live, checkpoint |-> batch[a]]]

\* The snapshot is cloned under the lock and emitted after it is released.
Remember(a) == clone' = [clone EXCEPT ![a] = snapshot'[entry[a]]]
Show(a)     == Emit(entry[a], clone[a])

-----------------------------------------------------------------------------
(* prompt                                                                  *)

PromptCapture(r) ==
    /\ Capture(r) /\ Goto(r, "admit")
    /\ UNCHANGED <<tables, snapshot, trajectory, webview, batch, clone, failures>>

\* admit_and_append_prompt: a rejected prompt is never appended.
PromptAdmit(r) ==
    /\ At(r, "admit") /\ Unlocked(r)
    /\ \/ Journal(r, "prompt", {}) /\ Goto(r, "echo")
       \/ JournalFails /\ Goto(r, "done")
       \/ UNCHANGED <<trajectory, batch, failures>> /\ Goto(r, "done")
    /\ UNCHANGED <<tables, snapshot, webview, entry, clone>>

\* Echo the message and emit, then ask the provider, which may refuse.
PromptEcho(r) ==
    /\ At(r, "echo")
    /\ Project(r, Mine(r).live)
    /\ Emit(entry[r], snapshot'[entry[r]])
    /\ Goto(r, "allocating") \/ Goto(r, "done")
    /\ UNCHANGED <<tables, trajectory, entry, batch, clone, failures>>

\* RunStarted is projected before its append, so that Stop works meanwhile.
PromptStarted(r) ==
    /\ At(r, "allocating") /\ Unlocked(r)
    /\ \/ /\ snapshot' = [snapshot EXCEPT ![entry[r]].live = @ \cup {r}]
          /\ Remember(r) /\ Goto(r, "show")
       \/ UNCHANGED <<snapshot, clone>> /\ Goto(r, "done")
    /\ UNCHANGED <<tables, trajectory, webview, entry, batch, failures>>

PromptShow(r) ==
    /\ At(r, "show") /\ Show(r) /\ Goto(r, "append")
    /\ UNCHANGED <<tables, snapshot, trajectory, entry, batch, clone, failures>>

PromptAppend(r) ==
    /\ At(r, "append")
    /\ \/ /\ Journal(r, "started", {r})
          /\ snapshot' = [snapshot EXCEPT ![entry[r]].applied = @ \cup {batch'[r]}]
          /\ Goto(r, "mark")
       \/ JournalFails /\ UNCHANGED snapshot /\ Goto(r, "eof")
    /\ UNCHANGED <<tables, webview, entry, clone>>

PromptMark(r) ==
    /\ At(r, "mark") /\ Unlocked(r)
    /\ snapshot' = [snapshot EXCEPT ![entry[r]].checkpoint = batch[r]]
    /\ Remember(r) /\ Goto(r, "spawn")
    /\ UNCHANGED <<tables, trajectory, webview, entry, batch, failures>>

PromptSpawn(r) ==
    /\ At(r, "spawn") /\ Show(r) /\ Goto(r, "stream")
    /\ UNCHANGED <<tables, snapshot, trajectory, entry, batch, clone, failures>>

-----------------------------------------------------------------------------
(* drain_provider_stream                                                   *)

ContentSent == Cardinality({n \in DOMAIN trajectory : trajectory[n].kind = "content"})

\* Mutated form: the entry is not checked again once the gate is held.
DrainBatchUnchecked(r) ==
    /\ At(r, "stream") /\ Ungated(r)
    /\ gate' = Take(gate, r)
    /\ (ContentSent < MaxContent /\ Goto(r, "content")) \/ Goto(r, "finished")
    /\ UNCHANGED <<current, entries, closing, lock, snapshot, trajectory, webview,
                   entry, batch, clone, failures>>

\* A batch arrives: take the gate and check that the entry is still current
\* and not closing.
DrainBatch(r) ==
    /\ At(r, "stream") /\ Ungated(r)
    /\ IF Stale(r)
       THEN Goto(r, "done") /\ UNCHANGED gate
       ELSE /\ gate' = Take(gate, r)
            /\ \/ ContentSent < MaxContent /\ Goto(r, "content")
               \/ Goto(r, "finished")
    /\ UNCHANGED <<current, entries, closing, lock, snapshot, trajectory, webview,
                   entry, batch, clone, failures>>

\* Write ahead; a failed append cancels the run and seals it.
DrainAppend(r) ==
    /\ pc[r] \in {"content", "finished"}
    /\ \/ Journal(r, pc[r], {r})
          /\ Goto(r, IF pc[r] = "content" THEN "applyContent" ELSE "applyFinished")
       \/ JournalFails /\ Goto(r, "seal")
    /\ UNCHANGED <<tables, snapshot, webview, entry, clone>>

DrainApply(r) ==
    /\ \/ At(r, "applyContent") /\ Project(r, Mine(r).live) /\ Goto(r, "showContent")
       \/ At(r, "applyFinished") /\ Project(r, Mine(r).live \ {r}) /\ Goto(r, "showLast")
    /\ Remember(r)
    /\ UNCHANGED <<tables, trajectory, webview, entry, batch, failures>>

DrainShow(r) ==
    /\ \/ At(r, "showContent") /\ Goto(r, "stream")
       \/ At(r, "showLast") /\ Goto(r, "done")
    /\ Show(r)
    /\ gate' = Drop(gate, r)
    /\ UNCHANGED <<current, entries, closing, lock, snapshot, trajectory, entry, batch,
                   clone, failures>>

\* The stream ends without RunFinished, or polling it panics.
StreamEnds(r) ==
    /\ At(r, "stream") /\ Goto(r, "eof")
    /\ UNCHANGED <<tables, snapshot, trajectory, webview, entry, batch, clone, failures>>

-----------------------------------------------------------------------------
(* seal_current_provider_run, seal_interrupted_provider_run                *)

SealGate(r) ==
    /\ At(r, "eof") /\ Ungated(r)
    /\ IF Stale(r)
       THEN Goto(r, "done") /\ UNCHANGED gate
       ELSE Goto(r, "seal") /\ gate' = Take(gate, r)
    /\ UNCHANGED <<current, entries, closing, lock, snapshot, trajectory, webview,
                   entry, batch, clone, failures>>

\* The terminal transition is appended if it can be, and projected either way.
SealAppend(r) ==
    /\ At(r, "seal") /\ Unlocked(r)
    /\ IF r \in Mine(r).live
       THEN /\ \/ Journal(r, "sealed", {r}) /\ Goto(r, "applySealed")
               \/ JournalFails /\ Goto(r, "applyUnsaved")
            /\ UNCHANGED gate
       ELSE Goto(r, "done") /\ gate' = Drop(gate, r) /\ UNCHANGED <<trajectory, batch, failures>>
    /\ UNCHANGED <<current, entries, closing, lock, snapshot, webview, entry, clone>>

\* Mutated form: a terminal that could not be saved is not projected.
SealApplySaved(r) ==
    /\ \/ At(r, "applySealed") /\ Project(r, Mine(r).live \ {r})
       \/ At(r, "applyUnsaved") /\ Unlocked(r) /\ UNCHANGED snapshot
    /\ Remember(r) /\ Goto(r, "showLast")
    /\ UNCHANGED <<tables, trajectory, webview, entry, batch, failures>>

SealApply(r) ==
    /\ \/ At(r, "applySealed") /\ Project(r, Mine(r).live \ {r})
       \/ /\ At(r, "applyUnsaved") /\ Unlocked(r)
          /\ snapshot' = [snapshot EXCEPT ![entry[r]].live = @ \ {r}]
    /\ Remember(r) /\ Goto(r, "showLast")
    /\ UNCHANGED <<tables, trajectory, webview, entry, batch, failures>>

-----------------------------------------------------------------------------
(* steer                                                                   *)

SteerCapture ==
    /\ Capture(Steer) /\ Goto(Steer, "lock")
    /\ UNCHANGED <<tables, snapshot, trajectory, webview, batch, clone, failures>>

\* The provider has a run of this session that has not ended.
Steerable ==
    \E r \in Runs : /\ entry[r] = entry[Steer]
                    /\ pc[r] \in {"allocating", "show", "append", "mark", "spawn", "stream",
                                 "content", "applyContent", "showContent"}

\* The provider accepts the message, or there is no live run to steer.
SteerLock ==
    /\ At(Steer, "lock") /\ Unlocked(Steer)
    /\ \/ Steerable /\ lock' = Take(lock, Steer) /\ Goto(Steer, "append")
       \/ UNCHANGED lock /\ Goto(Steer, "done")
    /\ UNCHANGED <<current, entries, closing, gate, snapshot, trajectory, webview, entry,
                   batch, clone, failures>>

SteerAppend ==
    /\ At(Steer, "append")
    /\ \/ Journal(Steer, "steer", {}) /\ Goto(Steer, "apply") /\ UNCHANGED lock
       \/ JournalFails /\ Goto(Steer, "done") /\ lock' = Drop(lock, Steer)
    /\ UNCHANGED <<current, entries, closing, gate, snapshot, webview, entry, clone>>

SteerApply ==
    /\ At(Steer, "apply") /\ Goto(Steer, "done")
    /\ snapshot' = [snapshot EXCEPT ![entry[Steer]] =
           [@ EXCEPT !.applied = Mine(Steer).applied \cup {batch[Steer]},
                     !.checkpoint = batch[Steer]]]
    /\ Emit(entry[Steer], snapshot'[entry[Steer]])
    /\ lock' = Drop(lock, Steer)
    /\ UNCHANGED <<current, entries, closing, gate, trajectory, entry, batch, clone, failures>>

-----------------------------------------------------------------------------
(* session_close                                                           *)

CloseCapture ==
    /\ Capture(Close) /\ Goto(Close, "gate")
    /\ UNCHANGED <<tables, snapshot, trajectory, webview, batch, clone, failures>>

\* Mutated form: the close does not wait for a projection in flight.
CloseUngated ==
    /\ At(Close, "gate")
    /\ Goto(Close, IF current # entry[Close] THEN "done" ELSE "interrupt")
    /\ UNCHANGED <<tables, snapshot, trajectory, webview, entry, batch, clone, failures>>

CloseGate ==
    /\ At(Close, "gate") /\ Ungated(Close)
    /\ IF current # entry[Close]
       THEN Goto(Close, "done") /\ UNCHANGED gate
       ELSE Goto(Close, "interrupt") /\ gate' = Take(gate, Close)
    /\ UNCHANGED <<current, entries, closing, lock, snapshot, trajectory, webview, entry,
                   batch, clone, failures>>

\* closing, and interrupt_live_runs on the live snapshot, in one section.  The
\* batch that is owed is what the clone still shows as live.
CloseInterrupt ==
    /\ At(Close, "interrupt") /\ Unlocked(Close)
    /\ closing' = [closing EXCEPT ![entry[Close]] = TRUE]
    /\ clone' = [clone EXCEPT ![Close] = Mine(Close)]
    /\ snapshot' = [snapshot EXCEPT ![entry[Close]].live = {}]
    /\ Goto(Close, IF Mine(Close).live = {} THEN "remove" ELSE "append")
    /\ UNCHANGED <<current, entries, gate, lock, trajectory, webview, entry, batch, failures>>

CloseAppend ==
    /\ At(Close, "append")
    /\ \/ /\ Journal(Close, "closed", clone[Close].live)
          /\ snapshot' = [snapshot EXCEPT ![entry[Close]].applied = @ \cup {batch'[Close]}]
          /\ Goto(Close, "mark") /\ UNCHANGED webview
       \/ /\ JournalFails /\ UNCHANGED snapshot
          /\ Emit(entry[Close], [clone[Close] EXCEPT !.live = {}])
          /\ Goto(Close, "remove")
    /\ UNCHANGED <<tables, entry, clone>>

CloseMark ==
    /\ At(Close, "mark") /\ Unlocked(Close)
    /\ snapshot' = [snapshot EXCEPT ![entry[Close]].checkpoint = batch[Close]]
    /\ Remember(Close) /\ Goto(Close, "show")
    /\ UNCHANGED <<tables, trajectory, webview, entry, batch, failures>>

CloseShow ==
    /\ At(Close, "show") /\ Show(Close) /\ Goto(Close, "remove")
    /\ UNCHANGED <<tables, snapshot, trajectory, entry, batch, clone, failures>>

\* close_session of the provider, then remove_current_session_if_same.
CloseRemove ==
    /\ At(Close, "remove") /\ Unlocked(Close)
    /\ current' = IF current = entry[Close] THEN None ELSE current
    /\ gate' = Drop(gate, Close)
    /\ Goto(Close, "done")
    /\ UNCHANGED <<entries, closing, lock, snapshot, trajectory, webview, entry, batch,
                   clone, failures>>

-----------------------------------------------------------------------------
(* register_session: a reopen replaces the entry and announces it          *)

Rebind ==
    /\ At(Open, "idle") /\ entries < MaxEntries
    /\ entries' = entries + 1
    /\ current' = entries + 1
    /\ Goto(Open, "announce")
    /\ UNCHANGED <<closing, gate, lock, snapshot, trajectory, webview, entry, batch,
                   clone, failures>>

\* After the displaced provider has been closed under its entry's lock.
Announce ==
    /\ At(Open, "announce") /\ lock[entries - 1] = Free
    /\ Emit(entries, Clean)
    /\ Goto(Open, "idle")
    /\ UNCHANGED <<tables, snapshot, trajectory, entry, batch, clone, failures>>

-----------------------------------------------------------------------------
Prompt(r) == \/ PromptCapture(r) \/ PromptAdmit(r) \/ PromptEcho(r) \/ PromptStarted(r)
             \/ PromptShow(r) \/ PromptAppend(r) \/ PromptMark(r) \/ PromptSpawn(r)
Drain(r)  == \/ DrainBatch(r) \/ DrainAppend(r) \/ DrainApply(r) \/ DrainShow(r)
             \/ StreamEnds(r) \/ SealGate(r) \/ SealAppend(r) \/ SealApply(r)
Steering  == SteerCapture \/ SteerLock \/ SteerAppend \/ SteerApply
Closing   == \/ CloseCapture \/ CloseGate \/ CloseInterrupt \/ CloseAppend
             \/ CloseMark \/ CloseShow \/ CloseRemove
Opening   == Rebind \/ Announce

ProjectionNext == (\E r \in Runs : Prompt(r) \/ Drain(r)) \/ Steering \/ Closing \/ Opening

ProjectionSpec == ProjectionInit /\ [][ProjectionNext]_projection

\* A task that has started runs on: the runtime polls it and tokio's mutexes
\* are fair queues.  That anyone prompts, steers, closes or reopens, and that a
\* provider sends anything, is not assumed.
ProjectionFairness ==
    /\ \A r \in Runs : SF_projection(Drain(r) /\ ~At(r, "stream"))
    /\ SF_projection(Steering /\ ~At(Steer, "idle"))
    /\ SF_projection(Closing /\ ~At(Close, "idle"))
FairProjectionSpec == ProjectionSpec /\ ProjectionFairness

-----------------------------------------------------------------------------
(* Properties                                                              *)

\* The terminal batch of a run is the last one of its drain: no provider event
\* and no second terminal follows it in the trajectory, whether the provider,
\* the seal or the close wrote it.
RunEndsOnce ==
    \A s, t \in DOMAIN trajectory :
        (s < t /\ trajectory[s].kind \in Terminals)
          => trajectory[s].runs \cap trajectory[t].runs = {}
             \/ trajectory[t].kind = "started"

\* "a late cancellation event cannot reopen the snapshot after its terminal
\* transition" (provider_stream.rs): once the close has interrupted the live
\* runs of an entry, no drain or seal appends for that entry.
ClosedToDrains ==
    [][\A e \in Entries :
          (closing[e] /\ trajectory' # trajectory)
            => LET last == trajectory'[Len(trajectory')]
               IN last.entry = e => last.kind \notin {"content", "finished", "sealed"}]_projection

\* "the in-memory projection still settles so Stop does not remain permanently
\* armed" (provider_stream.rs): a run whose stream broke stops being live in
\* the snapshot, or its entry is no longer the one that is shown.
StopDisarmed ==
    \A r \in Runs : At(r, "eof") ~> (entry[r] # None /\ (r \notin Mine(r).live \/ Stale(r)))
=============================================================================
