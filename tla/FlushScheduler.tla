---------------------------- MODULE FlushScheduler ----------------------------
(***************************************************************************)
(* The background delivery of one CloudTrajectoryClient                    *)
(* (src/src-tauri/src/trajectory.rs): append enqueues a batch and triggers *)
(* a flush; flush_scheduled admits one task at a time to the queue of      *)
(* flush_lock; a flush that fails arms one retry timer.  The atomics, the  *)
(* lock and every SQLite read or write are steps of their own.             *)
(*                                                                         *)
(* flush_retry_attempt only chooses the timer's delay and is left out.     *)
(***************************************************************************)
EXTENDS Integers, FiniteSets

CONSTANTS MaxSeq,        \* bound on the batches appended
          PendingLimit,  \* the LIMIT of pending_sync
          MaxFaults,     \* bound on requests and acknowledgements that fail
          MaxReadErrors, \* bound on reads of the pending batches that fail
          MaxStops       \* bound on deliveries that end without a retry

ASSUME SchedulerBounds ==
    /\ MaxSeq \in Nat /\ PendingLimit \in Nat \ {0}
    /\ MaxFaults \in Nat /\ MaxReadErrors \in Nat /\ MaxStops \in Nat

VARIABLES
    lastSeq, unacked,  \* the outbox
    owed,              \* appends that have enqueued and not yet triggered
    scheduled,         \* flush_scheduled
    queued,            \* spawned tasks that wait for flush_lock
    task,              \* the task that holds flush_lock, or NoTask
    retryScheduled,    \* flush_retry_scheduled: a timer sleeps
    checking,          \* timers that have woken and not yet looked
    delivered,         \* the batches the cloud holds
    faults, readErrors, stops

outbox   == <<lastSeq, unacked>>
flags    == <<scheduled, queued>>
timers   == <<retryScheduled, checking>>
counters == <<faults, readErrors, stops>>
vars     == <<outbox, owed, flags, task, timers, delivered, counters>>

Seqs   == 1..lastSeq
Stages == {"read", "next", "send", "refresh", "ack", "clear", "recheck", "retry"}
Results == {"ok", "deferred", "stopped"}
LastAttempt == 5     \* six delays in deliver
NoTask == [stage |-> "none"]

Init ==
    /\ lastSeq = 0 /\ unacked = {} /\ delivered = {}
    /\ owed = 0 /\ scheduled = FALSE /\ queued = 0 /\ task = NoTask
    /\ retryScheduled = FALSE /\ checking = 0
    /\ faults = 0 /\ readErrors = 0 /\ stops = 0

-----------------------------------------------------------------------------
(* append and trigger_flush                                                *)

Enqueue ==
    /\ lastSeq < MaxSeq
    /\ lastSeq' = lastSeq + 1
    /\ unacked' = unacked \cup {lastSeq + 1}
    /\ owed' = owed + 1
    /\ UNCHANGED <<flags, task, timers, delivered, counters>>

\* Mutated form: the flag is set without looking at what it was.
TriggerAlways == scheduled' = TRUE /\ queued' = queued + 1

\* flush_scheduled.swap(true), and a task unless it was set.
Trigger ==
    IF scheduled THEN UNCHANGED flags
    ELSE scheduled' = TRUE /\ queued' = queued + 1

AppendTriggers ==
    /\ owed > 0
    /\ owed' = owed - 1
    /\ Trigger
    /\ UNCHANGED <<outbox, task, timers, delivered, counters>>

-----------------------------------------------------------------------------
(* The flush task                                                          *)

AcquireLock ==
    /\ queued > 0 /\ task = NoTask
    /\ queued' = queued - 1
    /\ task' = [stage |-> "read", todo |-> {}, sending |-> {}, attempt |-> 0,
                refreshed |-> FALSE, result |-> "ok"]
    /\ UNCHANGED <<outbox, owed, scheduled, timers, delivered, counters>>

Fails(count, bound) == count < bound
Stop(result) == task' = [task EXCEPT !.stage = "clear", !.result = result]

\* Mutated form: the newest batches come first.
NewestFirst(S) == {s \in S : Cardinality({q \in S : q >= s}) <= PendingLimit}

\* ORDER BY local_seq LIMIT
Oldest(S) == {s \in S : Cardinality({q \in S : q <= s}) <= PendingLimit}

\* flush_pending: the batches it will deliver are those of one read.
ReadPending ==
    /\ task.stage = "read"
    /\ \/ task' = [task EXCEPT !.stage = "next", !.todo = Oldest(unacked)]
          /\ UNCHANGED readErrors
       \/ Fails(readErrors, MaxReadErrors) /\ readErrors' = readErrors + 1
          /\ Stop("deferred")
    /\ UNCHANGED <<outbox, owed, flags, timers, delivered, faults, stops>>

\* coalesce_pending_batches: the next delivery is a prefix of what is left.
NextDelivery ==
    /\ task.stage = "next"
    /\ IF task.todo = {} THEN Stop("ok")
       ELSE \E s \in task.todo :
               task' = [task EXCEPT !.stage = "send", !.attempt = 0, !.refreshed = FALSE,
                                    !.sending = {q \in task.todo : q <= s}]
    /\ UNCHANGED <<outbox, owed, flags, timers, delivered, counters>>

\* deliver: the cloud takes the delivery and says so.
Sent ==
    /\ task.stage = "send"
    /\ delivered' = delivered \cup task.sending
    /\ task' = [task EXCEPT !.stage = "ack"]
    /\ UNCHANGED <<outbox, owed, flags, timers, counters>>

\* Unavailable: the short prefix of the schedule, or all of it after a refresh.
\* The cloud may have taken the delivery before the answer was lost.
Unavailable ==
    /\ task.stage = "send" /\ Fails(faults, MaxFaults) /\ faults' = faults + 1
    /\ IF task.attempt = LastAttempt \/ (task.attempt = 2 /\ ~task.refreshed)
       THEN Stop("deferred")
       ELSE task' = [task EXCEPT !.attempt = @ + 1]
    /\ delivered' \in {delivered, delivered \cup task.sending}
    /\ UNCHANGED <<outbox, owed, flags, timers, readErrors, stops>>

\* Unauthorized: ask for one refresh and wait for the account generation.
Unauthorized ==
    /\ task.stage = "send" /\ Fails(faults, MaxFaults) /\ faults' = faults + 1
    /\ IF task.refreshed THEN Stop("deferred")
       ELSE task' = [task EXCEPT !.stage = "refresh", !.refreshed = TRUE]
    /\ UNCHANGED <<outbox, owed, flags, timers, delivered, readErrors, stops>>

\* The generation changed, or AUTH_REFRESH_WAIT ran out.
Refreshed ==
    /\ task.stage = "refresh"
    /\ \/ IF task.attempt = LastAttempt THEN Stop("deferred")
          ELSE task' = [task EXCEPT !.stage = "send", !.attempt = @ + 1]
       \/ Stop("deferred")
    /\ UNCHANGED <<outbox, owed, flags, timers, delivered, counters>>

\* Conflict or Rejected: the flush is deferred at once.
Rejected ==
    /\ task.stage = "send" /\ Fails(faults, MaxFaults) /\ faults' = faults + 1
    /\ Stop("deferred")
    /\ UNCHANGED <<outbox, owed, flags, timers, delivered, readErrors, stops>>

\* cloud_deleted or cloud_account_changed: nobody schedules a retry.
GivenUp ==
    /\ task.stage = "send" /\ Fails(stops, MaxStops) /\ stops' = stops + 1
    /\ Stop("stopped")
    /\ UNCHANGED <<outbox, owed, flags, timers, delivered, faults, readErrors>>

\* Mutated form: the whole read is acknowledged after its first delivery.
AcknowledgeAll ==
    /\ task.stage = "ack"
    /\ unacked' = unacked \ task.todo
    /\ task' = [task EXCEPT !.stage = "next", !.todo = {}]
    /\ UNCHANGED <<lastSeq, owed, flags, timers, delivered, counters>>

\* acknowledge_many
Acknowledge ==
    /\ task.stage = "ack"
    /\ \/ /\ unacked' = unacked \ task.sending
          /\ task' = [task EXCEPT !.stage = "next", !.todo = @ \ task.sending]
          /\ UNCHANGED faults
       \/ /\ Fails(faults, MaxFaults) /\ faults' = faults + 1
          /\ Stop("deferred") /\ UNCHANGED unacked
    /\ UNCHANGED <<lastSeq, owed, flags, timers, delivered, readErrors, stops>>

\* flush_scheduled.store(false), before anything else is looked at.
ClearScheduled ==
    /\ task.stage = "clear"
    /\ scheduled' = FALSE
    /\ task' = CASE task.result = "ok"       -> [task EXCEPT !.stage = "recheck"]
                 [] task.result = "deferred" -> [task EXCEPT !.stage = "retry"]
                 [] task.result = "stopped"  -> NoTask
    /\ UNCHANGED <<outbox, owed, queued, timers, delivered, counters>>

\* What the outbox says now; a failed read counts as nothing pending.
Pending(found) ==
    \/ found = (unacked # {}) /\ UNCHANGED readErrors
    \/ ~found /\ Fails(readErrors, MaxReadErrors) /\ readErrors' = readErrors + 1

\* Mutated form: a flush that succeeded does not look again.
RecheckNothing ==
    /\ task.stage = "recheck" /\ task' = NoTask
    /\ UNCHANGED <<outbox, owed, flags, timers, delivered, counters>>

\* A batch appended while the flush ran triggers the next one.
Recheck ==
    /\ task.stage = "recheck"
    /\ \E found \in BOOLEAN :
          Pending(found) /\ IF found THEN Trigger ELSE UNCHANGED flags
    /\ task' = NoTask
    /\ UNCHANGED <<outbox, owed, timers, delivered, faults, stops>>

\* Mutated form: a delivery that failed is left to the next append.
ScheduleNoRetry ==
    /\ task.stage = "retry" /\ task' = NoTask
    /\ UNCHANGED <<outbox, owed, flags, timers, delivered, counters>>

\* schedule_flush_retry
ScheduleRetry ==
    /\ task.stage = "retry"
    /\ retryScheduled' = TRUE
    /\ task' = NoTask
    /\ UNCHANGED <<outbox, owed, flags, checking, delivered, counters>>

-----------------------------------------------------------------------------
(* The retry timer                                                         *)

TimerWakes ==
    /\ retryScheduled
    /\ retryScheduled' = FALSE
    /\ checking' = checking + 1
    /\ UNCHANGED <<outbox, owed, flags, task, delivered, counters>>

TimerChecks ==
    /\ checking > 0
    /\ checking' = checking - 1
    /\ \E found \in BOOLEAN :
          Pending(found) /\ IF found THEN Trigger ELSE UNCHANGED flags
    /\ UNCHANGED <<outbox, owed, task, retryScheduled, delivered, faults, stops>>

-----------------------------------------------------------------------------
Flush == \/ AcquireLock \/ ReadPending \/ NextDelivery \/ Sent \/ Unavailable \/ Unauthorized
         \/ Refreshed \/ Rejected \/ GivenUp \/ Acknowledge \/ ClearScheduled
         \/ Recheck \/ ScheduleRetry
Timer == TimerWakes \/ TimerChecks

Next == Enqueue \/ AppendTriggers \/ Flush \/ Timer

Spec == Init /\ [][Next]_vars

\* Spawned tasks are polled, sleeps end, the lock is handed over.  Nothing
\* makes anyone append again, and every fault is counted.
Fairness == WF_vars(AppendTriggers) /\ WF_vars(Flush) /\ WF_vars(TimerWakes) /\ WF_vars(TimerChecks)
FairSpec == Spec /\ Fairness

-----------------------------------------------------------------------------
(* Properties                                                              *)

Task == [stage : Stages, todo : SUBSET Seqs, sending : SUBSET Seqs, attempt : 0..LastAttempt,
         refreshed : BOOLEAN, result : Results]

\* At most one task waits for the lock, whoever triggers.
TypeOK ==
    /\ lastSeq \in 0..MaxSeq /\ unacked \subseteq Seqs /\ delivered \subseteq Seqs
    /\ owed \in 0..MaxSeq
    /\ scheduled \in BOOLEAN /\ queued \in 0..1
    /\ task \in Task \cup {NoTask}
    /\ retryScheduled \in BOOLEAN /\ checking \in Nat
    /\ faults \in 0..MaxFaults /\ readErrors \in 0..MaxReadErrors /\ stops \in 0..MaxStops

\* A batch leaves the pending set only when the cloud holds it.
AcknowledgedDelivered == Seqs \ unacked \subseteq delivered

\* No lost wakeup: while a batch is pending, some append, task or timer has yet
\* to look at the outbox, unless a delivery ended in a way that is not retried
\* or the outbox could not be read.
Tended ==
    (unacked # {} /\ stops = 0 /\ readErrors = 0)
      => owed > 0 \/ queued > 0 \/ task # NoTask \/ retryScheduled \/ checking > 0

\* A batch is delivered once the faults end, though nobody appends again,
\* unless a delivery ended in a way that is not retried or a read failed.
EventuallyDelivered ==
    \A s \in 1..MaxSeq : s \in unacked ~> (s \notin unacked \/ stops > 0 \/ readErrors > 0)

\* To the host, the scheduler is a log that is delivered in order: the limit of
\* a read, the split into deliveries, lost answers and retries never let the
\* cloud hold a batch without the ones before it, or the device forget one that
\* the cloud does not hold (pending_sync, flush_pending, acknowledge_many).
Ordered == INSTANCE OrderedDelivery WITH accepted <- lastSeq, owed <- unacked,
                                         held <- delivered
DeliveredInOrder == Ordered!Spec
=============================================================================
