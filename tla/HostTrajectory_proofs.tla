----------------------- MODULE HostTrajectory_proofs ------------------------
(***************************************************************************)
(* Proofs about the native host's two sides of a trajectory: the flush     *)
(* scheduler that delivers it to the cloud, for every number of batches,   *)
(* every limit of a read and every number of faults; and the projection    *)
(* of a conversation into it and into the WebView, for every set of runs   *)
(* and every number of entries, batches and failed appends.  The two       *)
(* components share no variable, and no argument uses both.                *)
(***************************************************************************)
EXTENDS FlushScheduler, SessionProjection, SequenceTheorems, FiniteSetTheorems, TLAPS

-----------------------------------------------------------------------------
(*                          The flush scheduler                            *)

\* The stages between taking flush_lock and clearing flush_scheduled.
Holding == {"read", "next", "send", "refresh", "ack", "clear"}
Delivering == {"send", "refresh", "ack"}

\* flush_scheduled is up exactly while one task is on its way to its flush.
FlagExact == scheduled <=> (queued = 1 \/ task.stage \in Holding)
OnePending == queued = 1 => task.stage \notin Holding

TypeInv == TypeOK /\ FlagExact /\ OnePending /\ owed <= lastSeq

-----------------------------------------------------------------------------
(* Types and the flag                                                      *)

\* A trigger keeps the flag exact in every state of the task.
LEMMA TriggerKeepsFlag ==
    ASSUME scheduled \in BOOLEAN, queued \in 0..1, FlagExact, OnePending,
           task'.stage \in Holding <=> task.stage \in Holding, Trigger
    PROVE  scheduled' \in BOOLEAN /\ queued' \in 0..1 /\ FlagExact' /\ OnePending'
<1>1. CASE scheduled
  BY <1>1 DEF Trigger, flags, FlagExact, OnePending
<1>2. CASE ~scheduled
  <2>1. queued = 0 /\ task.stage \notin Holding
    BY <1>2 DEF FlagExact
  <2>2. scheduled' = TRUE /\ queued' = 1
    BY <1>2, <2>1 DEF Trigger
  <2> QED
    BY <2>1, <2>2 DEF FlagExact, OnePending
<1> QED
  BY <1>1, <1>2

\* So does a step that moves the task within or without the flush.
LEMMA StageKeepsFlag ==
    ASSUME FlagExact, OnePending, scheduled' = scheduled, queued' = queued,
           task'.stage \in Holding <=> task.stage \in Holding
    PROVE  FlagExact' /\ OnePending'
  BY DEF FlagExact, OnePending

\* A stage of its own means that the task is one that holds flush_lock.
LEMMA TaskHere ==
    ASSUME task \in Task \cup {NoTask}, task.stage \in Stages
    PROVE  task \in Task
  BY DEF NoTask, Stages

LEMMA InitTypeInv == Init => TypeInv
<1> SUFFICES ASSUME Init PROVE TypeInv
  OBVIOUS
<1>1. task.stage \notin Holding /\ task = NoTask
  BY DEF Init, NoTask, Holding
<1>2. FlagExact /\ OnePending
  BY <1>1 DEF Init, FlagExact, OnePending
<1>3. scheduled \in BOOLEAN /\ retryScheduled \in BOOLEAN
  BY DEF Init
<1>4. TypeOK /\ owed <= lastSeq
  BY <1>1, <1>3, SchedulerBounds DEF Init, TypeOK, Seqs
<1> QED
  BY <1>2, <1>4 DEF TypeInv

LEMMA NextTypeInv == TypeInv /\ [Next]_vars => TypeInv'
<1> SUFFICES ASSUME TypeInv, [Next]_vars PROVE TypeInv'
  OBVIOUS
<1> USE SchedulerBounds
<1>t. TypeOK /\ FlagExact /\ OnePending /\ owed <= lastSeq
  BY DEF TypeInv
<1>1. CASE Enqueue
  <2>1. FlagExact' /\ OnePending'
    BY <1>1, <1>t, StageKeepsFlag DEF Enqueue, flags
  <2>2. TypeOK' /\ owed' <= lastSeq'
    BY <1>1, <1>t DEF Enqueue, TypeOK, Seqs, Task, flags, timers, counters
  <2> QED
    BY <2>1, <2>2 DEF TypeInv
<1>2. CASE AppendTriggers
  <2>1. FlagExact' /\ OnePending' /\ scheduled' \in BOOLEAN /\ queued' \in 0..1
    BY <1>2, <1>t, TriggerKeepsFlag DEF AppendTriggers, TypeOK
  <2>2. TypeOK' /\ owed' <= lastSeq'
    BY <1>2, <1>t, <2>1 DEF AppendTriggers, TypeOK, Seqs, Task, outbox, timers, counters
  <2> QED
    BY <2>1, <2>2 DEF TypeInv
<1>3. CASE AcquireLock
  <2>1. task' \in Task /\ task'.stage \in Holding
    BY <1>3 DEF AcquireLock, Task, Stages, Results, LastAttempt, Holding
  <2>2. queued = 1 /\ queued' = 0 /\ scheduled' = scheduled
    BY <1>3, <1>t DEF AcquireLock, TypeOK
  <2>3. FlagExact' /\ OnePending'
    BY <1>t, <2>1, <2>2 DEF FlagExact, OnePending
  <2>4. TypeOK' /\ owed' <= lastSeq'
    BY <1>3, <1>t, <2>1, <2>2 DEF AcquireLock, TypeOK, Seqs, Task, outbox, timers, counters
  <2> QED
    BY <2>3, <2>4 DEF TypeInv
<1>4. CASE ReadPending
  <2>1. task.stage = "read"
    BY <1>4 DEF ReadPending
  <2>2. task \in Task
    BY <1>t, <2>1, TaskHere DEF TypeOK, Stages
  <2>3. task' \in Task
    BY <1>4, <1>t, <2>2, ZenonT(60) DEF ReadPending, TypeOK, Task, Stages, Results, LastAttempt, Stop, Oldest
  <2>4. task'.stage \in Holding
    BY <1>4, <2>2 DEF ReadPending, Task, Holding, Stop, Oldest
  <2>5. FlagExact' /\ OnePending'
    BY <1>4, <1>t, <2>1, <2>4, StageKeepsFlag DEF ReadPending, flags, Holding
  <2>6. TypeOK' /\ owed' <= lastSeq'
    BY <1>4, <1>t, <2>3 DEF ReadPending, TypeOK, Task, Seqs, outbox, flags, timers, Fails
  <2> QED
    BY <2>5, <2>6 DEF TypeInv
<1>5. CASE NextDelivery
  <2>1. task.stage = "next"
    BY <1>5 DEF NextDelivery
  <2>2. task \in Task
    BY <1>t, <2>1, TaskHere DEF TypeOK, Stages
  <2>3. task' \in Task
    <3>1. CASE task.todo = {}
      BY <1>5, <2>2, <3>1 DEF NextDelivery, Stop, Task, Stages, Results
    <3>2. CASE task.todo # {}
      <4>1. PICK s \in task.todo :
               task' = [task EXCEPT !.stage = "send", !.attempt = 0, !.refreshed = FALSE,
                                    !.sending = {q \in task.todo : q <= s}]
        BY <1>5, <3>2 DEF NextDelivery
      <4>2. {q \in task.todo : q <= s} \in SUBSET Seqs /\ 0 \in 0..LastAttempt
        BY <2>2 DEF Task, LastAttempt
      <4>3. task' \in [stage : Stages, todo : SUBSET Seqs, sending : SUBSET Seqs,
                       attempt : 0..LastAttempt, refreshed : BOOLEAN, result : Results]
        BY <2>2, <4>1, <4>2 DEF Task, Stages
      <4> QED
        BY <1>5, <4>3 DEF NextDelivery, outbox, Task, Seqs
    <3> QED
      BY <3>1, <3>2
  <2>4. task'.stage \in Holding
    BY <1>5, <2>2 DEF NextDelivery, Task, Holding, Stop
  <2>5. FlagExact' /\ OnePending'
    BY <1>5, <1>t, <2>1, <2>4, StageKeepsFlag DEF NextDelivery, flags, Holding
  <2>6. TypeOK' /\ owed' <= lastSeq'
    BY <1>5, <1>t, <2>3 DEF NextDelivery, TypeOK, Task, Seqs, outbox, flags, timers, counters
  <2> QED
    BY <2>5, <2>6 DEF TypeInv
<1>6. CASE Sent
  <2>1. task.stage = "send"
    BY <1>6 DEF Sent
  <2>2. task \in Task
    BY <1>t, <2>1, TaskHere DEF TypeOK, Stages
  <2>3. task' \in Task
    BY <1>6, <1>t, <2>2 DEF Sent, TypeOK, Task, Stages, Results, LastAttempt
  <2>4. task'.stage \in Holding
    BY <1>6, <2>2 DEF Sent, Task, Holding
  <2>5. FlagExact' /\ OnePending'
    BY <1>6, <1>t, <2>1, <2>4, StageKeepsFlag DEF Sent, flags, Holding
  <2>6. TypeOK' /\ owed' <= lastSeq'
    BY <1>6, <1>t, <2>3 DEF Sent, TypeOK, Task, Seqs, outbox, flags, timers, counters
  <2> QED
    BY <2>5, <2>6 DEF TypeInv
<1>7. CASE Unavailable
  <2>1. task.stage = "send"
    BY <1>7 DEF Unavailable
  <2>2. task \in Task
    BY <1>t, <2>1, TaskHere DEF TypeOK, Stages
  <2>3. task' \in Task
    <3>1. CASE task' = [task EXCEPT !.stage = "clear", !.result = "deferred"]
      BY <1>7, <2>2, <3>1 DEF Unavailable, Task, Stages, Results, Seqs, outbox
    <3>2. CASE task.attempt # LastAttempt /\ task' = [task EXCEPT !.attempt = @ + 1]
      BY <1>7, <2>2, <3>2 DEF Unavailable, Task, LastAttempt, Seqs, outbox
    <3> QED
      BY <1>7, <3>1, <3>2 DEF Unavailable, Stop
  <2>4. task'.stage \in Holding
    BY <1>7, <2>2 DEF Unavailable, Task, Holding, Stop
  <2>5. FlagExact' /\ OnePending'
    BY <1>7, <1>t, <2>1, <2>4, StageKeepsFlag DEF Unavailable, flags, Holding
  <2>6. TypeOK' /\ owed' <= lastSeq'
    <3>1. delivered' \subseteq Seqs'
      BY <1>7, <1>t, <2>2 DEF Unavailable, TypeOK, Task, Seqs, outbox
    <3>2. scheduled' \in BOOLEAN /\ retryScheduled' \in BOOLEAN
      BY <1>7, <1>t DEF Unavailable, TypeOK, flags, timers
    <3> QED
      BY <1>7, <1>t, <2>3, <3>1, <3>2 DEF Unavailable, TypeOK, Task, Seqs, outbox, flags, timers, Fails
  <2> QED
    BY <2>5, <2>6 DEF TypeInv
<1>8. CASE Unauthorized
  <2>1. task.stage = "send"
    BY <1>8 DEF Unauthorized
  <2>2. task \in Task
    BY <1>t, <2>1, TaskHere DEF TypeOK, Stages
  <2>3. task' \in Task
    BY <1>8, <1>t, <2>2 DEF Unauthorized, TypeOK, Task, Stages, Results, LastAttempt, Stop
  <2>4. task'.stage \in Holding
    BY <1>8, <2>2 DEF Unauthorized, Task, Holding, Stop
  <2>5. FlagExact' /\ OnePending'
    BY <1>8, <1>t, <2>1, <2>4, StageKeepsFlag DEF Unauthorized, flags, Holding
  <2>6. TypeOK' /\ owed' <= lastSeq'
    BY <1>8, <1>t, <2>3 DEF Unauthorized, TypeOK, Task, Seqs, outbox, flags, timers, Fails
  <2> QED
    BY <2>5, <2>6 DEF TypeInv
<1>9. CASE Refreshed
  <2>1. task.stage = "refresh"
    BY <1>9 DEF Refreshed
  <2>2. task \in Task
    BY <1>t, <2>1, TaskHere DEF TypeOK, Stages
  <2>3. task' \in Task
    <3>1. CASE task' = [task EXCEPT !.stage = "clear", !.result = "deferred"]
      BY <1>9, <2>2, <3>1 DEF Refreshed, Task, Stages, Results, Seqs, outbox
    <3>2. CASE /\ task.attempt # LastAttempt
               /\ task' = [task EXCEPT !.stage = "send", !.attempt = @ + 1]
      <4>1. task.attempt + 1 \in 0..LastAttempt
        BY <2>2, <3>2 DEF Task, LastAttempt
      <4>2. Task' = Task
        BY <1>9 DEF Refreshed, Task, Seqs, outbox
      <4> QED
        BY <2>2, <3>2, <4>1, <4>2 DEF Task, Stages
    <3>3. CASE task.attempt = LastAttempt
      BY <1>9, <3>1, <3>3, Zenon DEF Refreshed, Stop
    <3>4. CASE task.attempt # LastAttempt
      BY <1>9, <3>1, <3>2, <3>4, Zenon DEF Refreshed, Stop
    <3> QED
      BY <3>3, <3>4
  <2>4. task'.stage \in Holding
    BY <1>9, <2>2 DEF Refreshed, Task, Holding, Stop
  <2>5. FlagExact' /\ OnePending'
    BY <1>9, <1>t, <2>1, <2>4, StageKeepsFlag DEF Refreshed, flags, Holding
  <2>6. TypeOK' /\ owed' <= lastSeq'
    BY <1>9, <1>t, <2>3 DEF Refreshed, TypeOK, Task, Seqs, outbox, flags, timers, counters
  <2> QED
    BY <2>5, <2>6 DEF TypeInv
<1>10. CASE Rejected
  <2>1. task.stage = "send"
    BY <1>10 DEF Rejected
  <2>2. task \in Task
    BY <1>t, <2>1, TaskHere DEF TypeOK, Stages
  <2>3. task' \in Task
    BY <1>10, <1>t, <2>2 DEF Rejected, TypeOK, Task, Stages, Results, LastAttempt, Stop
  <2>4. task'.stage \in Holding
    BY <1>10, <2>2 DEF Rejected, Task, Holding, Stop
  <2>5. FlagExact' /\ OnePending'
    BY <1>10, <1>t, <2>1, <2>4, StageKeepsFlag DEF Rejected, flags, Holding
  <2>6. TypeOK' /\ owed' <= lastSeq'
    BY <1>10, <1>t, <2>3 DEF Rejected, TypeOK, Task, Seqs, outbox, flags, timers, Fails
  <2> QED
    BY <2>5, <2>6 DEF TypeInv
<1>11. CASE GivenUp
  <2>1. task.stage = "send"
    BY <1>11 DEF GivenUp
  <2>2. task \in Task
    BY <1>t, <2>1, TaskHere DEF TypeOK, Stages
  <2>3. task' \in Task
    BY <1>11, <1>t, <2>2 DEF GivenUp, TypeOK, Task, Stages, Results, LastAttempt, Stop
  <2>4. task'.stage \in Holding
    BY <1>11, <2>2 DEF GivenUp, Task, Holding, Stop
  <2>5. FlagExact' /\ OnePending'
    BY <1>11, <1>t, <2>1, <2>4, StageKeepsFlag DEF GivenUp, flags, Holding
  <2>6. TypeOK' /\ owed' <= lastSeq'
    BY <1>11, <1>t, <2>3 DEF GivenUp, TypeOK, Task, Seqs, outbox, flags, timers, Fails
  <2> QED
    BY <2>5, <2>6 DEF TypeInv
<1>12. CASE Acknowledge
  <2>1. task.stage = "ack"
    BY <1>12 DEF Acknowledge
  <2>2. task \in Task
    BY <1>t, <2>1, TaskHere DEF TypeOK, Stages
  <2>3. task' \in Task
    BY <1>12, <1>t, <2>2, ZenonT(60) DEF Acknowledge, TypeOK, Task, Stages, Results, LastAttempt, Stop
  <2>4. task'.stage \in Holding
    BY <1>12, <2>2 DEF Acknowledge, Task, Holding, Stop
  <2>5. FlagExact' /\ OnePending'
    BY <1>12, <1>t, <2>1, <2>4, StageKeepsFlag DEF Acknowledge, flags, Holding
  <2>6. TypeOK' /\ owed' <= lastSeq'
    BY <1>12, <1>t, <2>3 DEF Acknowledge, TypeOK, Task, Seqs, outbox, flags, timers, Fails
  <2> QED
    BY <2>5, <2>6 DEF TypeInv
<1>13. CASE ClearScheduled
  <2>1. task.stage = "clear"
    BY <1>13 DEF ClearScheduled
  <2>2. task \in Task
    BY <1>t, <2>1, TaskHere DEF TypeOK, Stages
  <2>3. task' \in Task \cup {NoTask} /\ task'.stage \notin Holding
    BY <1>13, <2>2 DEF ClearScheduled, Task, NoTask, Stages, Results, Holding
  <2>4. queued = 0 /\ queued' = 0 /\ scheduled' = FALSE
    BY <1>13, <1>t, <2>1 DEF ClearScheduled, TypeOK, OnePending, Holding
  <2>5. FlagExact' /\ OnePending'
    BY <2>3, <2>4 DEF FlagExact, OnePending
  <2>6. TypeOK' /\ owed' <= lastSeq'
    BY <1>13, <1>t, <2>3, <2>4 DEF ClearScheduled, TypeOK, Seqs, Task, outbox, timers, counters
  <2> QED
    BY <2>5, <2>6 DEF TypeInv
<1>14. CASE Recheck
  <2>1. task.stage \notin Holding /\ task'.stage \notin Holding
    BY <1>14 DEF Recheck, NoTask, Holding
  <2>2. FlagExact' /\ OnePending' /\ scheduled' \in BOOLEAN /\ queued' \in 0..1
    BY <1>14, <1>t, <2>1, TriggerKeepsFlag, StageKeepsFlag DEF Recheck, flags, TypeOK
  <2>3. TypeOK' /\ owed' <= lastSeq'
    BY <1>14, <1>t, <2>2 DEF Recheck, Pending, Fails, TypeOK, Seqs, outbox, timers
  <2> QED
    BY <2>2, <2>3 DEF TypeInv
<1>15. CASE ScheduleRetry
  <2>1. task.stage \notin Holding /\ task'.stage \notin Holding
    BY <1>15 DEF ScheduleRetry, NoTask, Holding
  <2>2. FlagExact' /\ OnePending'
    BY <1>15, <1>t, <2>1, StageKeepsFlag DEF ScheduleRetry, flags
  <2>3. TypeOK' /\ owed' <= lastSeq'
    BY <1>15, <1>t DEF ScheduleRetry, TypeOK, Seqs, outbox, flags, counters
  <2> QED
    BY <2>2, <2>3 DEF TypeInv
<1>16. CASE TimerWakes
  <2>1. FlagExact' /\ OnePending'
    BY <1>16, <1>t, StageKeepsFlag DEF TimerWakes, flags
  <2>2. TypeOK' /\ owed' <= lastSeq'
    <3>1. scheduled' \in BOOLEAN /\ retryScheduled' \in BOOLEAN
      BY <1>16, <1>t DEF TimerWakes, TypeOK, flags
    <3> QED
      BY <1>16, <1>t, <3>1 DEF TimerWakes, TypeOK, Seqs, Task, outbox, flags, counters
  <2> QED
    BY <2>1, <2>2 DEF TypeInv
<1>17. CASE TimerChecks
  <2>1. FlagExact' /\ OnePending' /\ scheduled' \in BOOLEAN /\ queued' \in 0..1
    BY <1>17, <1>t, TriggerKeepsFlag, StageKeepsFlag DEF TimerChecks, flags, TypeOK
  <2>2. TypeOK' /\ owed' <= lastSeq'
    BY <1>17, <1>t, <2>1 DEF TimerChecks, Pending, Fails, TypeOK, Seqs, Task, outbox
  <2> QED
    BY <2>1, <2>2 DEF TypeInv
<1>18. CASE UNCHANGED vars
  BY <1>18, <1>t DEF vars, outbox, flags, timers, counters, TypeInv, TypeOK, FlagExact,
     OnePending, Task, Seqs
<1> QED
  BY <1>1, <1>2, <1>3, <1>4, <1>5, <1>6, <1>7, <1>8, <1>9,
     <1>10, <1>11, <1>12, <1>13, <1>14, <1>15, <1>16, <1>17, <1>18
     DEF Next, Flush, Timer

\* Whoever triggers, at most one task waits for flush_lock, and flush_scheduled
\* says exactly whether one is on its way (trigger_flush).
THEOREM TypeCorrect == Spec => []TypeOK
<1>1. TypeInv => TypeOK
  BY DEF TypeInv
<1> QED
  BY <1>1, InitTypeInv, NextTypeInv, PTL DEF Spec

-----------------------------------------------------------------------------
(* Deliveries are prefixes of what is pending                              *)

Prefix(T, S) == T \subseteq S /\ \A t \in T : \A q \in S : q < t => q \in T

\* What the task has read, is sending and may acknowledge.
DeliveryInv ==
    /\ AcknowledgedDelivered
    /\ task.stage \in Delivering \cup {"next"} => Prefix(task.todo, unacked)
    /\ task.stage \in Delivering =>
          \E s \in task.todo : task.sending = {q \in task.todo : q <= s}
    /\ task.stage = "ack" => task.sending \subseteq delivered

\* A read with a LIMIT returns a prefix of what is pending.
LEMMA OldestPrefix ==
    ASSUME NEW n \in Nat, NEW S \in SUBSET (1..n)
    PROVE  Prefix(Oldest(S), S)
<1>1. SUFFICES ASSUME NEW t \in Oldest(S), NEW q \in S, q < t
               PROVE  q \in Oldest(S)
  BY DEF Prefix, Oldest
<1> DEFINE Upto(x) == {p \in S : p <= x}
<1>2. IsFiniteSet(Upto(t))
  <2>1. IsFiniteSet(1..n)
    BY FS_Interval
  <2> QED
    BY <2>1, FS_Subset
<1>3. Upto(q) \subseteq Upto(t)
  <2>1. q \in Int /\ t \in Int /\ \A p \in S : p \in Int
    BY <1>1 DEF Oldest
  <2>2. SUFFICES ASSUME NEW p \in S, p <= q PROVE p <= t
    OBVIOUS
  <2> QED
    BY <1>1, <2>1, <2>2
<1>4. Cardinality(Upto(q)) <= Cardinality(Upto(t)) /\ Cardinality(Upto(t)) \in Nat
      /\ Cardinality(Upto(q)) \in Nat
  BY <1>2, <1>3, FS_Subset, FS_CardinalityType
<1> QED
  BY <1>1, <1>4, SchedulerBounds DEF Oldest

\* A prefix stays one when its own prefix is taken off both sides.
LEMMA PrefixRest ==
    ASSUME NEW S \in SUBSET Nat, NEW T, NEW n \in Nat, Prefix(T, S),
           NEW D, D = {q \in T : q <= n}
    PROVE  Prefix(T \ D, S \ D)
  BY DEF Prefix

\* A prefix stays one when the scheduler appends above it.
LEMMA PrefixGrows ==
    ASSUME NEW n \in Nat, NEW S \in SUBSET (1..n), NEW T, Prefix(T, S)
    PROVE  Prefix(T, S \cup {n + 1})
  BY DEF Prefix

\* Up to the last batch of a delivery, everything is in it or acknowledged.
LEMMA DeliveryCovers ==
    ASSUME TypeInv, DeliveryInv, NEW s \in task.todo, task.stage \in Delivering,
           task.sending = {q \in task.todo : q <= s}
    PROVE  /\ s \in unacked /\ s \in Seqs
           /\ delivered \cup task.sending = delivered \cup 1..s
           /\ unacked \ task.sending = unacked \ 1..s
<1>1. Prefix(task.todo, unacked) /\ unacked \subseteq 1..lastSeq /\ lastSeq \in Nat
  BY DEF DeliveryInv, TypeInv, TypeOK, Seqs
<1>2. s \in unacked /\ s \in 1..lastSeq
  BY <1>1 DEF Prefix
<1>3. \A q \in unacked : q <= s => q \in task.sending
  BY <1>1, <1>2 DEF Prefix
<1>4. \A q \in 1..s : q \in unacked \/ q \in delivered
  BY <1>1, <1>2 DEF DeliveryInv, AcknowledgedDelivered, Seqs
<1>5. task.sending \subseteq 1..s
  <2>1. \A q \in task.todo : q \in 1..lastSeq
    BY <1>1 DEF Prefix
  <2>2. SUFFICES ASSUME NEW q \in task.todo, q <= s PROVE q \in 1..s
    OBVIOUS
  <2> QED
    BY <1>1, <1>2, <2>1, <2>2
<1>6. delivered \cup task.sending = delivered \cup 1..s
  BY <1>1, <1>2, <1>3, <1>4, <1>5
<1>7. unacked \ task.sending = unacked \ 1..s
  BY <1>1, <1>2, <1>3, <1>5
<1> QED
  BY <1>2, <1>6, <1>7 DEF Seqs

LEMMA InitDeliveryInv == Init => DeliveryInv
<1> SUFFICES ASSUME Init PROVE DeliveryInv
  OBVIOUS
<1>1. task.stage = "none" /\ Seqs = {}
  BY DEF Init, NoTask, Seqs
<1> QED
  BY <1>1 DEF DeliveryInv, AcknowledgedDelivered, Delivering

LEMMA NextDeliveryInv == TypeInv /\ DeliveryInv /\ [Next]_vars => DeliveryInv'
<1> SUFFICES ASSUME TypeInv, DeliveryInv, [Next]_vars PROVE DeliveryInv'
  OBVIOUS
<1>t. /\ lastSeq \in Nat /\ unacked \subseteq 1..lastSeq /\ delivered \subseteq 1..lastSeq
      /\ task \in Task \cup {NoTask}
  BY SchedulerBounds DEF TypeInv, TypeOK, Seqs
<1>d. AcknowledgedDelivered
  BY DEF DeliveryInv
<1>h. ASSUME task.stage \in Stages PROVE task \in Task
  BY <1>h, <1>t, TaskHere
<1>1. CASE Enqueue
  <2>1. task' = task /\ delivered' = delivered /\ unacked' = unacked \cup {lastSeq + 1}
        /\ lastSeq' = lastSeq + 1
    BY <1>1 DEF Enqueue
  <2>2. AcknowledgedDelivered'
    BY <1>t, <1>d, <2>1 DEF AcknowledgedDelivered, Seqs
  <2>3. Prefix(task.todo, unacked) => Prefix(task'.todo, unacked')
    BY <1>t, <2>1, PrefixGrows
  <2> QED
    BY <2>1, <2>2, <2>3 DEF DeliveryInv
<1>2. CASE AppendTriggers
  BY <1>2 DEF AppendTriggers, DeliveryInv, AcknowledgedDelivered, Seqs, outbox, counters
<1>3. CASE AcquireLock
  <2>1. task'.stage \notin Delivering \cup {"next"}
    BY <1>3 DEF AcquireLock, Delivering
  <2>2. lastSeq' = lastSeq /\ unacked' = unacked /\ delivered' = delivered
    BY <1>3 DEF AcquireLock, outbox
  <2> QED
    BY <1>d, <2>1, <2>2 DEF DeliveryInv, AcknowledgedDelivered, Seqs, Delivering
<1>4. CASE ReadPending
  <2>1. lastSeq' = lastSeq /\ unacked' = unacked /\ delivered' = delivered /\ task \in Task
    BY <1>4, <1>h DEF ReadPending, outbox, Stages
  <2>2. CASE task' = [task EXCEPT !.stage = "next", !.todo = Oldest(unacked)]
    <3>1. Prefix(task'.todo, unacked') /\ task'.stage = "next"
      BY <1>t, <2>1, <2>2, OldestPrefix DEF Task
    <3> QED
      BY <1>d, <2>1, <3>1 DEF DeliveryInv, AcknowledgedDelivered, Seqs, Delivering
  <2>3. CASE Stop("deferred")
    <3>1. task'.stage = "clear"
      BY <2>1, <2>3 DEF Stop, Task
    <3> QED
      BY <1>d, <2>1, <3>1 DEF DeliveryInv, AcknowledgedDelivered, Seqs, Delivering
  <2> QED
    BY <1>4, <2>2, <2>3 DEF ReadPending
<1>5. CASE NextDelivery
  <2>1. /\ lastSeq' = lastSeq /\ unacked' = unacked /\ delivered' = delivered
        /\ task.stage = "next" /\ task \in Task
    BY <1>5, <1>h DEF NextDelivery, outbox, Stages
  <2>2. CASE task.todo = {}
    <3>1. task'.stage = "clear"
      BY <1>5, <2>1, <2>2 DEF NextDelivery, Stop, Task
    <3> QED
      BY <1>d, <2>1, <3>1 DEF DeliveryInv, AcknowledgedDelivered, Seqs, Delivering
  <2>3. CASE task.todo # {}
    <3>1. PICK s \in task.todo :
             task' = [task EXCEPT !.stage = "send", !.attempt = 0, !.refreshed = FALSE,
                                  !.sending = {q \in task.todo : q <= s}]
      BY <1>5, <2>3 DEF NextDelivery
    <3>2. /\ task'.stage = "send" /\ task'.todo = task.todo
          /\ task'.sending = {q \in task.todo : q <= s}
      BY <2>1, <3>1 DEF Task
    <3>3. Prefix(task.todo, unacked)
      BY <2>1 DEF DeliveryInv
    <3> QED
      BY <1>d, <2>1, <3>2, <3>3 DEF DeliveryInv, AcknowledgedDelivered, Seqs, Delivering
  <2> QED
    BY <2>2, <2>3
<1>6. CASE Sent
  <2>1. lastSeq' = lastSeq /\ unacked' = unacked /\ task.stage \in Delivering /\ task \in Task
    BY <1>6, <1>h DEF Sent, outbox, Stages, Delivering
  <2>2. delivered \subseteq delivered'
    BY <1>6 DEF Sent
  <2>3. AcknowledgedDelivered'
    BY <1>d, <2>1, <2>2 DEF AcknowledgedDelivered, Seqs
  <2>4. task'.stage = "ack" /\ task'.todo = task.todo /\ task'.sending = task.sending /\ task.sending \subseteq delivered'
    BY <1>6, <2>1 DEF Sent, Task
  <2> QED
    BY <2>1, <2>3, <2>4 DEF DeliveryInv, Delivering
<1>7. CASE Unavailable
  <2>1. lastSeq' = lastSeq /\ unacked' = unacked /\ task.stage \in Delivering /\ task \in Task
    BY <1>7, <1>h DEF Unavailable, outbox, Stages, Delivering
  <2>2. delivered \subseteq delivered'
    BY <1>7 DEF Unavailable
  <2>3. AcknowledgedDelivered'
    BY <1>d, <2>1, <2>2 DEF AcknowledgedDelivered, Seqs
  <2>4. task'.stage = "clear" \/ (task'.stage \in {"send", "refresh"} /\ task'.todo = task.todo /\ task'.sending = task.sending)
    BY <1>7, <2>1 DEF Unavailable, Stop, Task
  <2> QED
    BY <2>1, <2>3, <2>4 DEF DeliveryInv, Delivering
<1>8. CASE Unauthorized
  <2>1. lastSeq' = lastSeq /\ unacked' = unacked /\ task.stage \in Delivering /\ task \in Task
    BY <1>8, <1>h DEF Unauthorized, outbox, Stages, Delivering
  <2>2. delivered \subseteq delivered'
    BY <1>8 DEF Unauthorized
  <2>3. AcknowledgedDelivered'
    BY <1>d, <2>1, <2>2 DEF AcknowledgedDelivered, Seqs
  <2>4. task'.stage = "clear" \/ (task'.stage \in {"send", "refresh"} /\ task'.todo = task.todo /\ task'.sending = task.sending)
    BY <1>8, <2>1 DEF Unauthorized, Stop, Task
  <2> QED
    BY <2>1, <2>3, <2>4 DEF DeliveryInv, Delivering
<1>9. CASE Refreshed
  <2>1. lastSeq' = lastSeq /\ unacked' = unacked /\ task.stage \in Delivering /\ task \in Task
    BY <1>9, <1>h DEF Refreshed, outbox, Stages, Delivering
  <2>2. delivered \subseteq delivered'
    BY <1>9 DEF Refreshed
  <2>3. AcknowledgedDelivered'
    BY <1>d, <2>1, <2>2 DEF AcknowledgedDelivered, Seqs
  <2>4. task'.stage = "clear" \/ (task'.stage \in {"send", "refresh"} /\ task'.todo = task.todo /\ task'.sending = task.sending)
    BY <1>9, <2>1 DEF Refreshed, Stop, Task
  <2> QED
    BY <2>1, <2>3, <2>4 DEF DeliveryInv, Delivering
<1>10. CASE Rejected
  <2>1. lastSeq' = lastSeq /\ unacked' = unacked /\ task.stage \in Delivering /\ task \in Task
    BY <1>10, <1>h DEF Rejected, outbox, Stages, Delivering
  <2>2. delivered \subseteq delivered'
    BY <1>10 DEF Rejected
  <2>3. AcknowledgedDelivered'
    BY <1>d, <2>1, <2>2 DEF AcknowledgedDelivered, Seqs
  <2>4. task'.stage = "clear" \/ (task'.stage \in {"send", "refresh"} /\ task'.todo = task.todo /\ task'.sending = task.sending)
    BY <1>10, <2>1 DEF Rejected, Stop, Task
  <2> QED
    BY <2>1, <2>3, <2>4 DEF DeliveryInv, Delivering
<1>11. CASE GivenUp
  <2>1. lastSeq' = lastSeq /\ unacked' = unacked /\ task.stage \in Delivering /\ task \in Task
    BY <1>11, <1>h DEF GivenUp, outbox, Stages, Delivering
  <2>2. delivered \subseteq delivered'
    BY <1>11 DEF GivenUp
  <2>3. AcknowledgedDelivered'
    BY <1>d, <2>1, <2>2 DEF AcknowledgedDelivered, Seqs
  <2>4. task'.stage = "clear" \/ (task'.stage \in {"send", "refresh"} /\ task'.todo = task.todo /\ task'.sending = task.sending)
    BY <1>11, <2>1 DEF GivenUp, Stop, Task
  <2> QED
    BY <2>1, <2>3, <2>4 DEF DeliveryInv, Delivering
<1>12. CASE Acknowledge
  <2>1. /\ lastSeq' = lastSeq /\ delivered' = delivered /\ task.stage = "ack"
        /\ task \in Task /\ task.stage \in Delivering
    BY <1>12, <1>h DEF Acknowledge, Stages, Delivering
  <2>2. PICK s \in task.todo : task.sending = {q \in task.todo : q <= s}
    BY <2>1 DEF DeliveryInv
  <2>3. Prefix(task.todo, unacked) /\ task.sending \subseteq delivered
    BY <2>1 DEF DeliveryInv
  <2>4. CASE /\ unacked' = unacked \ task.sending
             /\ task' = [task EXCEPT !.stage = "next", !.todo = @ \ task.sending]
    <3>1. AcknowledgedDelivered'
      BY <1>d, <2>1, <2>3, <2>4 DEF AcknowledgedDelivered, Seqs
    <3>2. task'.stage = "next" /\ task'.todo = task.todo \ task.sending
      BY <2>1, <2>4 DEF Task
    <3>3. unacked \in SUBSET Nat /\ s \in Nat
      <4>1. unacked \in SUBSET Nat
        BY <1>t
      <4> QED
        BY <2>3, <4>1 DEF Prefix
    <3>4. Prefix(task.todo \ task.sending, unacked \ task.sending)
      BY <2>2, <2>3, <3>3, PrefixRest
    <3>5. Prefix(task'.todo, unacked')
      BY <2>4, <3>2, <3>4
    <3> QED
      BY <3>1, <3>2, <3>5 DEF DeliveryInv, Delivering
  <2>5. CASE Stop("deferred") /\ UNCHANGED unacked
    <3>1. task'.stage = "clear"
      BY <2>1, <2>5 DEF Stop, Task
    <3> QED
      BY <1>d, <2>1, <2>5, <3>1 DEF DeliveryInv, AcknowledgedDelivered, Seqs, Delivering
  <2> QED
    BY <1>12, <2>4, <2>5 DEF Acknowledge
<1>13. CASE ClearScheduled
  <2>1. task.stage = "clear" /\ task \in Task
    BY <1>13, <1>h DEF ClearScheduled, Stages
  <2>2. task'.stage \notin Delivering \cup {"next"}
    BY <1>13, <2>1 DEF ClearScheduled, Task, NoTask, Results, Delivering
  <2>3. lastSeq' = lastSeq /\ unacked' = unacked /\ delivered' = delivered
    BY <1>13 DEF ClearScheduled, outbox
  <2> QED
    BY <1>d, <2>2, <2>3 DEF DeliveryInv, AcknowledgedDelivered, Seqs, Delivering
<1>14. CASE Recheck
  <2>1. task'.stage \notin Delivering \cup {"next"}
    BY <1>14 DEF Recheck, Delivering, NoTask
  <2>2. lastSeq' = lastSeq /\ unacked' = unacked /\ delivered' = delivered
    BY <1>14 DEF Recheck, outbox
  <2> QED
    BY <1>d, <2>1, <2>2 DEF DeliveryInv, AcknowledgedDelivered, Seqs, Delivering
<1>15. CASE ScheduleRetry
  <2>1. task'.stage \notin Delivering \cup {"next"}
    BY <1>15 DEF ScheduleRetry, Delivering, NoTask
  <2>2. lastSeq' = lastSeq /\ unacked' = unacked /\ delivered' = delivered
    BY <1>15 DEF ScheduleRetry, outbox
  <2> QED
    BY <1>d, <2>1, <2>2 DEF DeliveryInv, AcknowledgedDelivered, Seqs, Delivering
<1>16. CASE TimerWakes
  BY <1>16 DEF TimerWakes, DeliveryInv, AcknowledgedDelivered, Seqs, outbox, counters
<1>17. CASE TimerChecks
  BY <1>17 DEF TimerChecks, DeliveryInv, AcknowledgedDelivered, Seqs, outbox, counters
<1>18. CASE UNCHANGED vars
  BY <1>18 DEF vars, DeliveryInv, AcknowledgedDelivered, Seqs, outbox
<1> QED
  BY <1>1, <1>2, <1>3, <1>4, <1>5, <1>6, <1>7, <1>8, <1>9,
     <1>10, <1>11, <1>12, <1>13, <1>14, <1>15, <1>16, <1>17, <1>18
     DEF Next, Flush, Timer

\* A batch leaves the pending set only when the cloud holds it: neither lost
\* answers nor the limit of a read let an undelivered one be acknowledged.
THEOREM AcknowledgedOnlyDelivered == Spec => []AcknowledgedDelivered
<1>1. DeliveryInv => AcknowledgedDelivered
  BY DEF DeliveryInv
<1> QED
  BY <1>1, InitTypeInv, NextTypeInv, InitDeliveryInv, NextDeliveryInv, PTL DEF Spec

-----------------------------------------------------------------------------
(* No lost wakeup                                                          *)

\* A task that ends without a retry has met a delivery that is not retried.
StopCounted == (task.stage = "clear" /\ task.result = "stopped") => stops > 0

TendedInv == Tended /\ StopCounted

LEMMA InitTendedInv == Init => TendedInv
  BY DEF Init, TendedInv, Tended, StopCounted, NoTask

\* A trigger leaves a task on its way, or finds one.
LEMMA TriggerTends ==
    ASSUME TypeInv, Trigger, task.stage \notin Holding
    PROVE  queued' > 0
  BY DEF TypeInv, TypeOK, FlagExact, Trigger, flags

LEMMA NextTendedInv == TypeInv /\ TendedInv /\ [Next]_vars => TendedInv'
<1> SUFFICES ASSUME TypeInv, TendedInv, [Next]_vars PROVE TendedInv'
  OBVIOUS
<1>t. /\ queued \in 0..1 /\ checking \in Nat /\ stops \in Nat /\ readErrors \in Nat
      /\ owed \in Nat /\ task \in Task \cup {NoTask}
  BY SchedulerBounds DEF TypeInv, TypeOK
<1>h. ASSUME task.stage \in Stages PROVE task \in Task
  BY <1>h, <1>t, TaskHere
<1>1. CASE Enqueue
  <2>1. owed' > 0 /\ task' = task /\ stops' = stops
    BY <1>1, <1>t DEF Enqueue, counters
  <2> QED
    BY <2>1 DEF TendedInv, Tended, StopCounted
<1>2. CASE AppendTriggers
  <2>1. task' = task /\ stops' = stops
    BY <1>2 DEF AppendTriggers, counters
  <2>2. queued' > 0 \/ task # NoTask
    <3>1. CASE task = NoTask
      <4>1. task.stage \notin Holding
        BY <3>1 DEF NoTask, Holding
      <4> QED
        BY <1>2, <4>1, TriggerTends DEF AppendTriggers
    <3> QED
      BY <3>1
  <2> QED
    BY <2>1, <2>2 DEF TendedInv, Tended, StopCounted
<1>3. CASE AcquireLock
  <2>1. task'.stage = "read"
    BY <1>3 DEF AcquireLock
  <2>2. task' # NoTask
    BY <2>1 DEF NoTask
  <2> QED
    BY <2>1, <2>2 DEF TendedInv, Tended, StopCounted
<1>4. CASE ReadPending
  <2>1. task'.stage \in Stages /\ (task'.stage = "clear" => task'.result # "stopped")
    BY <1>4, <1>h DEF ReadPending, Stages, Task, Stop
  <2>2. task' # NoTask
    BY <2>1 DEF NoTask, Stages
  <2> QED
    BY <2>1, <2>2 DEF TendedInv, Tended, StopCounted
<1>5. CASE NextDelivery
  <2>1. task'.stage \in Stages /\ (task'.stage = "clear" => task'.result # "stopped")
    BY <1>5, <1>h DEF NextDelivery, Stages, Task, Stop
  <2>2. task' # NoTask
    BY <2>1 DEF NoTask, Stages
  <2> QED
    BY <2>1, <2>2 DEF TendedInv, Tended, StopCounted
<1>6. CASE Sent
  <2>1. task'.stage \in Stages /\ (task'.stage = "clear" => task'.result # "stopped")
    BY <1>6, <1>h DEF Sent, Stages, Task
  <2>2. task' # NoTask
    BY <2>1 DEF NoTask, Stages
  <2> QED
    BY <2>1, <2>2 DEF TendedInv, Tended, StopCounted
<1>7. CASE Unavailable
  <2>1. task'.stage \in Stages /\ (task'.stage = "clear" => task'.result # "stopped")
    BY <1>7, <1>h DEF Unavailable, Stages, Task, Stop
  <2>2. task' # NoTask
    BY <2>1 DEF NoTask, Stages
  <2> QED
    BY <2>1, <2>2 DEF TendedInv, Tended, StopCounted
<1>8. CASE Unauthorized
  <2>1. task'.stage \in Stages /\ (task'.stage = "clear" => task'.result # "stopped")
    BY <1>8, <1>h DEF Unauthorized, Stages, Task, Stop
  <2>2. task' # NoTask
    BY <2>1 DEF NoTask, Stages
  <2> QED
    BY <2>1, <2>2 DEF TendedInv, Tended, StopCounted
<1>9. CASE Refreshed
  <2>1. task'.stage \in Stages /\ (task'.stage = "clear" => task'.result # "stopped")
    BY <1>9, <1>h DEF Refreshed, Stages, Task, Stop
  <2>2. task' # NoTask
    BY <2>1 DEF NoTask, Stages
  <2> QED
    BY <2>1, <2>2 DEF TendedInv, Tended, StopCounted
<1>10. CASE Rejected
  <2>1. task'.stage \in Stages /\ (task'.stage = "clear" => task'.result # "stopped")
    BY <1>10, <1>h DEF Rejected, Stages, Task, Stop
  <2>2. task' # NoTask
    BY <2>1 DEF NoTask, Stages
  <2> QED
    BY <2>1, <2>2 DEF TendedInv, Tended, StopCounted
<1>11. CASE GivenUp
  <2>1. task'.stage = "clear" /\ stops' > 0
    BY <1>11, <1>h, <1>t DEF GivenUp, Stages, Task, Stop
  <2>2. task' # NoTask
    BY <2>1 DEF NoTask
  <2> QED
    BY <2>1, <2>2 DEF TendedInv, Tended, StopCounted
<1>12. CASE Acknowledge
  <2>1. task'.stage \in Stages /\ (task'.stage = "clear" => task'.result # "stopped")
    BY <1>12, <1>h DEF Acknowledge, Stages, Task, Stop
  <2>2. task' # NoTask
    BY <2>1 DEF NoTask, Stages
  <2> QED
    BY <2>1, <2>2 DEF TendedInv, Tended, StopCounted
<1>13. CASE ClearScheduled
  <2>1. task.stage = "clear" /\ task \in Task /\ stops' = stops
    BY <1>13, <1>h DEF ClearScheduled, Stages, counters
  <2>2. CASE task.result = "stopped"
    <3>1. stops > 0 /\ task' = NoTask
      BY <1>13, <2>1, <2>2 DEF ClearScheduled, TendedInv, StopCounted
    <3> QED
      BY <2>1, <3>1 DEF TendedInv, Tended, StopCounted, NoTask
  <2>3. CASE task.result # "stopped"
    <3>1. task'.stage \in {"recheck", "retry"}
      BY <1>13, <2>1, <2>3 DEF ClearScheduled, Task, Results
    <3>2. task' # NoTask
      BY <3>1 DEF NoTask
    <3> QED
      BY <3>1, <3>2 DEF TendedInv, Tended, StopCounted
  <2> QED
    BY <2>2, <2>3
<1>14. CASE Recheck
  <2>1. task.stage \notin Holding /\ task' = NoTask
    BY <1>14 DEF Recheck, Holding
  <2>2. \/ queued' > 0
        \/ unacked' = {}
        \/ readErrors' > 0
    <3>1. PICK found \in BOOLEAN : Pending(found) /\ IF found THEN Trigger ELSE UNCHANGED flags
      BY <1>14 DEF Recheck
    <3>2. unacked' = unacked
      BY <1>14 DEF Recheck, outbox
    <3>3. CASE found
      BY <2>1, <3>1, <3>3, TriggerTends
    <3>4. CASE ~found
      BY <1>t, <3>1, <3>2, <3>4 DEF Pending
    <3> QED
      BY <3>3, <3>4
  <2> QED
    BY <1>t, <2>1, <2>2 DEF TendedInv, Tended, StopCounted, NoTask
<1>15. CASE ScheduleRetry
  <2>1. retryScheduled' = TRUE /\ task' = NoTask
    BY <1>15 DEF ScheduleRetry
  <2> QED
    BY <2>1 DEF TendedInv, Tended, StopCounted, NoTask
<1>16. CASE TimerWakes
  <2>1. checking' > 0 /\ task' = task /\ stops' = stops
    BY <1>16, <1>t DEF TimerWakes, counters
  <2> QED
    BY <2>1 DEF TendedInv, Tended, StopCounted
<1>17. CASE TimerChecks
  <2>1. task' = task /\ stops' = stops
    BY <1>17 DEF TimerChecks
  <2>2. \/ queued' > 0 \/ task # NoTask
        \/ unacked' = {}
        \/ readErrors' > 0
    <3>1. PICK found \in BOOLEAN : Pending(found) /\ IF found THEN Trigger ELSE UNCHANGED flags
      BY <1>17 DEF TimerChecks
    <3>2. unacked' = unacked
      BY <1>17 DEF TimerChecks, outbox
    <3>3. CASE found
      <4>1. CASE task = NoTask
        <5>1. task.stage \notin Holding
          BY <4>1 DEF NoTask, Holding
        <5> QED
          BY <3>1, <3>3, <5>1, TriggerTends
      <4> QED
        BY <4>1
    <3>4. CASE ~found
      BY <1>t, <3>1, <3>2, <3>4 DEF Pending
    <3> QED
      BY <3>3, <3>4
  <2> QED
    BY <1>t, <2>1, <2>2 DEF TendedInv, Tended, StopCounted
<1>18. CASE UNCHANGED vars
  BY <1>18 DEF vars, outbox, flags, timers, counters, TendedInv, Tended, StopCounted
<1> QED
  BY <1>1, <1>2, <1>3, <1>4, <1>5, <1>6, <1>7, <1>8, <1>9,
     <1>10, <1>11, <1>12, <1>13, <1>14, <1>15, <1>16, <1>17, <1>18
     DEF Next, Flush, Timer

\* No lost wakeup, however the appends, the task and its timer interleave: while
\* a batch is pending, something has yet to look at the outbox (trigger_flush,
\* schedule_flush_retry).
THEOREM NoLostWakeup == Spec => []Tended
<1>1. TendedInv => Tended
  BY DEF TendedInv
<1> QED
  BY <1>1, InitTypeInv, NextTypeInv, InitTendedInv, NextTendedInv, PTL DEF Spec

-----------------------------------------------------------------------------
(* The scheduler implements the ordered log                                *)

LEMMA InitOrdered == Init => Ordered!Init
  BY DEF Init, Ordered!Init

LEMMA NextOrdered ==
    ASSUME TypeInv, DeliveryInv, [Next]_vars
    PROVE  [Ordered!Next]_(Ordered!log)
<1>h. ASSUME task.stage \in Stages PROVE task \in Task
  BY <1>h, TaskHere DEF TypeInv, TypeOK
<1>s. ASSUME UNCHANGED <<lastSeq, unacked, delivered>> PROVE [Ordered!Next]_(Ordered!log)
  BY <1>s DEF Ordered!log
<1>1. CASE Enqueue
  <2>1. Ordered!Accept
    BY <1>1 DEF Enqueue, Ordered!Accept
  <2> QED
    BY <2>1 DEF Ordered!Next
\* What a request hands over is everything up to its last batch.
<1>2. ASSUME task.stage \in Delivering, UNCHANGED outbox,
             delivered' \in {delivered, delivered \cup task.sending}
      PROVE  [Ordered!Next]_(Ordered!log)
  <2>1. CASE delivered' = delivered
    BY <1>2, <1>s, <2>1 DEF outbox
  <2>2. CASE delivered' = delivered \cup task.sending
    <3>1. PICK s \in task.todo : task.sending = {q \in task.todo : q <= s}
      BY <1>2 DEF DeliveryInv
    <3>2. s \in unacked /\ delivered' = delivered \cup 1..s
      BY <1>2, <2>2, <3>1, DeliveryCovers
    <3>3. Ordered!Deliver
      BY <1>2, <3>2 DEF Ordered!Deliver, outbox
    <3> QED
      BY <3>3 DEF Ordered!Next
  <2> QED
    BY <1>2, <2>1, <2>2
<1>3. CASE Sent \/ Unavailable
  BY <1>2, <1>3 DEF Sent, Unavailable, Delivering
<1>4. CASE Acknowledge
  <2>1. task.stage = "ack" /\ task.stage \in Delivering /\ UNCHANGED <<lastSeq, delivered>>
    BY <1>4 DEF Acknowledge, Delivering
  <2>2. CASE unacked' = unacked \ task.sending
    <3>1. PICK s \in task.todo : task.sending = {q \in task.todo : q <= s}
      BY <2>1 DEF DeliveryInv
    <3>2. /\ s \in unacked /\ unacked' = unacked \ 1..s
          /\ delivered \cup task.sending = delivered \cup 1..s
      BY <2>1, <2>2, <3>1, DeliveryCovers
    <3>3. task.sending \subseteq delivered
      BY <2>1 DEF DeliveryInv
    <3>4. 1..s \subseteq delivered
      BY <3>2, <3>3
    <3>5. Ordered!Settle
      BY <2>1, <3>2, <3>4 DEF Ordered!Settle
    <3> QED
      BY <3>5 DEF Ordered!Next
  <2>3. CASE UNCHANGED unacked
    BY <1>s, <2>1, <2>3
  <2> QED
    BY <1>4, <2>2, <2>3 DEF Acknowledge
<1>5. CASE \/ AppendTriggers \/ AcquireLock \/ ReadPending \/ NextDelivery \/ Unauthorized
           \/ Refreshed \/ Rejected \/ GivenUp \/ ClearScheduled \/ Recheck
           \/ ScheduleRetry \/ TimerWakes \/ TimerChecks
  <2>1. UNCHANGED <<outbox, delivered>>
    BY <1>5 DEF AppendTriggers, AcquireLock, ReadPending, NextDelivery, Unauthorized, Refreshed,
       Rejected, GivenUp, ClearScheduled, Recheck, ScheduleRetry, TimerWakes, TimerChecks
  <2> QED
    BY <1>s, <2>1 DEF outbox
<1>6. CASE UNCHANGED vars
  BY <1>s, <1>6 DEF vars, outbox
<1> QED
  BY <1>1, <1>3, <1>4, <1>5, <1>6 DEF Next, Flush, Timer

\* The scheduler implements the ordered log: for every limit of a read and
\* every split into deliveries the cloud takes the batches in the order they
\* were accepted, and the device forgets only those the cloud holds.
THEOREM ImplementsOrderedDelivery == Spec => DeliveredInOrder
<1>1. Spec => [](TypeInv /\ DeliveryInv)
  BY InitTypeInv, NextTypeInv, InitDeliveryInv, NextDeliveryInv, PTL DEF Spec
<1>2. TypeInv /\ DeliveryInv /\ [Next]_vars => [Ordered!Next]_(Ordered!log)
  BY NextOrdered
<1> QED
  BY <1>1, <1>2, InitOrdered, PTL DEF Spec, DeliveredInOrder, Ordered!Spec

-----------------------------------------------------------------------------
(*                         The session projection                          *)

(* The projection gate of an entry.  A run in its drain, or a close at its *)
(* work, holds the gate of its entry; an entry is closing once the close   *)
(* that holds its gate has interrupted it, and stays so.                   *)

InDrain == {"content", "finished", "applyContent", "applyFinished", "showContent",
            "showLast", "seal", "applySealed", "applyUnsaved"}
Interrupted == {"append", "mark", "show", "remove"}
InClose == {"interrupt"} \cup Interrupted

GateShape ==
    /\ pc = [x \in Actors |-> pc[x]] /\ entry \in [Actors -> Entries \cup {None}]
    /\ closing \in [Entries -> BOOLEAN] /\ gate \in [Entries -> Actors \cup {Free}]
    /\ current \in Entries \cup {None} /\ entries \in Entries
    /\ \A a \in Runs \cup {Steer, Close} : pc[a] # "idle" => entry[a] \in Entries
GateHeld ==
    /\ \A r \in Runs : pc[r] \in InDrain => gate[entry[r]] = r /\ ~closing[entry[r]]
    /\ pc[Close] \in InClose => gate[entry[Close]] = Close
ClosingInv ==
    /\ \A e \in Entries : closing[e] => pc[Close] \in Interrupted \cup {"done"} /\ entry[Close] = e
    /\ pc[Close] \in Interrupted => closing[entry[Close]]
DrainInv == GateShape /\ GateHeld /\ ClosingInv

ActorKinds == \A r \in Runs : r # Steer /\ r # Close /\ r # Open /\ r # Free

LEMMA Apart == ActorKinds /\ Steer # Close /\ Steer # Open /\ Close # Open /\ Close # Free /\ Free \notin Entries
  BY ProjectionBounds DEF ActorKinds, Free, Entries

LEMMA DrainInit == ProjectionInit => DrainInv
<1> SUFFICES ASSUME ProjectionInit PROVE DrainInv
  OBVIOUS
<1>1. \A a \in Actors : pc[a] = "idle"
  BY DEF ProjectionInit
<1>2. 1 \in Entries
  BY ProjectionBounds DEF Entries
<1>3. GateShape
  BY <1>1, <1>2 DEF ProjectionInit, GateShape, Actors
<1> QED
  BY <1>1, <1>3 DEF ProjectionInit, DrainInv, GateHeld, ClosingInv, InDrain, InClose, Interrupted, Actors

\* An actor that goes on without touching a gate.
LEMMA GoesOn ==
  ASSUME DrainInv, NEW a \in Actors, NEW l, Goto(a, l),
         UNCHANGED <<entry, closing, gate>>,
         current' \in Entries \cup {None}, entries' \in Entries,
         pc[a] # "idle" \/ a = Open,
         a \in Runs => (l \in InDrain => pc[a] \in InDrain),
         a = Close => /\ l \in InClose => pc[a] \in InClose
                      /\ pc[a] \in Interrupted => l \in Interrupted
                      /\ l \in Interrupted => pc[a] \in Interrupted
                      /\ pc[a] # "done"
  PROVE  DrainInv'
<1>1. pc' = [pc EXCEPT ![a] = l] /\ pc = [x \in Actors |-> pc[x]]
  BY DEF Goto, DrainInv, GateShape
<1>2. GateShape'
  BY <1>1, Apart DEF DrainInv, GateShape, Actors, ActorKinds
<1>3. GateHeld'
  BY <1>1, Apart DEF DrainInv, GateShape, GateHeld, Actors, ActorKinds
<1>4. ClosingInv'
  BY <1>1, Apart DEF DrainInv, GateShape, ClosingInv, Actors, ActorKinds
<1> QED
  BY <1>2, <1>3, <1>4 DEF DrainInv

\* A command that finds the live entry.
LEMMA Captures ==
  ASSUME DrainInv, NEW a \in Runs \cup {Steer, Close}, NEW l \in {"admit", "lock", "gate"},
         Capture(a), Goto(a, l), UNCHANGED tables
  PROVE  DrainInv'
<1>1. /\ pc' = [pc EXCEPT ![a] = l] /\ pc = [x \in Actors |-> pc[x]] /\ a \in Actors
      /\ entry' = [entry EXCEPT ![a] = current] /\ current \in Entries /\ pc[a] = "idle"
      /\ entry \in [Actors -> Entries \cup {None}]
  BY DEF Goto, Capture, At, DrainInv, GateShape, Actors
<1>2. GateShape'
  BY <1>1 DEF DrainInv, GateShape, Actors, tables
<1>3. l \notin InDrain /\ l \notin InClose /\ l # "done" /\ "idle" \notin Interrupted
  BY DEF InDrain, InClose, Interrupted
<1>4. GateHeld'
  BY <1>1, <1>3, Apart DEF DrainInv, GateShape, GateHeld, Actors, ActorKinds, tables
<1>5. ClosingInv'
  BY <1>1, <1>3, Apart DEF DrainInv, GateShape, ClosingInv, Actors, ActorKinds, tables, InClose
<1> QED
  BY <1>2, <1>4, <1>5 DEF DrainInv

\* A run that takes the gate has found its entry current and not closing.
LEMMA RunTakesGate ==
  ASSUME DrainInv, NEW r \in Runs, NEW l \in InDrain, Goto(r, l), pc[r] # "idle",
         Ungated(r), ~Stale(r), gate' = Take(gate, r), UNCHANGED <<entry, closing, current, entries>>
  PROVE  DrainInv'
<1>1. /\ pc' = [pc EXCEPT ![r] = l] /\ pc = [x \in Actors |-> pc[x]] /\ r \in Actors
      /\ gate' = [gate EXCEPT ![entry[r]] = r] /\ entry[r] \in Entries
      /\ gate[entry[r]] = Free /\ ~closing[entry[r]] /\ gate \in [Entries -> Actors \cup {Free}]
  BY DEF Goto, Ungated, Stale, Take, DrainInv, GateShape, Actors, InDrain
<1>2. GateShape'
  BY <1>1 DEF DrainInv, GateShape, Actors
<1>3. GateHeld'
  BY <1>1, Apart DEF DrainInv, GateShape, GateHeld, Actors, ActorKinds, InClose, Interrupted
<1>4. ClosingInv'
  BY <1>1, Apart DEF DrainInv, GateShape, ClosingInv, Actors, ActorKinds
<1> QED
  BY <1>2, <1>3, <1>4 DEF DrainInv

\* Whoever gives the gate back has held it.
LEMMA DropsGate ==
  ASSUME DrainInv, NEW a \in Runs \cup {Close}, NEW l \in {"stream", "done"}, Goto(a, l),
         a \in Runs => pc[a] \in InDrain, a = Close => pc[a] \in Interrupted /\ l = "done",
         gate' = Drop(gate, a), UNCHANGED <<entry, closing, entries>>,
         current' \in Entries \cup {None}
  PROVE  DrainInv'
<1>1. /\ pc' = [pc EXCEPT ![a] = l] /\ pc = [x \in Actors |-> pc[x]] /\ a \in Actors
      /\ gate' = [gate EXCEPT ![entry[a]] = Free] /\ entry[a] \in Entries
      /\ gate[entry[a]] = a /\ gate \in [Entries -> Actors \cup {Free}]
  BY DEF Goto, Drop, DrainInv, GateShape, GateHeld, Actors, InDrain, InClose, Interrupted
<1>2. l \notin InDrain /\ l \notin InClose
  BY DEF InDrain, InClose, Interrupted
<1>3. GateShape'
  BY <1>1 DEF DrainInv, GateShape, Actors
<1>4. GateHeld'
  BY <1>1, <1>2, Apart DEF DrainInv, GateShape, GateHeld, Actors, ActorKinds
<1>5. ClosingInv'
  BY <1>1, <1>2, Apart DEF DrainInv, GateShape, ClosingInv, Actors, ActorKinds, InClose
<1> QED
  BY <1>3, <1>4, <1>5 DEF DrainInv

LEMMA PromptDrains ==
  ASSUME DrainInv, NEW r \in Runs, Prompt(r)
  PROVE  DrainInv'
<1>1. r \in Actors /\ r # Close /\ current \in Entries \cup {None} /\ entries \in Entries
  BY Apart DEF Actors, ActorKinds, DrainInv, GateShape
<1>2. CASE PromptCapture(r)
  BY <1>2, Captures DEF PromptCapture
<1>3. CASE PromptAdmit(r)
  <2>1. \E l \in {"echo", "done"} : Goto(r, l) /\ l \notin InDrain
    BY <1>3 DEF PromptAdmit, InDrain
  <2> QED
    BY <1>1, <1>3, <2>1, GoesOn DEF PromptAdmit, At, tables
<1>4. CASE PromptEcho(r)
  <2>1. \E l \in {"allocating", "done"} : Goto(r, l) /\ l \notin InDrain
    BY <1>4 DEF PromptEcho, InDrain
  <2> QED
    BY <1>1, <1>4, <2>1, GoesOn DEF PromptEcho, At, tables
<1>5. CASE PromptStarted(r)
  <2>1. \E l \in {"show", "done"} : Goto(r, l) /\ l \notin InDrain
    BY <1>5 DEF PromptStarted, InDrain
  <2> QED
    BY <1>1, <1>5, <2>1, GoesOn DEF PromptStarted, At, tables
<1>6. CASE PromptShow(r)
  BY <1>1, <1>6, GoesOn DEF PromptShow, At, tables, InDrain
<1>7. CASE PromptAppend(r)
  <2>1. \E l \in {"mark", "eof"} : Goto(r, l) /\ l \notin InDrain
    BY <1>7 DEF PromptAppend, InDrain
  <2> QED
    BY <1>1, <1>7, <2>1, GoesOn DEF PromptAppend, At, tables
<1>8. CASE PromptMark(r)
  BY <1>1, <1>8, GoesOn DEF PromptMark, At, tables, InDrain
<1>9. CASE PromptSpawn(r)
  BY <1>1, <1>9, GoesOn DEF PromptSpawn, At, tables, InDrain
<1> QED
  BY <1>2, <1>3, <1>4, <1>5, <1>6, <1>7, <1>8, <1>9 DEF Prompt

LEMMA DrainDrains ==
  ASSUME DrainInv, NEW r \in Runs, Drain(r)
  PROVE  DrainInv'
<1>1. r \in Actors /\ r # Close /\ current \in Entries \cup {None} /\ entries \in Entries
  BY Apart DEF Actors, ActorKinds, DrainInv, GateShape
<1>2. CASE DrainBatch(r)
  <2>1. CASE Stale(r)
    BY <1>1, <1>2, <2>1, GoesOn DEF DrainBatch, At, InDrain
  <2>2. CASE ~Stale(r)
    <3>1. \E l \in {"content", "finished"} : Goto(r, l) /\ l \in InDrain
      BY <1>2, <2>2 DEF DrainBatch, InDrain
    <3> QED
      BY <1>2, <2>2, <3>1, RunTakesGate DEF DrainBatch, At
  <2> QED
    BY <2>1, <2>2
<1>3. CASE DrainAppend(r)
  <2>1. \E l \in InDrain : Goto(r, l)
    BY <1>3 DEF DrainAppend, InDrain
  <2> QED
    BY <1>1, <1>3, <2>1, GoesOn DEF DrainAppend, tables, InDrain
<1>4. CASE DrainApply(r)
  <2>1. \E l \in InDrain : Goto(r, l)
    BY <1>4 DEF DrainApply, InDrain
  <2> QED
    BY <1>1, <1>4, <2>1, GoesOn DEF DrainApply, tables, At, InDrain
<1>5. CASE DrainShow(r)
  <2>1. \E l \in {"stream", "done"} : Goto(r, l)
    BY <1>5 DEF DrainShow
  <2>2. pc[r] \in InDrain
    BY <1>5 DEF DrainShow, At, InDrain
  <2> QED
    BY <1>1, <1>5, <2>1, <2>2, DropsGate DEF DrainShow
<1>6. CASE StreamEnds(r)
  BY <1>1, <1>6, GoesOn DEF StreamEnds, At, tables, InDrain
<1>7. CASE SealGate(r)
  <2>1. CASE Stale(r)
    BY <1>1, <1>7, <2>1, GoesOn DEF SealGate, At, InDrain
  <2>2. CASE ~Stale(r)
    <3>1. "seal" \in InDrain
      BY DEF InDrain
    <3> QED
      BY <1>7, <2>2, <3>1, RunTakesGate DEF SealGate, At
  <2> QED
    BY <2>1, <2>2
<1>8. CASE SealAppend(r)
  <2>1. CASE r \in Mine(r).live
    <3>1. \E l \in InDrain : Goto(r, l)
      BY <1>8, <2>1 DEF SealAppend, InDrain
    <3> QED
      BY <1>1, <1>8, <2>1, <3>1, GoesOn DEF SealAppend, At, InDrain
  <2>2. CASE r \notin Mine(r).live
    BY <1>1, <1>8, <2>2, DropsGate DEF SealAppend, At, InDrain
  <2> QED
    BY <2>1, <2>2
<1>9. CASE SealApply(r)
  BY <1>1, <1>9, GoesOn DEF SealApply, tables, At, InDrain
<1> QED
  BY <1>2, <1>3, <1>4, <1>5, <1>6, <1>7, <1>8, <1>9 DEF Drain

LEMMA SteerDrains ==
  ASSUME DrainInv, Steering
  PROVE  DrainInv'
<1>1. /\ Steer \in Actors /\ Steer # Close /\ Steer \notin Runs
      /\ current \in Entries \cup {None} /\ entries \in Entries
  BY Apart DEF Actors, ActorKinds, DrainInv, GateShape
<1>2. CASE SteerCapture
  BY <1>2, Captures DEF SteerCapture
<1>3. CASE SteerLock
  <2>1. \E l : Goto(Steer, l)
    BY <1>3 DEF SteerLock
  <2> QED
    BY <1>1, <1>3, <2>1, GoesOn DEF SteerLock, At
<1>4. CASE SteerAppend
  <2>1. \E l : Goto(Steer, l)
    BY <1>4 DEF SteerAppend
  <2> QED
    BY <1>1, <1>4, <2>1, GoesOn DEF SteerAppend, At
<1>5. CASE SteerApply
  BY <1>1, <1>5, GoesOn DEF SteerApply, At
<1> QED
  BY <1>2, <1>3, <1>4, <1>5 DEF Steering

LEMMA CloseDrains ==
  ASSUME DrainInv, Closing
  PROVE  DrainInv'
<1>1. /\ Close \in Actors /\ Close \notin Runs /\ Close # Open
      /\ current \in Entries \cup {None} /\ entries \in Entries
  BY Apart DEF Actors, ActorKinds, DrainInv, GateShape
<1>2. CASE CloseCapture
  BY <1>2, Captures DEF CloseCapture
<1>3. CASE CloseGate
  <2>1. CASE current # entry[Close]
    BY <1>1, <1>3, <2>1, GoesOn DEF CloseGate, At, InClose, Interrupted
  <2>2. CASE current = entry[Close]
    <3>1. /\ pc' = [pc EXCEPT ![Close] = "interrupt"] /\ pc = [x \in Actors |-> pc[x]]
          /\ gate' = [gate EXCEPT ![entry[Close]] = Close] /\ entry[Close] \in Entries
          /\ gate[entry[Close]] = Free /\ pc[Close] = "gate"
          /\ gate \in [Entries -> Actors \cup {Free}]
          /\ UNCHANGED <<entry, closing, current, entries>>
      BY <1>3, <2>2 DEF CloseGate, Goto, Take, Ungated, At, DrainInv, GateShape
    <3>2. GateShape'
      BY <1>1, <3>1 DEF DrainInv, GateShape, Actors
    <3>3. GateHeld'
      BY <1>1, <3>1, Apart DEF DrainInv, GateShape, GateHeld, Actors, ActorKinds
    <3>4. ClosingInv'
      BY <1>1, <3>1, Apart DEF DrainInv, GateShape, ClosingInv, Actors, Interrupted
    <3> QED
      BY <3>2, <3>3, <3>4 DEF DrainInv
  <2> QED
    BY <2>1, <2>2
<1>4. CASE CloseInterrupt
  <2>1. PICK l \in {"remove", "append"} : Goto(Close, l) /\ l \in Interrupted
    BY <1>4 DEF CloseInterrupt, Interrupted
  <2>2. /\ pc' = [pc EXCEPT ![Close] = l] /\ pc = [x \in Actors |-> pc[x]]
        /\ closing' = [closing EXCEPT ![entry[Close]] = TRUE] /\ entry[Close] \in Entries
        /\ gate[entry[Close]] = Close /\ pc[Close] = "interrupt"
        /\ closing \in [Entries -> BOOLEAN]
        /\ UNCHANGED <<entry, gate, current, entries>>
    BY <1>4, <2>1 DEF CloseInterrupt, Goto, At, DrainInv, GateShape, GateHeld, InClose
  <2>3. GateShape'
    BY <1>1, <2>2 DEF DrainInv, GateShape, Actors
  <2>4. GateHeld'
    BY <1>1, <2>2, Apart DEF DrainInv, GateShape, GateHeld, Actors, ActorKinds
  <2>5. ClosingInv'
    BY <1>1, <2>1, <2>2, Apart DEF DrainInv, GateShape, ClosingInv, Actors, Interrupted
  <2> QED
    BY <2>3, <2>4, <2>5 DEF DrainInv
<1>5. CASE CloseAppend
  <2>1. \E l \in {"mark", "remove"} : Goto(Close, l)
    BY <1>5 DEF CloseAppend
  <2> QED
    BY <1>1, <1>5, <2>1, GoesOn DEF CloseAppend, At, tables, InClose, Interrupted
<1>6. CASE CloseMark
  BY <1>1, <1>6, GoesOn DEF CloseMark, At, tables, InClose, Interrupted
<1>7. CASE CloseShow
  BY <1>1, <1>7, GoesOn DEF CloseShow, At, tables, InClose, Interrupted
<1>8. CASE CloseRemove
  BY <1>1, <1>8, DropsGate DEF CloseRemove, At, Interrupted
<1> QED
  BY <1>2, <1>3, <1>4, <1>5, <1>6, <1>7, <1>8 DEF Closing

LEMMA DrainStep == DrainInv /\ [ProjectionNext]_projection => DrainInv'
<1> SUFFICES ASSUME DrainInv, [ProjectionNext]_projection PROVE DrainInv'
  OBVIOUS
<1>1. CASE Opening
  <2>1. Open \in Actors /\ Open \notin Runs /\ Open # Close
    BY Apart DEF Actors, ActorKinds
  <2>2. CASE Rebind
    <3>1. entries + 1 \in Entries
      BY <2>2, ProjectionBounds DEF Rebind, Entries, DrainInv, GateShape
    <3> QED
      BY <2>1, <2>2, <3>1, GoesOn DEF Rebind
  <2>3. CASE Announce
    <3>1. current \in Entries \cup {None} /\ entries \in Entries
      BY DEF DrainInv, GateShape
    <3> QED
      BY <2>1, <2>3, <3>1, GoesOn DEF Announce, tables
  <2> QED
    BY <1>1, <2>2, <2>3 DEF Opening
<1>2. CASE UNCHANGED projection
  BY <1>2 DEF projection, tables, DrainInv, GateShape, GateHeld, ClosingInv
<1> QED
  BY <1>1, <1>2, PromptDrains, DrainDrains, SteerDrains, CloseDrains DEF ProjectionNext

-----------------------------------------------------------------------------
(* Who writes what                                                         *)

Written(a, kind, runs) ==
    trajectory' = Append(trajectory, [entry |-> entry[a], kind |-> kind, runs |-> runs])

LEMMA Writings ==
  ASSUME DrainInv, [ProjectionNext]_projection, trajectory' # trajectory
  PROVE  \/ \E r \in Runs : \/ Written(r, "prompt", {})
                            \/ Written(r, "started", {r})
                            \/ pc[r] \in InDrain /\ \E k \in {"content", "finished", "sealed"} :
                                  Written(r, k, {r})
         \/ Written(Steer, "steer", {})
         \/ Written(Close, "closed", clone[Close].live)
<1>1. ASSUME NEW r \in Runs, Prompt(r)
      PROVE  Written(r, "prompt", {}) \/ Written(r, "started", {r})
  <2>1. CASE PromptAdmit(r)
    BY <2>1 DEF PromptAdmit, Journal, JournalFails, Written
  <2>2. CASE PromptAppend(r)
    BY <2>2 DEF PromptAppend, Journal, JournalFails, Written
  <2>3. CASE ~PromptAdmit(r) /\ ~PromptAppend(r)
    BY <1>1, <2>3 DEF Prompt, PromptCapture, PromptEcho, PromptStarted, PromptShow, PromptMark,
                      PromptSpawn
  <2> QED
    BY <2>1, <2>2, <2>3
<1>2. ASSUME NEW r \in Runs, Drain(r)
      PROVE  pc[r] \in InDrain /\ \E k \in {"content", "finished", "sealed"} : Written(r, k, {r})
  <2>1. CASE DrainAppend(r)
    BY <2>1 DEF DrainAppend, Journal, JournalFails, Written, InDrain
  <2>2. CASE SealAppend(r)
    BY <2>2 DEF SealAppend, Journal, JournalFails, Written, At, InDrain
  <2>3. CASE ~DrainAppend(r) /\ ~SealAppend(r)
    BY <1>2, <2>3 DEF Drain, DrainBatch, DrainApply, DrainShow, StreamEnds, SealGate, SealApply
  <2> QED
    BY <2>1, <2>2, <2>3
<1>3. CASE Steering
  <2>1. CASE SteerAppend
    BY <2>1 DEF SteerAppend, Journal, JournalFails, Written
  <2> QED
    BY <1>3, <2>1 DEF Steering, SteerCapture, SteerLock, SteerApply
<1>4. CASE Closing
  <2>1. CASE CloseAppend
    BY <2>1 DEF CloseAppend, Journal, JournalFails, Written
  <2> QED
    BY <1>4, <2>1 DEF Closing, CloseCapture, CloseGate, CloseInterrupt, CloseMark, CloseShow,
                      CloseRemove
<1>5. CASE Opening
  BY <1>5 DEF Opening, Rebind, Announce
<1>6. CASE UNCHANGED projection
  BY <1>6 DEF projection
<1> QED
  BY <1>1, <1>2, <1>3, <1>4, <1>5, <1>6 DEF ProjectionNext

-----------------------------------------------------------------------------
(* The records: the batches, the snapshots and the clones                  *)

Batches == [entry : Entries, kind : Kinds, runs : SUBSET Runs]
Shots   == [applied : SUBSET Nat, live : SUBSET Runs, checkpoint : Nat]
RecordsOK ==
    /\ trajectory \in Seq(Batches) /\ snapshot \in [Entries -> Shots]
    /\ batch \in [Actors -> Nat] /\ clone \in [Actors -> Shots]

\* The last batch is what was written.
LEMMA LastWritten ==
  ASSUME trajectory \in Seq(Batches), NEW a, NEW kind, NEW runs, Written(a, kind, runs)
  PROVE  /\ DOMAIN trajectory' = 1..(Len(trajectory) + 1) /\ Len(trajectory) \in Nat
         /\ DOMAIN trajectory = 1..Len(trajectory) /\ Len(trajectory') = Len(trajectory) + 1
         /\ trajectory'[Len(trajectory) + 1] = [entry |-> entry[a], kind |-> kind, runs |-> runs]
         /\ \A n \in 1..Len(trajectory) : trajectory'[n] = trajectory[n]
<1> DEFINE b == [entry |-> entry[a], kind |-> kind, runs |-> runs]
<1>1. trajectory' = Append(trajectory, b)
  BY DEF Written
<1> HIDE DEF b
<1>2. /\ DOMAIN Append(trajectory, b) = 1..(Len(trajectory) + 1) /\ Len(trajectory) \in Nat
      /\ DOMAIN trajectory = 1..Len(trajectory)
      /\ Len(Append(trajectory, b)) = Len(trajectory) + 1
      /\ Append(trajectory, b)[Len(trajectory) + 1] = b
      /\ \A n \in 1..Len(trajectory) : Append(trajectory, b)[n] = trajectory[n]
  OBVIOUS
<1> QED
  BY <1>1, <1>2 DEF b

LEMMA RecordsInit == ProjectionInit => RecordsOK
<1> SUFFICES ASSUME ProjectionInit PROVE RecordsOK
  OBVIOUS
<1>1. Clean \in Shots
  BY DEF Clean, Shots
<1> QED
  BY <1>1 DEF ProjectionInit, RecordsOK, None

LEMMA Journals ==
  ASSUME DrainInv, RecordsOK, NEW a \in Runs \cup {Steer, Close}, pc[a] # "idle",
         NEW kind \in Kinds, NEW runs \in SUBSET Runs, Journal(a, kind, runs)
  PROVE  /\ trajectory' \in Seq(Batches) /\ batch' \in [Actors -> Nat]
         /\ \A x \in Actors : batch'[x] \in Nat
<1>1. [entry |-> entry[a], kind |-> kind, runs |-> runs] \in Batches
  BY DEF DrainInv, GateShape, Batches
<1>2. trajectory' \in Seq(Batches)
  BY <1>1 DEF Journal, RecordsOK
<1>3. Len(trajectory) + 1 \in Nat /\ batch \in [Actors -> Nat]
  BY DEF RecordsOK
<1> QED
  BY <1>2, <1>3 DEF Journal

\* A snapshot under its lock: what is applied, what is live, and the checkpoint.
LEMMA ShotsChange ==
  ASSUME NEW s \in Shots, NEW b \in Nat, NEW L \in SUBSET Runs
  PROVE  /\ [s EXCEPT !.live = L] \in Shots /\ [s EXCEPT !.live = L].live = L
         /\ [s EXCEPT !.applied = s.applied \cup {b}] \in Shots
         /\ [s EXCEPT !.applied = s.applied \cup {b}].live = s.live
         /\ [s EXCEPT !.checkpoint = b] \in Shots /\ [s EXCEPT !.checkpoint = b].live = s.live
         /\ [s EXCEPT !.applied = s.applied \cup {b}, !.checkpoint = b] \in Shots
         /\ [s EXCEPT !.applied = s.applied \cup {b}, !.checkpoint = b].live = s.live
         /\ [applied |-> s.applied \cup {b}, live |-> L, checkpoint |-> b] \in Shots
         /\ s.live \in SUBSET Runs
  BY DEF Shots

\* Every step takes the snapshot of one entry to another, with the live runs that
\* ShotsChange speaks of, or none.
Changes(e, L) ==
    /\ snapshot' \in [Entries -> Shots]
    /\ snapshot'[e].live = L
    /\ \A f \in Entries : f # e => snapshot'[f] = snapshot[f]

LEMMA SnapshotChanges ==
  ASSUME RecordsOK, NEW e \in Entries, NEW v \in Shots, snapshot' = [snapshot EXCEPT ![e] = v]
  PROVE  Changes(e, v.live)
  BY DEF RecordsOK, Changes

LEMMA Projects ==
  ASSUME DrainInv, RecordsOK, NEW a \in Runs, pc[a] # "idle", NEW L \in SUBSET Runs, Project(a, L)
  PROVE  Changes(entry[a], L)
<1>1. /\ entry[a] \in Entries /\ batch[a] \in Nat /\ snapshot[entry[a]] \in Shots
  BY DEF DrainInv, GateShape, RecordsOK, Actors
<1> DEFINE v == [applied |-> snapshot[entry[a]].applied \cup {batch[a]}, live |-> L,
                 checkpoint |-> batch[a]]
<1>2. snapshot' = [snapshot EXCEPT ![entry[a]] = v] /\ v.live = L
  BY DEF Project
<1>3. v \in Shots
  BY <1>1, ShotsChange
<1> HIDE DEF v
<1> QED
  BY <1>1, <1>2, <1>3, SnapshotChanges

LEMMA Remembers ==
  ASSUME RecordsOK, DrainInv, NEW a \in Runs \cup {Close}, pc[a] # "idle",
         snapshot' \in [Entries -> Shots], Remember(a)
  PROVE  /\ clone' \in [Actors -> Shots]
         /\ a # Close => clone'[Close] = clone[Close]
  BY Apart DEF Remember, RecordsOK, DrainInv, GateShape, Actors

-----------------------------------------------------------------------------
(* The ends of the runs                                                    *)

Before   == {"idle", "admit", "echo", "allocating"}
Settling == {"applyFinished", "applySealed"}
Leaving  == Settling \cup {"showLast", "done"}

\* The terminal batches of a run.
Endings(r) == {n \in DOMAIN trajectory : trajectory[n].kind \in Terminals /\ r \in trajectory[n].runs}

\* What the step of a prompt or of its drain does to the run.
RunMoves(r) ==
    /\ \A a \in Actors : a # r => pc'[a] = pc[a] /\ entry'[a] = entry[a]
    /\ pc[r] # "idle" => entry'[r] = entry[r]
    /\ closing' = closing /\ clone'[Close] = clone[Close]
    /\ pc'[r] \in Before => pc[r] \in Before
    /\ pc[r] \in Leaving => pc'[r] \in Leaving
    /\ pc'[r] \in InDrain => pc[r] \in InDrain \/ ~closing[entry[r]]
    /\ \A e \in Entries : \A q \in snapshot'[e].live :
          q \in snapshot[e].live \/ (q = r /\ e = entry[r] /\ pc[r] = "allocating" /\ pc'[r] = "show")
    /\ pc[r] \in Settling => pc'[r] \in Settling \/ r \notin snapshot'[entry[r]].live
    /\ \/ trajectory' = trajectory
       \/ Written(r, "prompt", {}) \/ Written(r, "started", {r})
       \/ pc[r] = "content" /\ Written(r, "content", {r})
       \/ /\ pc[r] \in {"finished", "seal"} /\ pc'[r] \in Settling
          /\ Written(r, "finished", {r}) \/ Written(r, "sealed", {r})

\* The part of it that most steps have in common: the run goes on to l, and no
\* snapshot shows more runs than before.
LEMMA MovesTo ==
  ASSUME DrainInv, NEW r \in Runs, NEW l, Goto(r, l), UNCHANGED <<closing, entry>>, pc[r] # "idle",
         clone'[Close] = clone[Close],
         \A e \in Entries : snapshot'[e].live \subseteq snapshot[e].live,
         l \notin Before \/ pc[r] \in Before,
         pc[r] \notin Leaving, l \in InDrain => pc[r] \in InDrain \/ ~closing[entry[r]],
         \/ trajectory' = trajectory
         \/ Written(r, "prompt", {}) \/ Written(r, "started", {r})
         \/ pc[r] = "content" /\ Written(r, "content", {r})
         \/ /\ pc[r] \in {"finished", "seal"} /\ l \in Settling
            /\ Written(r, "finished", {r}) \/ Written(r, "sealed", {r})
  PROVE  RunMoves(r)
<1>1. pc'[r] = l /\ \A a \in Actors : a # r => pc'[a] = pc[a]
  BY DEF Goto, DrainInv, GateShape, Actors
<1> QED
  BY <1>1 DEF RunMoves, Leaving

\* A step that changes one snapshot.
LEMMA ChangesLess ==
  ASSUME NEW e \in Entries, NEW L, Changes(e, L), L \subseteq snapshot[e].live
  PROVE  \A f \in Entries : snapshot'[f].live \subseteq snapshot[f].live
  BY DEF Changes

LEMMA PromptMoves ==
  ASSUME DrainInv, RecordsOK, NEW r \in Runs, Prompt(r)
  PROVE  RecordsOK' /\ RunMoves(r)
<1>0. /\ r \in Actors /\ r # Close /\ r \in Runs \cup {Steer, Close} /\ {r} \in SUBSET Runs
      /\ {} \in SUBSET Runs /\ pc = [x \in Actors |-> pc[x]]
      /\ pc[r] # "idle" => entry[r] \in Entries
      /\ trajectory \in Seq(Batches) /\ snapshot \in [Entries -> Shots]
      /\ batch \in [Actors -> Nat] /\ clone \in [Actors -> Shots]
      /\ \A e \in Entries : snapshot[e] \in Shots /\ snapshot[e].live \in SUBSET Runs
  BY Apart DEF Actors, ActorKinds, DrainInv, GateShape, RecordsOK, Shots
<1>1. \A k \in {"prompt", "started", "content", "finished", "sealed"} : k \in Kinds
  BY DEF Kinds, Terminals
<1> DEFINE Less == \A f \in Entries : snapshot'[f].live \subseteq snapshot[f].live
<1>2. CASE PromptCapture(r)
  <2>1. /\ pc' = [pc EXCEPT ![r] = "admit"] /\ pc[r] = "idle"
        /\ entry' = [entry EXCEPT ![r] = current]
        /\ UNCHANGED <<closing, clone, snapshot, trajectory, batch>>
    BY <1>2 DEF PromptCapture, Capture, At, Goto, tables
  <2>2. \A a \in Actors : a # r => pc'[a] = pc[a] /\ entry'[a] = entry[a]
    BY <2>1 DEF DrainInv, GateShape
  <2> QED
    BY <1>0, <2>1, <2>2 DEF RunMoves, RecordsOK, Before, Leaving, Settling, InDrain
<1>3. CASE PromptAdmit(r)
  <2>1. PICK l \in {"echo", "done"} : Goto(r, l)
    BY <1>3 DEF PromptAdmit
  <2>2. /\ trajectory' = trajectory /\ batch' = batch
        \/ Journal(r, "prompt", {})
    BY <1>3 DEF PromptAdmit, JournalFails
  <2>3. pc[r] = "admit" /\ UNCHANGED <<snapshot, clone, entry, closing>>
    BY <1>3 DEF PromptAdmit, At, tables
  <2>4. RecordsOK'
    BY <1>0, <1>1, <2>2, <2>3, Journals DEF RecordsOK
  <2>5. trajectory' = trajectory \/ Written(r, "prompt", {})
    BY <2>2 DEF Journal, Written
  <2> QED
    BY <2>1, <2>3, <2>4, <2>5, MovesTo DEF Before, Leaving, Settling, InDrain
<1>4. CASE PromptEcho(r)
  <2>1. PICK l \in {"allocating", "done"} : Goto(r, l)
    BY <1>4 DEF PromptEcho
  <2>2. /\ pc[r] = "echo" /\ UNCHANGED <<trajectory, batch, clone, entry, closing>>
        /\ Project(r, snapshot[entry[r]].live)
    BY <1>4 DEF PromptEcho, At, tables, Mine
  <2>3. Changes(entry[r], snapshot[entry[r]].live)
    BY <1>0, <2>2, Projects
  <2>4. RecordsOK'
    BY <1>0, <2>2, <2>3 DEF RecordsOK, Changes
  <2>5. Less
    BY <1>0, <2>2, <2>3, ChangesLess
  <2> QED
    BY <2>1, <2>2, <2>4, <2>5, MovesTo DEF Before, Leaving, Settling, InDrain
<1>5. CASE PromptStarted(r)
  <2>0. pc[r] = "allocating" /\ UNCHANGED <<trajectory, batch, entry, closing>>
    BY <1>5 DEF PromptStarted, At, tables
  <2>1. CASE Goto(r, "done") /\ UNCHANGED <<snapshot, clone>>
    <3>1. RecordsOK'
      BY <1>0, <2>0, <2>1 DEF RecordsOK
    <3> QED
      BY <2>0, <2>1, <3>1, MovesTo DEF Before, Leaving, Settling, InDrain
  <2>2. CASE Goto(r, "show") /\ Remember(r)
             /\ snapshot' = [snapshot EXCEPT ![entry[r]].live = @ \cup {r}]
    <3> DEFINE v == [snapshot[entry[r]] EXCEPT !.live = snapshot[entry[r]].live \cup {r}]
    <3>1. v \in Shots /\ v.live = snapshot[entry[r]].live \cup {r}
      BY <1>0, <2>0, ShotsChange
    <3>2. snapshot' = [snapshot EXCEPT ![entry[r]] = v]
      BY <2>2
    <3> HIDE DEF v
    <3>3. Changes(entry[r], snapshot[entry[r]].live \cup {r})
      BY <1>0, <2>0, <3>1, <3>2, SnapshotChanges
    <3>4. clone' \in [Actors -> Shots] /\ clone'[Close] = clone[Close]
      BY <1>0, <2>0, <2>2, <3>3, Remembers DEF Changes
    <3>5. RecordsOK'
      BY <1>0, <2>0, <3>3, <3>4 DEF RecordsOK, Changes
    <3>6. pc'[r] = "show" /\ \A a \in Actors : a # r => pc'[a] = pc[a]
      BY <1>0, <2>2 DEF Goto
    <3>7. \A e \in Entries : \A q \in snapshot'[e].live :
             q \in snapshot[e].live \/ (q = r /\ e = entry[r])
      BY <1>0, <2>0, <3>3 DEF Changes
    <3> QED
      BY <1>0, <2>0, <3>4, <3>5, <3>6, <3>7 DEF RunMoves, Before, Leaving, Settling, InDrain
  <2> QED
    BY <1>5, <2>1, <2>2 DEF PromptStarted
<1>6. CASE PromptShow(r)
  <2>1. /\ pc[r] = "show" /\ Goto(r, "append")
        /\ UNCHANGED <<snapshot, trajectory, batch, clone, entry, closing>>
    BY <1>6 DEF PromptShow, At, tables
  <2>2. RecordsOK'
    BY <1>0, <2>1 DEF RecordsOK
  <2> QED
    BY <2>1, <2>2, MovesTo DEF Before, Leaving, Settling, InDrain
<1>7. CASE PromptAppend(r)
  <2>0. pc[r] = "append" /\ UNCHANGED <<clone, entry, closing>>
    BY <1>7 DEF PromptAppend, At, tables
  <2>1. CASE /\ Journal(r, "started", {r}) /\ Goto(r, "mark")
             /\ snapshot' = [snapshot EXCEPT ![entry[r]].applied = @ \cup {batch'[r]}]
    <3>1. trajectory' \in Seq(Batches) /\ batch' \in [Actors -> Nat] /\ batch'[r] \in Nat
      BY <1>0, <1>1, <2>0, <2>1, Journals
    <3> DEFINE v == [snapshot[entry[r]] EXCEPT !.applied = snapshot[entry[r]].applied \cup {batch'[r]}]
    <3>2. v \in Shots /\ v.live = snapshot[entry[r]].live
      BY <1>0, <2>0, <3>1, ShotsChange
    <3>3. snapshot' = [snapshot EXCEPT ![entry[r]] = v]
      BY <2>1
    <3> HIDE DEF v
    <3>4. Changes(entry[r], snapshot[entry[r]].live)
      BY <1>0, <2>0, <3>2, <3>3, SnapshotChanges
    <3>5. RecordsOK'
      BY <1>0, <2>0, <3>1, <3>4 DEF RecordsOK, Changes
    <3>6. Less
      BY <1>0, <2>0, <3>4, ChangesLess
    <3>7. Written(r, "started", {r})
      BY <2>1 DEF Journal, Written
    <3> QED
      BY <2>0, <2>1, <3>5, <3>6, <3>7, MovesTo DEF Before, Leaving, Settling, InDrain
  <2>2. CASE Goto(r, "eof") /\ UNCHANGED <<trajectory, batch, snapshot>>
    <3>1. RecordsOK'
      BY <1>0, <2>0, <2>2 DEF RecordsOK
    <3> QED
      BY <2>0, <2>2, <3>1, MovesTo DEF Before, Leaving, Settling, InDrain
  <2> QED
    BY <1>7, <2>1, <2>2 DEF PromptAppend, JournalFails
<1>8. CASE PromptMark(r)
  <2>1. /\ pc[r] = "mark" /\ Goto(r, "spawn") /\ Remember(r)
        /\ snapshot' = [snapshot EXCEPT ![entry[r]].checkpoint = batch[r]]
        /\ UNCHANGED <<trajectory, batch, entry, closing>>
    BY <1>8 DEF PromptMark, At, tables
  <2> DEFINE v == [snapshot[entry[r]] EXCEPT !.checkpoint = batch[r]]
  <2>2. v \in Shots /\ v.live = snapshot[entry[r]].live
    BY <1>0, <2>1, ShotsChange
  <2>3. snapshot' = [snapshot EXCEPT ![entry[r]] = v]
    BY <2>1
  <2> HIDE DEF v
  <2>4. Changes(entry[r], snapshot[entry[r]].live)
    BY <1>0, <2>1, <2>2, <2>3, SnapshotChanges
  <2>5. clone' \in [Actors -> Shots] /\ clone'[Close] = clone[Close]
    BY <1>0, <2>1, <2>4, Remembers DEF Changes
  <2>6. RecordsOK' /\ Less
    BY <1>0, <2>1, <2>4, <2>5, ChangesLess DEF RecordsOK, Changes
  <2> QED
    BY <2>1, <2>5, <2>6, MovesTo DEF Before, Leaving, Settling, InDrain
<1>9. CASE PromptSpawn(r)
  <2>1. /\ pc[r] = "spawn" /\ Goto(r, "stream")
        /\ UNCHANGED <<snapshot, trajectory, batch, clone, entry, closing>>
    BY <1>9 DEF PromptSpawn, At, tables
  <2>2. RecordsOK'
    BY <1>0, <2>1 DEF RecordsOK
  <2> QED
    BY <2>1, <2>2, MovesTo DEF Before, Leaving, Settling, InDrain
<1> QED
  BY <1>2, <1>3, <1>4, <1>5, <1>6, <1>7, <1>8, <1>9 DEF Prompt

\* A run that has been journaled as ended, or could not be, leaves the live runs.
LEMMA SettlesRun ==
  ASSUME DrainInv, RecordsOK, NEW r \in Runs, pc[r] \in Settling \cup {"applyUnsaved"},
         Goto(r, "showLast"), Remember(r), UNCHANGED <<closing, trajectory, entry, batch>>,
         Changes(entry[r], snapshot[entry[r]].live \ {r})
  PROVE  RecordsOK' /\ RunMoves(r)
<1>1. /\ pc[r] # "idle" /\ pc[r] \in InDrain /\ entry[r] \in Entries /\ r \in Actors /\ r # Close
      /\ pc = [x \in Actors |-> pc[x]]
  BY Apart DEF Settling, InDrain, DrainInv, GateShape, Actors, ActorKinds
<1>2. clone' \in [Actors -> Shots] /\ clone'[Close] = clone[Close]
  BY <1>1, Remembers DEF Changes
<1>3. RecordsOK'
  BY <1>1, <1>2 DEF RecordsOK, Changes
<1>4. pc'[r] = "showLast" /\ \A a \in Actors : a # r => pc'[a] = pc[a]
  BY <1>1 DEF Goto
<1>5. /\ \A f \in Entries : snapshot'[f].live \subseteq snapshot[f].live
      /\ r \notin snapshot'[entry[r]].live
  BY <1>1, ChangesLess DEF Changes
<1> QED
  BY <1>1, <1>2, <1>3, <1>4, <1>5 DEF RunMoves, Before, Leaving, Settling, InDrain

LEMMA DrainMoves ==
  ASSUME DrainInv, RecordsOK, NEW r \in Runs, Drain(r)
  PROVE  RecordsOK' /\ RunMoves(r)
<1>0. /\ r \in Actors /\ r # Close /\ r \in Runs \cup {Steer, Close} /\ {r} \in SUBSET Runs
      /\ pc = [x \in Actors |-> pc[x]]
      /\ pc[r] # "idle" => entry[r] \in Entries
      /\ trajectory \in Seq(Batches) /\ snapshot \in [Entries -> Shots]
      /\ batch \in [Actors -> Nat] /\ clone \in [Actors -> Shots]
      /\ \A e \in Entries : snapshot[e] \in Shots /\ snapshot[e].live \in SUBSET Runs
  BY Apart DEF Actors, ActorKinds, DrainInv, GateShape, RecordsOK, Shots
<1>1. \A k \in {"content", "finished", "sealed"} : k \in Kinds
  BY DEF Kinds, Terminals
<1>2. CASE DrainBatch(r)
  <2>1. /\ pc[r] = "stream"
        /\ UNCHANGED <<closing, snapshot, trajectory, entry, batch, clone>>
    BY <1>2 DEF DrainBatch, At
  <2>2. \E l \in {"done", "content", "finished"} : Goto(r, l) /\ (l \in InDrain => ~closing[entry[r]])
    BY <1>2 DEF DrainBatch, Stale, InDrain
  <2>3. RecordsOK'
    BY <1>0, <2>1 DEF RecordsOK
  <2> QED
    BY <2>1, <2>2, <2>3, MovesTo DEF Before, Leaving, Settling
<1>3. CASE DrainAppend(r)
  <2>1. /\ pc[r] \in {"content", "finished"}
        /\ UNCHANGED <<closing, snapshot, entry, clone>>
    BY <1>3 DEF DrainAppend, tables
  <2>2. CASE Goto(r, "seal") /\ UNCHANGED <<trajectory, batch>>
    <3>1. RecordsOK'
      BY <1>0, <2>1, <2>2 DEF RecordsOK
    <3> QED
      BY <2>1, <2>2, <3>1, MovesTo DEF Before, Leaving, Settling, InDrain
  <2>3. CASE Journal(r, pc[r], {r})
             /\ Goto(r, IF pc[r] = "content" THEN "applyContent" ELSE "applyFinished")
    <3>1. RecordsOK'
      BY <1>0, <1>1, <2>1, <2>3, Journals DEF RecordsOK
    <3>2. Written(r, pc[r], {r})
      BY <2>3 DEF Journal, Written
    <3>3. CASE pc[r] = "content"
      BY <2>1, <2>3, <3>1, <3>2, <3>3, MovesTo DEF Before, Leaving, Settling, InDrain
    <3>4. CASE pc[r] = "finished"
      BY <2>1, <2>3, <3>1, <3>2, <3>4, MovesTo DEF Before, Leaving, Settling, InDrain
    <3> QED
      BY <2>1, <3>3, <3>4
  <2> QED
    BY <1>3, <2>2, <2>3 DEF DrainAppend, JournalFails
<1>4. CASE DrainApply(r)
  <2>1. UNCHANGED <<closing, trajectory, entry, batch>> /\ Remember(r)
    BY <1>4 DEF DrainApply, tables
  <2>2. CASE pc[r] = "applyContent" /\ Project(r, Mine(r).live) /\ Goto(r, "showContent")
    <3>1. Changes(entry[r], snapshot[entry[r]].live)
      BY <1>0, <2>2, Projects DEF Mine
    <3>2. clone' \in [Actors -> Shots] /\ clone'[Close] = clone[Close]
      BY <1>0, <2>1, <2>2, <3>1, Remembers DEF Changes
    <3>3. RecordsOK'
      BY <1>0, <2>1, <3>1, <3>2 DEF RecordsOK, Changes
    <3>4. \A f \in Entries : snapshot'[f].live \subseteq snapshot[f].live
      BY <1>0, <2>2, <3>1, ChangesLess
    <3> QED
      BY <2>1, <2>2, <3>2, <3>3, <3>4, MovesTo DEF Before, Leaving, Settling, InDrain
  <2>3. CASE pc[r] = "applyFinished" /\ Project(r, Mine(r).live \ {r}) /\ Goto(r, "showLast")
    <3>1. Changes(entry[r], snapshot[entry[r]].live \ {r})
      BY <1>0, <2>3, Projects DEF Mine
    <3> QED
      BY <1>0, <2>1, <2>3, <3>1, SettlesRun DEF Settling
  <2> QED
    BY <1>4, <2>2, <2>3 DEF DrainApply, At
<1>5. CASE DrainShow(r)
  <2>1. UNCHANGED <<closing, snapshot, trajectory, entry, batch, clone>>
    BY <1>5 DEF DrainShow
  <2>2. RecordsOK'
    BY <1>0, <2>1 DEF RecordsOK
  <2>3. CASE pc[r] = "showContent" /\ Goto(r, "stream")
    BY <2>1, <2>2, <2>3, MovesTo DEF Before, Leaving, Settling, InDrain
  <2>4. CASE pc[r] = "showLast" /\ Goto(r, "done")
    <3>1. pc'[r] = "done" /\ \A a \in Actors : a # r => pc'[a] = pc[a]
      BY <1>0, <2>4 DEF Goto
    <3> QED
      BY <2>1, <2>2, <2>4, <3>1 DEF RunMoves, Before, Leaving, Settling, InDrain
  <2> QED
    BY <1>5, <2>3, <2>4 DEF DrainShow, At
<1>6. CASE StreamEnds(r)
  <2>1. /\ pc[r] = "stream" /\ Goto(r, "eof")
        /\ UNCHANGED <<snapshot, trajectory, batch, clone, entry, closing>>
    BY <1>6 DEF StreamEnds, At, tables
  <2>2. RecordsOK'
    BY <1>0, <2>1 DEF RecordsOK
  <2> QED
    BY <2>1, <2>2, MovesTo DEF Before, Leaving, Settling, InDrain
<1>7. CASE SealGate(r)
  <2>1. /\ pc[r] = "eof"
        /\ UNCHANGED <<closing, snapshot, trajectory, entry, batch, clone>>
    BY <1>7 DEF SealGate, At
  <2>2. \E l \in {"done", "seal"} : Goto(r, l) /\ (l \in InDrain => ~closing[entry[r]])
    BY <1>7 DEF SealGate, Stale, InDrain
  <2>3. RecordsOK'
    BY <1>0, <2>1 DEF RecordsOK
  <2> QED
    BY <2>1, <2>2, <2>3, MovesTo DEF Before, Leaving, Settling
<1>8. CASE SealAppend(r)
  <2>1. pc[r] = "seal" /\ UNCHANGED <<closing, snapshot, entry, clone>>
    BY <1>8 DEF SealAppend, At
  <2>2. CASE \E l \in {"applyUnsaved", "done"} : Goto(r, l) /\ UNCHANGED <<trajectory, batch>>
    <3>1. RecordsOK'
      BY <1>0, <2>1, <2>2 DEF RecordsOK
    <3> QED
      BY <2>1, <2>2, <3>1, MovesTo DEF Before, Leaving, Settling, InDrain
  <2>3. CASE Journal(r, "sealed", {r}) /\ Goto(r, "applySealed")
    <3>1. RecordsOK'
      BY <1>0, <1>1, <2>1, <2>3, Journals DEF RecordsOK
    <3>2. Written(r, "sealed", {r})
      BY <2>3 DEF Journal, Written
    <3> QED
      BY <2>1, <2>3, <3>1, <3>2, MovesTo DEF Before, Leaving, Settling, InDrain
  <2> QED
    BY <1>8, <2>2, <2>3 DEF SealAppend, JournalFails
<1>9. CASE SealApply(r)
  <2>1. UNCHANGED <<closing, trajectory, entry, batch>> /\ Remember(r) /\ Goto(r, "showLast")
    BY <1>9 DEF SealApply, tables
  <2>2. CASE pc[r] = "applySealed" /\ Project(r, Mine(r).live \ {r})
    <3>1. Changes(entry[r], snapshot[entry[r]].live \ {r})
      BY <1>0, <2>2, Projects DEF Mine
    <3> QED
      BY <1>0, <2>1, <2>2, <3>1, SettlesRun DEF Settling
  <2>3. CASE pc[r] = "applyUnsaved" /\ snapshot' = [snapshot EXCEPT ![entry[r]].live = @ \ {r}]
    <3> DEFINE v == [snapshot[entry[r]] EXCEPT !.live = snapshot[entry[r]].live \ {r}]
    <3>0. /\ entry[r] \in Entries /\ snapshot[entry[r]] \in Shots /\ 0 \in Nat
          /\ snapshot[entry[r]].live \ {r} \in SUBSET Runs
      BY <1>0, <2>3
    <3>1. v \in Shots /\ v.live = snapshot[entry[r]].live \ {r}
      BY <3>0, ShotsChange
    <3>2. snapshot' = [snapshot EXCEPT ![entry[r]] = v]
      BY <2>3
    <3> HIDE DEF v
    <3>3. Changes(entry[r], snapshot[entry[r]].live \ {r})
      BY <3>0, <3>1, <3>2, SnapshotChanges
    <3> QED
      BY <1>0, <2>1, <2>3, <3>3, SettlesRun
  <2> QED
    BY <1>9, <2>2, <2>3 DEF SealApply, At
<1> QED
  BY <1>2, <1>3, <1>4, <1>5, <1>6, <1>7, <1>8, <1>9 DEF Drain

LiveHere == \A e \in Entries : \A r \in snapshot[e].live :
                r \in Runs /\ entry[r] = e /\ pc[r] \notin Before
NotYet   == \A r \in Runs : pc[r] \in Before => Endings(r) = {}
Owed     == pc[Close] = "append" => \A r \in clone[Close].live :
                r \in Runs /\ entry[r] = entry[Close] /\ pc[r] \notin Before /\ Endings(r) = {}
Ended    == \A r \in Runs : Endings(r) # {} =>
                pc[r] \in Leaving \/ (closing[entry[r]] /\ pc[r] \notin InDrain)
Settled  == \A e \in Entries : \A r \in snapshot[e].live : Endings(r) # {} =>
                pc[r] \in Settling \/ closing[e]
EndsInv  == LiveHere /\ NotYet /\ Owed /\ Ended /\ Settled

LEMMA EndingsStay ==
  ASSUME RecordsOK, NEW r,
         \/ trajectory' = trajectory
         \/ \E a, kind, runs : Written(a, kind, runs) /\ (kind \notin Terminals \/ r \notin runs)
  PROVE  Endings(r)' = Endings(r)
<1>1. CASE trajectory' = trajectory
  BY <1>1 DEF Endings
<1>2. ASSUME NEW a, NEW kind, NEW runs, Written(a, kind, runs), kind \notin Terminals \/ r \notin runs
      PROVE  Endings(r)' = Endings(r)
  <2>1. trajectory \in Seq(Batches)
    BY DEF RecordsOK
  <2> DEFINE L == Len(trajectory)
  <2>2. /\ DOMAIN trajectory' = 1..(L + 1) /\ L \in Nat /\ DOMAIN trajectory = 1..L
        /\ trajectory'[L + 1] = [entry |-> entry[a], kind |-> kind, runs |-> runs]
        /\ \A n \in 1..L : trajectory'[n] = trajectory[n]
    BY <1>2, <2>1, LastWritten
  <2> HIDE DEF L
  <2>3. trajectory'[L + 1].kind \notin Terminals \/ r \notin trajectory'[L + 1].runs
    BY <1>2, <2>2
  <2>4. \A n : n \in Endings(r)' <=> n \in Endings(r)
    BY <2>2, <2>3 DEF Endings
  <2> QED
    BY <2>4
<1> QED
  BY <1>1, <1>2

LEMMA OnceStep ==
  ASSUME RecordsOK, RunEndsOnce,
         \/ trajectory' = trajectory
         \/ \E a, kind, runs : Written(a, kind, runs)
                               /\ (kind = "started" \/ \A q \in runs : Endings(q) = {})
  PROVE  RunEndsOnce'
<1>1. CASE trajectory' = trajectory
  BY <1>1 DEF RunEndsOnce
<1>2. ASSUME NEW a, NEW kind, NEW runs, Written(a, kind, runs),
             kind = "started" \/ \A q \in runs : Endings(q) = {}
      PROVE  RunEndsOnce'
  <2>1. trajectory \in Seq(Batches)
    BY DEF RecordsOK
  <2> DEFINE L == Len(trajectory)
  <2>2. /\ DOMAIN trajectory' = 1..(L + 1) /\ L \in Nat /\ DOMAIN trajectory = 1..L
        /\ trajectory'[L + 1] = [entry |-> entry[a], kind |-> kind, runs |-> runs]
        /\ \A n \in 1..L : trajectory'[n] = trajectory[n]
    BY <1>2, <2>1, LastWritten
  <2> HIDE DEF L
  <2> SUFFICES ASSUME NEW s \in 1..(L + 1), NEW t \in 1..(L + 1), s < t,
                      trajectory'[s].kind \in Terminals, trajectory'[t].kind # "started"
               PROVE  trajectory'[s].runs \cap trajectory'[t].runs = {}
    BY <2>2 DEF RunEndsOnce
  <2>3. s \in 1..L /\ trajectory'[s] = trajectory[s] /\ s \in DOMAIN trajectory
    BY <2>2
  <2>4. CASE t \in 1..L
    BY <2>2, <2>3, <2>4 DEF RunEndsOnce
  <2>5. CASE t = L + 1
    <3>1. kind # "started" /\ trajectory'[t].runs = runs
      BY <2>2, <2>5
    <3>2. \A q \in runs : s \notin Endings(q)
      BY <1>2, <3>1
    <3> QED
      BY <2>3, <3>1, <3>2 DEF Endings
  <2> QED
    BY <2>2, <2>4, <2>5
<1> QED
  BY <1>1, <1>2

\* A step of no run: the runs' places stay, and nothing terminal is written.
LEMMA Quiet ==
  ASSUME DrainInv, RecordsOK, EndsInv, RunEndsOnce,
         \A r \in Runs : pc'[r] = pc[r] /\ entry'[r] = entry[r],
         \A e \in Entries : /\ closing[e] => closing'[e]
                            /\ snapshot'[e].live \subseteq snapshot[e].live,
         trajectory' = trajectory \/ Written(Steer, "steer", {}),
         pc'[Close] = "append" =>
            pc[Close] = "append" /\ clone'[Close] = clone[Close] /\ entry'[Close] = entry[Close]
  PROVE  EndsInv' /\ RunEndsOnce'
<1>1. \A r : Endings(r)' = Endings(r)
  <2> TAKE r
  <2> QED
    BY EndingsStay
<1>2. RunEndsOnce'
  BY OnceStep
<1>3. \A r \in Runs : pc[r] \notin Before => entry[r] \in Entries
  BY DEF DrainInv, GateShape, Before
<1>4. LiveHere' /\ NotYet' /\ Owed' /\ Settled'
  BY <1>1 DEF EndsInv, LiveHere, NotYet, Owed, Settled
<1>5. Ended'
  BY <1>1, <1>3 DEF EndsInv, NotYet, Ended
<1> QED
  BY <1>2, <1>4, <1>5 DEF EndsInv

\* A step of a run.
LEMMA RunStep ==
  ASSUME DrainInv, RecordsOK, EndsInv, RunEndsOnce, NEW r \in Runs, RunMoves(r)
  PROVE  EndsInv' /\ RunEndsOnce'
<1>1. /\ r # Close /\ Close \in Actors /\ Runs \subseteq Actors
      /\ pc'[Close] = pc[Close] /\ entry'[Close] = entry[Close] /\ clone'[Close] = clone[Close]
      /\ closing' = closing
      /\ \A q \in Runs \ {r} : pc'[q] = pc[q] /\ entry'[q] = entry[q]
  BY Apart DEF ActorKinds, Actors, RunMoves
<1>2. /\ pc[r] \notin Before => entry[r] \in Entries /\ entry'[r] = entry[r]
      /\ pc'[r] \in Before => pc[r] \in Before
  BY DEF DrainInv, GateShape, Before, RunMoves
<1> DEFINE Terminal == Written(r, "finished", {r}) \/ Written(r, "sealed", {r})
<1>3. \A q \in Runs : Endings(q)' = Endings(q) \/ (q = r /\ Terminal)
  <2> TAKE q \in Runs
  <2>1. "prompt" \notin Terminals /\ "started" \notin Terminals /\ "content" \notin Terminals
    BY DEF Terminals
  <2>2. CASE trajectory' = trajectory
    BY <2>2, EndingsStay
  <2>3. CASE Written(r, "prompt", {}) \/ Written(r, "started", {r}) \/ Written(r, "content", {r})
    BY <2>1, <2>3, EndingsStay
  <2>4. CASE Terminal /\ q # r
    BY <2>4, EndingsStay
  <2> QED
    BY <2>2, <2>3, <2>4 DEF RunMoves
<1>4. pc[r] \in {"content", "finished", "seal"} => /\ Endings(r) = {} /\ ~closing[entry[r]]
                                                   /\ pc[r] \notin Before
  BY DEF DrainInv, GateHeld, EndsInv, Ended, InDrain, Leaving, Settling, Before
<1>5. /\ Terminal => pc[r] \in {"finished", "seal"} /\ pc'[r] \in Settling
      /\ trajectory' = trajectory \/ Written(r, "prompt", {}) \/ Written(r, "started", {r})
         \/ (pc[r] = "content" /\ Written(r, "content", {r})) \/ Terminal
  <2>1. ~(Terminal /\ trajectory' = trajectory) /\ ~(Terminal /\ Written(r, "prompt", {}))
        /\ ~(Terminal /\ Written(r, "started", {r})) /\ ~(Terminal /\ Written(r, "content", {r}))
    <3>1. trajectory \in Seq(Batches)
      BY DEF RecordsOK
    <3>2. \A k, s : Written(r, k, s) => /\ Len(trajectory') = Len(trajectory) + 1
                                        /\ Len(trajectory) \in Nat
                                        /\ trajectory'[Len(trajectory) + 1].kind = k
      <4> TAKE k, s
      <4> HAVE Written(r, k, s)
      <4>1. trajectory'[Len(trajectory) + 1] = [entry |-> entry[r], kind |-> k, runs |-> s]
            /\ Len(trajectory') = Len(trajectory) + 1 /\ Len(trajectory) \in Nat
        BY <3>1, LastWritten
      <4> QED
        BY <4>1
    <3> QED
      BY <3>2
  <2> QED
    BY <2>1 DEF RunMoves
<1>6. RunEndsOnce'
  <2>1. CASE trajectory' = trajectory \/ Written(r, "prompt", {}) \/ Written(r, "started", {r})
    BY <2>1, OnceStep
  <2>2. CASE pc[r] = "content" /\ Written(r, "content", {r})
    BY <1>4, <2>2, OnceStep
  <2>3. CASE Terminal
    BY <1>4, <1>5, <2>3, OnceStep
  <2> QED
    BY <1>5, <2>1, <2>2, <2>3
<1>7. \A e \in Entries : \A q \in snapshot'[e].live :
         q \in snapshot[e].live \/ (q = r /\ e = entry[r] /\ pc[r] = "allocating" /\ pc'[r] = "show")
  BY DEF RunMoves
<1> HIDE DEF Terminal
<1>8. LiveHere'
  <2>1. "show" \notin Before /\ "allocating" # "idle"
    BY DEF Before
  <2> SUFFICES ASSUME NEW e \in Entries, NEW q \in snapshot'[e].live
               PROVE  q \in Runs /\ entry'[q] = e /\ pc'[q] \notin Before
    BY DEF LiveHere
  <2>2. CASE q \in snapshot[e].live
    BY <1>1, <1>2, <2>2 DEF EndsInv, LiveHere
  <2>3. CASE q = r /\ e = entry[r] /\ pc[r] = "allocating" /\ pc'[r] = "show"
    BY <2>1, <2>3 DEF RunMoves
  <2> QED
    BY <1>7, <2>2, <2>3
<1>9. NotYet'
  <2>1. \A l \in Settling : l \notin Before
    BY DEF Settling, Before
  <2> QED
    BY <1>1, <1>2, <1>3, <1>5, <2>1 DEF EndsInv, NotYet
<1>10. Owed'
  <2> SUFFICES ASSUME pc[Close] = "append", NEW q \in clone[Close].live
               PROVE  q \in Runs /\ entry'[q] = entry[Close] /\ pc'[q] \notin Before /\ Endings(q)' = {}
    BY <1>1 DEF Owed
  <2>1. q \in Runs /\ entry[q] = entry[Close] /\ pc[q] \notin Before /\ Endings(q) = {}
    BY DEF EndsInv, Owed
  <2>2. closing[entry[q]]
    BY <2>1 DEF DrainInv, ClosingInv, Interrupted
  <2>3. ~(q = r /\ Terminal)
    BY <1>4, <1>5, <2>2
  <2> QED
    BY <1>1, <1>2, <1>3, <2>1, <2>3
<1>11. Ended'
  <2> SUFFICES ASSUME NEW q \in Runs, Endings(q)' # {}
               PROVE  pc'[q] \in Leaving \/ (closing[entry'[q]] /\ pc'[q] \notin InDrain)
    BY <1>1 DEF Ended
  <2>1. CASE q = r /\ Terminal
    BY <1>5, <2>1 DEF Leaving
  <2>2. CASE Endings(q) # {}
    <3>1. pc[q] \notin Before /\ (pc[q] \in Leaving \/ (closing[entry[q]] /\ pc[q] \notin InDrain))
      BY <2>2 DEF EndsInv, Ended, NotYet
    <3> QED
      BY <1>1, <1>2, <3>1 DEF RunMoves
  <2> QED
    BY <1>3, <2>1, <2>2
<1>12. Settled'
  <2> SUFFICES ASSUME NEW e \in Entries, NEW q \in snapshot'[e].live, Endings(q)' # {}
               PROVE  pc'[q] \in Settling \/ closing[e]
    BY <1>1 DEF Settled
  <2>1. q \in Runs
    BY <1>8 DEF LiveHere
  <2>2. CASE q = r /\ Terminal
    BY <1>5, <2>2
  <2>3. CASE Endings(q) # {}
    <3>1. q \in snapshot[e].live
      BY <1>7, <2>3 DEF EndsInv, NotYet, Before
    <3>2. entry[q] = e /\ (pc[q] \in Settling \/ closing[e])
      BY <2>3, <3>1 DEF EndsInv, LiveHere, Settled
    <3> QED
      BY <1>1, <2>1, <3>2 DEF RunMoves
  <2> QED
    BY <1>3, <2>1, <2>2, <2>3
<1> QED
  BY <1>6, <1>8, <1>9, <1>10, <1>11, <1>12 DEF EndsInv

LEMMA SteerEnds ==
  ASSUME DrainInv, RecordsOK, EndsInv, RunEndsOnce, Steering
  PROVE  RecordsOK' /\ EndsInv' /\ RunEndsOnce'
<1>0. /\ Steer \notin Runs /\ Steer # Close /\ Steer \in Actors /\ Close \in Actors /\ Runs \subseteq Actors
      /\ pc[Steer] # "idle" => entry[Steer] \in Entries
      /\ pc = [x \in Actors |-> pc[x]] /\ entry \in [Actors -> Entries \cup {None}]
  BY Apart DEF Actors, ActorKinds, DrainInv, GateShape
<1>1. UNCHANGED <<closing, clone>> /\ \E l : Goto(Steer, l)
  BY DEF Steering, SteerCapture, SteerLock, SteerAppend, SteerApply, tables
<1>2. entry' = entry \/ \E e : entry' = [entry EXCEPT ![Steer] = e]
  BY DEF Steering, SteerCapture, Capture, SteerLock, SteerAppend, SteerApply
<1>3. /\ RecordsOK'
      /\ trajectory' = trajectory \/ Written(Steer, "steer", {})
      /\ \A e \in Entries : snapshot'[e].live \subseteq snapshot[e].live
  <2>1. CASE SteerCapture \/ SteerLock
    <3>1. UNCHANGED <<trajectory, snapshot, batch, clone>>
      BY <2>1 DEF SteerCapture, SteerLock
    <3> QED
      BY <3>1 DEF RecordsOK
  <2>2. CASE SteerAppend
    <3>1. /\ pc[Steer] # "idle" /\ UNCHANGED <<snapshot, clone>>
          /\ (UNCHANGED <<trajectory, batch>> \/ Journal(Steer, "steer", {}))
      BY <2>2 DEF SteerAppend, At, JournalFails
    <3>2. "steer" \in Kinds /\ {} \in SUBSET Runs
      BY DEF Kinds
    <3>3. RecordsOK'
      BY <3>1, <3>2, Journals DEF RecordsOK
    <3>4. trajectory' = trajectory \/ Written(Steer, "steer", {})
      BY <3>1 DEF Journal, Written
    <3> QED
      BY <3>1, <3>3, <3>4
  <2>3. CASE SteerApply
    <3> DEFINE s == snapshot[entry[Steer]]
               v == [s EXCEPT !.applied = s.applied \cup {batch[Steer]}, !.checkpoint = batch[Steer]]
    <3>1. /\ entry[Steer] \in Entries /\ s \in Shots /\ batch[Steer] \in Nat /\ {} \in SUBSET Runs
          /\ UNCHANGED <<trajectory, batch, clone>>
      BY <1>0, <2>3 DEF SteerApply, At, RecordsOK
    <3>2. v \in Shots /\ v.live = s.live
      BY <3>1, ShotsChange
    <3>3. snapshot' = [snapshot EXCEPT ![entry[Steer]] = v]
      BY <2>3 DEF SteerApply, Mine
    <3> HIDE DEF v
    <3>4. Changes(entry[Steer], s.live)
      BY <3>1, <3>2, <3>3, SnapshotChanges
    <3>5. RecordsOK'
      BY <3>1, <3>4 DEF RecordsOK, Changes
    <3> QED
      BY <3>1, <3>4, <3>5, ChangesLess
  <2> QED
    BY <2>1, <2>2, <2>3 DEF Steering
<1>4. \A a \in Actors \ {Steer} : pc'[a] = pc[a] /\ entry'[a] = entry[a]
  BY <1>0, <1>1, <1>2 DEF Goto
<1>5. EndsInv' /\ RunEndsOnce'
  BY <1>0, <1>1, <1>3, <1>4, Quiet
<1> QED
  BY <1>3, <1>5

LEMMA OpenEnds ==
  ASSUME DrainInv, RecordsOK, EndsInv, RunEndsOnce, Opening
  PROVE  RecordsOK' /\ EndsInv' /\ RunEndsOnce'
<1>0. /\ Open \notin Runs /\ Open # Close /\ Open \in Actors /\ Close \in Actors /\ Runs \subseteq Actors
      /\ pc = [x \in Actors |-> pc[x]]
  BY Apart DEF Actors, ActorKinds, DrainInv, GateShape
<1>1. /\ UNCHANGED <<closing, clone, snapshot, trajectory, batch, entry>>
      /\ \E l : Goto(Open, l)
  BY DEF Opening, Rebind, Announce, tables
<1>2. \A a \in Actors \ {Open} : pc'[a] = pc[a] /\ entry'[a] = entry[a]
  BY <1>0, <1>1 DEF Goto
<1>3. RecordsOK'
  BY <1>1 DEF RecordsOK
<1> QED
  BY <1>0, <1>1, <1>2, <1>3, Quiet

LEMMA InterruptEnds ==
  ASSUME DrainInv, RecordsOK, EndsInv, RunEndsOnce, CloseInterrupt
  PROVE  RecordsOK' /\ EndsInv' /\ RunEndsOnce'
<1> DEFINE e == entry[Close]
           v == [snapshot[e] EXCEPT !.live = {}]
<1>0. /\ Close \notin Runs /\ Close \in Actors /\ Runs \subseteq Actors
      /\ pc = [x \in Actors |-> pc[x]] /\ closing \in [Entries -> BOOLEAN]
      /\ pc[Close] = "interrupt" /\ e \in Entries /\ snapshot[e] \in Shots
      /\ clone \in [Actors -> Shots]
  BY Apart DEF Actors, ActorKinds, DrainInv, GateShape, CloseInterrupt, At, RecordsOK
<1>1. /\ UNCHANGED <<trajectory, batch, entry>>
      /\ closing' = [closing EXCEPT ![e] = TRUE]
      /\ clone' = [clone EXCEPT ![Close] = snapshot[e]]
      /\ snapshot' = [snapshot EXCEPT ![e] = v]
      /\ \E l : Goto(Close, l)
  BY DEF CloseInterrupt, Mine
<1>2. v \in Shots /\ v.live = {}
  <2>1. {} \in SUBSET Runs /\ 0 \in Nat
    OBVIOUS
  <2> QED
    BY <1>0, <2>1, ShotsChange
<1> HIDE DEF v
<1>3. Changes(e, {})
  BY <1>0, <1>1, <1>2, SnapshotChanges
<1>4. RecordsOK'
  BY <1>0, <1>1, <1>3 DEF RecordsOK, Changes
<1>5. \A a \in Runs : pc'[a] = pc[a]
  BY <1>0, <1>1 DEF Goto
<1>6. \A r : Endings(r)' = Endings(r)
  BY <1>1 DEF Endings
<1>7. RunEndsOnce'
  BY <1>1 DEF RunEndsOnce
<1>8. \A r \in snapshot[e].live : r \in Runs /\ entry[r] = e /\ pc[r] \notin Before /\ Endings(r) = {}
  <2> TAKE r \in snapshot[e].live
  <2>1. r \in Runs /\ entry[r] = e /\ pc[r] \notin Before
    BY <1>0 DEF EndsInv, LiveHere
  <2>2. gate[e] = Close /\ ~closing[e]
    BY <1>0 DEF DrainInv, GateHeld, InClose, ClosingInv, Interrupted
  <2>3. pc[r] \notin Settling
    BY <1>0, <2>1, <2>2 DEF DrainInv, GateHeld, InDrain, Settling
  <2> QED
    BY <1>0, <2>1, <2>2, <2>3 DEF EndsInv, Settled
<1>9. LiveHere' /\ NotYet' /\ Settled'
  <2>1. LiveHere'
    BY <1>0, <1>1, <1>3, <1>5 DEF EndsInv, LiveHere, Changes
  <2>2. NotYet'
    BY <1>1, <1>5, <1>6 DEF EndsInv, NotYet
  <2>3. \A f \in Entries : (closing[f] => closing'[f]) /\ snapshot'[f].live \subseteq snapshot[f].live
    BY <1>0, <1>1, <1>3 DEF Changes
  <2>4. Settled'
    BY <1>5, <1>6, <2>3 DEF EndsInv, LiveHere, Settled
  <2> QED
    BY <2>1, <2>2, <2>4
<1>10. Owed'
  BY <1>0, <1>1, <1>5, <1>6, <1>8 DEF Owed
<1>11. Ended'
  <2>1. \A r \in Runs : closing[entry[r]] => closing'[entry[r]]
    BY <1>0, <1>1
  <2> QED
    BY <1>1, <1>5, <1>6, <2>1 DEF EndsInv, Ended
<1> QED
  BY <1>4, <1>7, <1>9, <1>10, <1>11 DEF EndsInv

LEMMA CloseAppendEnds ==
  ASSUME DrainInv, RecordsOK, EndsInv, RunEndsOnce, CloseAppend
  PROVE  RecordsOK' /\ EndsInv' /\ RunEndsOnce'
<1> DEFINE e == entry[Close]
           due == clone[Close].live
<1>0. /\ Close \notin Runs /\ Close \in Actors /\ Runs \subseteq Actors
      /\ pc = [x \in Actors |-> pc[x]]
      /\ pc[Close] = "append" /\ e \in Entries /\ snapshot[e] \in Shots
      /\ clone \in [Actors -> Shots] /\ due \in SUBSET Runs
  BY Apart DEF Actors, ActorKinds, DrainInv, GateShape, CloseAppend, At, RecordsOK, Shots
<1>1. UNCHANGED <<closing, entry, clone>>
  BY DEF CloseAppend, tables
<1>2. CASE Goto(Close, "remove") /\ UNCHANGED <<trajectory, batch, snapshot>>
  <2>1. RecordsOK'
    BY <1>1, <1>2 DEF RecordsOK
  <2>2. \A a \in Runs \cup {Close} : a # Close => pc'[a] = pc[a]
    BY <1>0, <1>2 DEF Goto
  <2>3. pc'[Close] # "append"
    BY <1>0, <1>2 DEF Goto
  <2> QED
    BY <1>0, <1>1, <1>2, <2>1, <2>2, <2>3, Quiet
<1>3. CASE /\ Journal(Close, "closed", due) /\ Goto(Close, "mark")
           /\ snapshot' = [snapshot EXCEPT ![e].applied = @ \cup {batch'[Close]}]
  <2>1. "closed" \in Kinds /\ "closed" \in Terminals
    BY DEF Kinds, Terminals
  <2>2. trajectory' \in Seq(Batches) /\ batch' \in [Actors -> Nat] /\ batch'[Close] \in Nat
    BY <1>0, <1>3, <2>1, Journals
  <2> DEFINE v == [snapshot[e] EXCEPT !.applied = snapshot[e].applied \cup {batch'[Close]}]
  <2>3. v \in Shots /\ v.live = snapshot[e].live
    <3>1. {} \in SUBSET Runs
      OBVIOUS
    <3> QED
      BY <1>0, <2>2, <3>1, ShotsChange
  <2>4. snapshot' = [snapshot EXCEPT ![e] = v]
    BY <1>3
  <2> HIDE DEF v
  <2>5. Changes(e, snapshot[e].live)
    BY <1>0, <2>3, <2>4, SnapshotChanges
  <2>6. RecordsOK'
    BY <1>1, <2>2, <2>5 DEF RecordsOK, Changes
  <2>7. \A a \in Runs : pc'[a] = pc[a]
    BY <1>0, <1>3 DEF Goto
  <2>8. pc'[Close] # "append"
    BY <1>0, <1>3 DEF Goto
  <2>9. Written(Close, "closed", due)
    BY <1>3 DEF Journal, Written
  <2>10. \A r \in due : /\ r \in Runs /\ entry[r] = e /\ pc[r] \notin Before /\ Endings(r) = {}
                         /\ closing[e] /\ pc[r] \notin InDrain
    BY <1>0 DEF EndsInv, Owed, DrainInv, ClosingInv, Interrupted, GateHeld
  <2>11. \A r : r \notin due => Endings(r)' = Endings(r)
    <3> TAKE r
    <3> QED
      BY <2>9, EndingsStay
  <2>12. RunEndsOnce'
    BY <2>9, <2>10, OnceStep
  <2>13. \A f \in Entries : snapshot'[f].live = snapshot[f].live
    BY <1>0, <2>5 DEF Changes
  <2>14. LiveHere' /\ NotYet' /\ Owed'
    BY <1>1, <2>7, <2>8, <2>10, <2>11, <2>13 DEF EndsInv, LiveHere, NotYet, Owed
  <2>15. Ended'
    BY <1>1, <2>7, <2>10, <2>11 DEF EndsInv, Ended
  <2>16. Settled'
    BY <1>1, <2>7, <2>10, <2>11, <2>13 DEF EndsInv, LiveHere, Settled
  <2> QED
    BY <2>6, <2>12, <2>14, <2>15, <2>16 DEF EndsInv
<1> QED
  BY <1>2, <1>3 DEF CloseAppend, JournalFails

LEMMA CloseEnds ==
  ASSUME DrainInv, RecordsOK, EndsInv, RunEndsOnce, Closing
  PROVE  RecordsOK' /\ EndsInv' /\ RunEndsOnce'
<1>0. /\ Close \notin Runs /\ Close \in Actors /\ Runs \subseteq Actors
      /\ pc = [x \in Actors |-> pc[x]] /\ entry \in [Actors -> Entries \cup {None}]
      /\ pc[Close] # "idle" => entry[Close] \in Entries /\ snapshot[entry[Close]] \in Shots
      /\ batch \in [Actors -> Nat]
  BY Apart DEF Actors, ActorKinds, DrainInv, GateShape, RecordsOK
<1>1. CASE CloseCapture \/ CloseGate \/ CloseShow \/ CloseRemove
  <2>1. /\ UNCHANGED <<closing, clone, snapshot, trajectory, batch>>
        /\ \E l : Goto(Close, l) /\ l # "append"
        /\ entry' = entry \/ \E x : entry' = [entry EXCEPT ![Close] = x]
    BY <1>1 DEF CloseCapture, Capture, CloseGate, CloseShow, CloseRemove, tables
  <2>2. RecordsOK'
    BY <2>1 DEF RecordsOK
  <2>3. \A a \in Runs : pc'[a] = pc[a] /\ entry'[a] = entry[a]
    BY <1>0, <2>1 DEF Goto
  <2>4. pc'[Close] # "append"
    BY <1>0, <2>1 DEF Goto
  <2> QED
    BY <2>1, <2>2, <2>3, <2>4, Quiet
<1>2. CASE CloseMark
  <2> DEFINE e == entry[Close]
             v == [snapshot[e] EXCEPT !.checkpoint = batch[Close]]
  <2>1. /\ UNCHANGED <<closing, entry, trajectory, batch>> /\ Goto(Close, "show") /\ Remember(Close)
        /\ pc[Close] # "idle" /\ snapshot' = [snapshot EXCEPT ![e] = v]
    BY <1>2 DEF CloseMark, At, tables
  <2>2. v \in Shots /\ v.live = snapshot[e].live
    <3>1. {} \in SUBSET Runs /\ batch[Close] \in Nat
      BY <1>0
    <3> QED
      BY <1>0, <2>1, <3>1, ShotsChange
  <2> HIDE DEF v
  <2>3. Changes(e, snapshot[e].live)
    BY <1>0, <2>1, <2>2, SnapshotChanges
  <2>4. clone' \in [Actors -> Shots]
    BY <2>1, <2>3, Remembers DEF Changes
  <2>5. RecordsOK'
    BY <2>1, <2>3, <2>4 DEF RecordsOK, Changes
  <2>6. (\A a \in Runs : pc'[a] = pc[a]) /\ pc'[Close] # "append"
    BY <1>0, <2>1 DEF Goto
  <2>7. \A f \in Entries : snapshot'[f].live \subseteq snapshot[f].live
    BY <1>0, <2>1, <2>3, ChangesLess
  <2> QED
    BY <2>1, <2>5, <2>6, <2>7, Quiet
<1> QED
  BY <1>1, <1>2, InterruptEnds, CloseAppendEnds DEF Closing

\* The invariant of the projection.
ProjectionInv == DrainInv /\ RecordsOK /\ EndsInv /\ RunEndsOnce

LEMMA ProjectionInvInit == ProjectionInit => ProjectionInv
<1> SUFFICES ASSUME ProjectionInit PROVE ProjectionInv
  OBVIOUS
<1>1. trajectory = <<>> /\ DOMAIN trajectory = {}
  BY DEF ProjectionInit
<1>2. \A e \in Entries : snapshot[e].live = {}
  BY DEF ProjectionInit, Clean
<1>3. pc[Close] # "append"
  BY DEF ProjectionInit, Actors
<1>4. \A r : Endings(r) = {}
  BY <1>1 DEF Endings
<1> QED
  BY <1>1, <1>2, <1>3, <1>4, DrainInit, RecordsInit
     DEF ProjectionInv, EndsInv, LiveHere, NotYet, Owed, Ended, Settled, RunEndsOnce

LEMMA ProjectionInvStep == ProjectionInv /\ [ProjectionNext]_projection => ProjectionInv'
<1> SUFFICES ASSUME ProjectionInv, [ProjectionNext]_projection PROVE ProjectionInv'
  OBVIOUS
<1>1. DrainInv /\ RecordsOK /\ EndsInv /\ RunEndsOnce /\ DrainInv'
  BY DrainStep DEF ProjectionInv
<1>2. ASSUME NEW r \in Runs, Prompt(r) \/ Drain(r) PROVE ProjectionInv'
  <2>1. RecordsOK' /\ RunMoves(r)
    BY <1>1, <1>2, PromptMoves, DrainMoves
  <2> QED
    BY <1>1, <2>1, RunStep DEF ProjectionInv
<1>3. CASE Steering \/ Closing \/ Opening
  BY <1>1, <1>3, SteerEnds, CloseEnds, OpenEnds DEF ProjectionInv
<1>4. CASE UNCHANGED projection
  <2>1. RecordsOK'
    BY <1>1, <1>4 DEF projection, RecordsOK
  <2> QED
    BY <1>1, <1>4, <2>1, Quiet DEF ProjectionInv, projection, tables
<1> QED
  BY <1>2, <1>3, <1>4 DEF ProjectionNext

\* A run ends once in the trajectory: after its terminal batch, written by the
\* provider, the seal or the close, no event and no second terminal of it
\* follows, however the drains, the close and a reopen interleave.
THEOREM RunsEndOnce == ProjectionSpec => []RunEndsOnce
<1>1. ProjectionInv => RunEndsOnce
  BY DEF ProjectionInv
<1> QED
  BY <1>1, ProjectionInvInit, ProjectionInvStep, PTL DEF ProjectionSpec

LEMMA ClosedStep ==
  ASSUME DrainInv, RecordsOK, [ProjectionNext]_projection
  PROVE  \A e \in Entries :
            (closing[e] /\ trajectory' # trajectory)
              => LET last == trajectory'[Len(trajectory')]
                 IN last.entry = e => last.kind \notin {"content", "finished", "sealed"}
<1> SUFFICES ASSUME NEW e \in Entries, closing[e], trajectory' # trajectory,
                    trajectory'[Len(trajectory')].entry = e
             PROVE  trajectory'[Len(trajectory')].kind \notin {"content", "finished", "sealed"}
  OBVIOUS
<1>1. trajectory \in Seq(Batches)
  BY DEF RecordsOK
<1>2. \A a, k, s : Written(a, k, s) => /\ trajectory'[Len(trajectory')].kind = k
                                       /\ trajectory'[Len(trajectory')].entry = entry[a]
  <2> TAKE a, k, s
  <2> HAVE Written(a, k, s)
  <2>1. /\ Len(trajectory') = Len(trajectory) + 1
        /\ trajectory'[Len(trajectory) + 1] = [entry |-> entry[a], kind |-> k, runs |-> s]
    BY <1>1, LastWritten
  <2> QED
    BY <2>1
<1>3. ASSUME NEW r \in Runs, pc[r] \in InDrain, NEW k, Written(r, k, {r})
      PROVE  FALSE
  BY <1>2, <1>3 DEF DrainInv, GateHeld
<1>4. CASE \E r \in Runs : Written(r, "prompt", {}) \/ Written(r, "started", {r})
  BY <1>2, <1>4
<1>5. CASE Written(Steer, "steer", {}) \/ Written(Close, "closed", clone[Close].live)
  BY <1>2, <1>5
<1> QED
  BY <1>3, <1>4, <1>5, Writings

\* Once the close has interrupted the live runs of an entry, no drain and no seal
\* appends for that entry.
THEOREM DrainsStopAtClose == ProjectionSpec => ClosedToDrains
<1>1. ProjectionInv => DrainInv /\ RecordsOK
  BY DEF ProjectionInv
<1>2. ProjectionInv /\ [ProjectionNext]_projection
        => [\A e \in Entries :
              (closing[e] /\ trajectory' # trajectory)
                => LET last == trajectory'[Len(trajectory')]
                   IN last.entry = e => last.kind \notin {"content", "finished", "sealed"}]_projection
  BY <1>1, ClosedStep
<1> QED
  BY <1>2, ProjectionInvInit, ProjectionInvStep, PTL DEF ProjectionSpec, ClosedToDrains
=============================================================================
