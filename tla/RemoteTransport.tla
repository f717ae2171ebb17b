---------------------------- MODULE RemoteTransport ----------------------------
(***************************************************************************)
(* One connection to a remote worker (src/crates/code-remote/process.rs):  *)
(* every request has an entry in the pending map and a bounded channel of  *)
(* frames; one reader task takes the lines of the worker's output and      *)
(* hands each to the channel of the request it names.  The lock of the     *)
(* pending map, the channels and the awaits of the reader are steps of     *)
(* their own.                                                              *)
(*                                                                         *)
(* The worker's output queue and its pipe are one queue, wire.  A frame    *)
(* carries its sequence number; that of an answer is a history value, the  *)
(* number of progress frames written before it.                            *)
(***************************************************************************)
EXTENDS Integers, Sequences

CONSTANTS Requests,   \* the request ids
          Buffer,     \* PROGRESS_BUFFER
          WireCap,    \* bound on the lines written and not yet read
          MaxLines    \* bound on the lines written for a request

ASSUME TransportBounds ==
    Buffer \in Nat \ {0} /\ WireCap \in Nat \ {0} /\ MaxLines \in Nat

VARIABLES
    wire,       \* the worker's output the reader has not read
    sent,       \* progress frames the worker wrote before its first answer
    answered,   \* the requests the worker has answered
    pending,    \* the requests in the pending map
    nextSeq,    \* next_sequence of each entry
    frames,     \* the channel of each request
    receiver,   \* its RemoteWorkerRequest
    got,        \* progress frames the receiver has returned
    reader,     \* the reader task
    unlisted    \* dropped requests that the map still holds

worker == <<wire, sent, answered>>
table  == <<pending, nextSeq, unlisted>>
client == <<receiver, got>>
conn   == <<worker, table, frames, client, reader>>

Kinds == {"progress", "terminal", "error"}
\* A payload, or why the request failed.
Bodies == {"", "protocol", "backpressure", "disconnected"}
Frames == [kind : Kinds, seq : Nat, body : Bodies]
Lines  == [id : Requests, kind : Kinds, seq : Nat, body : Bodies]
Receivers ==
    {"none", "starting", "open", "answered", "failed", "refused", "dropped"}
Ended == {"answered", "failed"}

Failure(why) == [kind |-> "error", seq |-> 0, body |-> why]
FrameOf(m) == [kind |-> m.kind, seq |-> m.seq, body |-> m.body]
Reading == [at |-> "reading"]
Dead == [at |-> "dead"]

ConnInit ==
    /\ wire = <<>> /\ sent = [r \in Requests |-> 0] /\ answered = {}
    /\ pending = {} /\ nextSeq = [r \in Requests |-> 0] /\ unlisted = {}
    /\ frames = [r \in Requests |-> <<>>]
    /\ receiver = [r \in Requests |-> "none"] /\ got = [r \in Requests |-> 0]
    /\ reader = Reading

-----------------------------------------------------------------------------
(* Opening a request                                                       *)

\* The entry is made before the request is written.
Register(r) ==
    /\ receiver[r] = "none"
    /\ receiver' = [receiver EXCEPT ![r] = "starting"]
    /\ pending' = pending \cup {r}
    /\ nextSeq' = [nextSeq EXCEPT ![r] = 0]
    /\ UNCHANGED <<worker, frames, got, reader, unlisted>>

Written(r) ==
    /\ receiver[r] = "starting"
    /\ receiver' = [receiver EXCEPT ![r] = "open"]
    /\ UNCHANGED <<worker, table, frames, got, reader>>

\* The line is too long, or the pipe is gone.
WriteFails(r) ==
    /\ receiver[r] = "starting"
    /\ receiver' = [receiver EXCEPT ![r] = "refused"]
    /\ pending' = pending \ {r}
    /\ frames' = [frames EXCEPT ![r] = <<>>]
    /\ UNCHANGED <<worker, nextSeq, got, reader, unlisted>>

-----------------------------------------------------------------------------
(* The worker's side of the pipe                                           *)

CanWrite == Len(wire) < WireCap /\ reader # Dead

Write(r, kind, seq, body) ==
    wire' = Append(wire, [id |-> r, kind |-> kind, seq |-> seq, body |-> body])

\* What follows an answer is written all the same, and never counted.
Count(r, n) ==
    sent' = IF r \in answered THEN sent ELSE [sent EXCEPT ![r] = @ + n]

WriteProgress(r, body) ==
    /\ CanWrite /\ Write(r, "progress", sent[r], body) /\ Count(r, 1)
    /\ UNCHANGED <<answered, table, frames, client, reader>>

\* A plugin that reports from two tasks at once writes out of order.
WriteSkips(r, body) ==
    /\ CanWrite /\ Write(r, "progress", sent[r] + 1, body) /\ Count(r, 2)
    /\ UNCHANGED <<answered, table, frames, client, reader>>

WriteAnswer(r, body) ==
    /\ CanWrite /\ Write(r, "terminal", sent[r], body)
    /\ answered' = answered \cup {r}
    /\ UNCHANGED <<sent, table, frames, client, reader>>

-----------------------------------------------------------------------------
(* Channels                                                                *)

Closed(r) == receiver[r] \in {"refused", "dropped"}
Room(r) == Len(frames[r]) < Buffer
Holds(r) == reader.at \in {"grace", "blocked"} /\ reader.id = r

Push(r, f) == frames' = [frames EXCEPT ![r] = Append(@, f)]

\* try_send: what finds neither room nor a receiver is lost.
TryPush(r, f) ==
    IF Closed(r) \/ ~Room(r) THEN UNCHANGED frames ELSE Push(r, f)

\* send().await: the reader waits while the channel is full.
PushOrWait(r, f, at) ==
    \/ Closed(r) /\ UNCHANGED <<frames, reader>>
    \/ ~Closed(r) /\ Room(r) /\ Push(r, f) /\ UNCHANGED reader
    \/ /\ ~Closed(r) /\ ~Room(r)
       /\ reader' = [at |-> at, id |-> r, frame |-> f]
       /\ UNCHANGED frames

-----------------------------------------------------------------------------
(* The reader task: spawn_reader and deliver_response                      *)

ReadLine(m) ==
    /\ reader = Reading /\ wire # <<>> /\ m = Head(wire)
    /\ wire' = Tail(wire)

\* A request that has timed out or was abandoned may be answered late.
Discard(m) ==
    /\ ReadLine(m) /\ m.id \notin pending
    /\ UNCHANGED <<sent, answered, table, frames, client, reader>>

DeliverProgress(m) ==
    /\ ReadLine(m) /\ m.id \in pending /\ m.kind = "progress"
    /\ m.seq = nextSeq[m.id]
    /\ nextSeq' = [nextSeq EXCEPT ![m.id] = @ + 1]
    /\ pending' = IF Closed(m.id) THEN pending \ {m.id} ELSE pending
    /\ PushOrWait(m.id, FrameOf(m), "grace")
    /\ UNCHANGED <<sent, answered, client, unlisted>>

RejectSequence(m) ==
    /\ ReadLine(m) /\ m.id \in pending /\ m.kind = "progress"
    /\ m.seq # nextSeq[m.id]
    /\ pending' = pending \ {m.id}
    /\ PushOrWait(m.id, Failure("protocol"), "blocked")
    /\ UNCHANGED <<sent, answered, nextSeq, client, unlisted>>

DeliverAnswer(m) ==
    /\ ReadLine(m) /\ m.id \in pending /\ m.kind = "terminal"
    /\ pending' = pending \ {m.id}
    /\ PushOrWait(m.id, FrameOf(m), "blocked")
    /\ UNCHANGED <<sent, answered, nextSeq, client, unlisted>>

\* Mutant of Unblock: a consumer that has gone is not noticed.
UnblockByRoom(r) ==
    /\ Holds(r) /\ ~Closed(r) /\ Room(r)
    /\ Push(r, reader.frame)
    /\ reader' = Reading
    /\ UNCHANGED <<worker, table, client>>

\* The consumer has made room, or has gone.
Unblock(r) ==
    /\ Holds(r) /\ (Closed(r) \/ Room(r))
    /\ IF Closed(r)
       THEN pending' = pending \ {r} /\ UNCHANGED frames
       ELSE Push(r, reader.frame) /\ UNCHANGED pending
    /\ reader' = Reading
    /\ UNCHANGED <<worker, nextSeq, client, unlisted>>

\* Mutant of GraceElapses: only the frame is given up, not its request.
GraceSkipsFrame(r) ==
    /\ Holds(r) /\ reader.at = "grace"
    /\ reader' = Reading
    /\ UNCHANGED <<worker, table, frames, client>>

\* BACKPRESSURE_GRACE: the frame is lost and the request fails.
GraceElapses(r) ==
    /\ Holds(r) /\ reader.at = "grace"
    /\ pending' = pending \ {r}
    /\ IF r \in pending THEN TryPush(r, Failure("backpressure"))
       ELSE UNCHANGED frames
    /\ reader' = Reading
    /\ UNCHANGED <<worker, nextSeq, client, unlisted>>

\* fail_pending: the end of the output, or a line that cannot be read.
ReaderEnds ==
    /\ reader = Reading
    /\ frames' = [r \in Requests |->
          IF r \in pending /\ ~Closed(r) /\ Room(r)
          THEN Append(frames[r], Failure("disconnected")) ELSE frames[r]]
    /\ pending' = {} /\ reader' = Dead /\ wire' = <<>>
    /\ UNCHANGED <<sent, answered, nextSeq, client, unlisted>>

\* disconnect aborts the reader, and fails nobody.
ReaderAborts ==
    /\ reader # Dead
    /\ reader' = Dead /\ wire' = <<>>
    /\ UNCHANGED <<sent, answered, table, frames, client>>

-----------------------------------------------------------------------------
(* The consumer: RemoteWorkerRequest                                       *)

TakeProgress(r) ==
    /\ receiver[r] = "open" /\ frames[r] # <<>>
    /\ Head(frames[r]).kind = "progress"
    /\ got' = [got EXCEPT ![r] = Head(frames[r]).seq + 1]
    /\ frames' = [frames EXCEPT ![r] = Tail(@)]
    /\ UNCHANGED <<worker, table, receiver, reader>>

TakeEnd(r) ==
    /\ receiver[r] = "open" /\ frames[r] # <<>>
    /\ Head(frames[r]).kind # "progress"
    /\ receiver' = [receiver EXCEPT ![r] =
          IF Head(frames[r]).kind = "terminal" THEN "answered" ELSE "failed"]
    /\ frames' = [frames EXCEPT ![r] = Tail(@)]
    /\ UNCHANGED <<worker, table, got, reader>>

\* Every sender is gone and the channel is empty.
EndOfStream(r) ==
    /\ receiver[r] = "open" /\ frames[r] = <<>>
    /\ r \notin pending /\ ~Holds(r)
    /\ receiver' = [receiver EXCEPT ![r] = "failed"]
    /\ UNCHANGED <<worker, table, frames, got, reader>>

\* Mutant of TimesOut: a dead connection is left to the reader to report.
TimesOutServed(r) ==
    /\ receiver[r] = "open" /\ frames[r] = <<>> /\ reader # Dead
    /\ receiver' = [receiver EXCEPT ![r] = "failed"]
    /\ pending' = pending \ {r}
    /\ UNCHANGED <<worker, nextSeq, unlisted, frames, got, reader>>

\* REQUEST_TIMEOUT: a frame that does not come is an error.
TimesOut(r) ==
    /\ receiver[r] = "open" /\ frames[r] = <<>>
    /\ receiver' = [receiver EXCEPT ![r] = "failed"]
    /\ pending' = pending \ {r}
    /\ UNCHANGED <<worker, nextSeq, unlisted, frames, got, reader>>

\* A request dropped before its end is taken off the map by a task of its own.
Drop(r) ==
    /\ receiver[r] \in {"open"} \cup Ended
    /\ receiver' = [receiver EXCEPT ![r] = "dropped"]
    /\ frames' = [frames EXCEPT ![r] = <<>>]
    /\ unlisted' = IF receiver[r] = "open" THEN unlisted \cup {r} ELSE unlisted
    /\ UNCHANGED <<worker, pending, nextSeq, got, reader>>

Unlist(r) ==
    /\ r \in unlisted
    /\ unlisted' = unlisted \ {r}
    /\ pending' = pending \ {r}
    /\ UNCHANGED <<worker, nextSeq, frames, client, reader>>

-----------------------------------------------------------------------------
ReaderReads ==
    wire # <<>> /\ LET m == Head(wire) IN
        Discard(m) \/ DeliverProgress(m) \/ RejectSequence(m) \/ DeliverAnswer(m)
ReaderMoves == ReaderReads \/ \E r \in Requests : Unblock(r) \/ GraceElapses(r)
Takes(r) == TakeProgress(r) \/ TakeEnd(r) \/ EndOfStream(r)

\* The steps of the connection that the worker and the callers do not decide.
ConnMoves ==
    ReaderMoves \/ ReaderEnds \/ \E r \in Requests : WriteFails(r) \/ Unlist(r)

\* Any worker and any caller.
AnyWorker(r) ==
    /\ receiver[r] \notin {"none", "starting", "refused"}
    /\ \/ sent[r] < MaxLines /\ (WriteProgress(r, "") \/ WriteSkips(r, ""))
       \/ WriteAnswer(r, "")

AnyCaller(r) ==
    Register(r) \/ Written(r) \/ Takes(r) \/ TimesOut(r) \/ Drop(r)

TransportNext ==
    \/ ConnMoves \/ ReaderAborts
    \/ \E r \in Requests : AnyWorker(r) \/ AnyCaller(r)

TransportSpec == ConnInit /\ [][TransportNext]_conn

\* The reader is a task of the runtime, a wait for a frame has a deadline, and
\* a consumer that is not hung takes the frames it is sent.
TransportFairness ==
    /\ WF_conn(ReaderMoves)
    /\ \A r \in Requests : WF_conn(Takes(r)) /\ WF_conn(TimesOut(r))

FairTransportSpec == TransportSpec /\ TransportFairness

-----------------------------------------------------------------------------
(* Properties                                                              *)

ConnTypeOK ==
    /\ wire \in Seq(Lines) /\ Len(wire) <= WireCap
    /\ sent \in [Requests -> Nat] /\ answered \subseteq Requests
    /\ pending \subseteq Requests /\ unlisted \subseteq Requests
    /\ nextSeq \in [Requests -> Nat] /\ got \in [Requests -> Nat]
    /\ frames \in [Requests -> Seq(Frames)]
    /\ \A r \in Requests : Len(frames[r]) <= Buffer
    /\ receiver \in [Requests -> Receivers]
    /\ reader \in [at : {"reading", "dead"}]
                  \cup [at : {"grace", "blocked"}, id : Requests, frame : Frames]

Phase(r) ==
    CASE receiver[r] \in {"none", "starting"} -> "waiting"
      [] receiver[r] \in {"open", "answered"} -> receiver[r]
      [] OTHER -> "over"

Stream == INSTANCE RequestStream WITH
    produced <- sent, taken <- got, phase <- [r \in Requests |-> Phase(r)]

\* Every request is a stream of its own: whatever the other requests, their
\* consumers and the clock do, the receiver returns its progress in order and
\* without a gap, and the worker's answer only after all of the progress
\* (deliver_response, fail_pending and RemoteWorkerRequest::next).
StreamsInOrder == Stream!Spec

\* No call waits for ever, also when the reader was aborted with the call still
\* in the map, or when its entry was taken off by somebody else.
CallsEnd == \A r \in Requests : receiver[r] = "open" ~> receiver[r] # "open"

\* The one reader is never lost to a single request: it waits for a full
\* channel only until that consumer has taken a frame or has gone.
ReaderServes == reader.at \in {"grace", "blocked"} ~> reader.at \notin {"grace", "blocked"}
=============================================================================
