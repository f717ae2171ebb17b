----------------------- MODULE RemoteRequests_proofs ------------------------
(***************************************************************************)
(* Proofs about a request to a remote worker, at both of its ends: the     *)
(* receipts of the headless host, for every set of processes, calls, ids   *)
(* and contents, every size and limit, and any number of deaths and failed *)
(* writes; and the transport of the desktop, for every set of requests and *)
(* every capacity of the channels and of the pipe.  The two components     *)
(* share no variable, and no argument uses both.                           *)
(***************************************************************************)
EXTENDS RequestReceipts, RemoteTransport, SequenceTheorems, TLAPS

-----------------------------------------------------------------------------
(*                          The request receipts                           *)

(* The part of the types the arguments need: what the processes believe of *)
(* the bytes in the store is not in it, for no invariant depends on it.    *)
Shape == CallsOK /\ ReceiptsOK /\ ran \in [Ids -> SUBSET Calls]

(* The calls that hold a fresh reservation: from its creation to the       *)
(* terminal line.                                                          *)
OwnerSteps == {"start", "running", "leave", "record", "complete"}
Owner(c) == call[c].at \in OwnerSteps
(* The receipt of an owner is as it created it. *)
Owned == \A c \in Calls : Owner(c) =>
           /\ receipt[call[c].id].entry = "started"
           /\ receipt[call[c].id].content = call[c].content
OneOwner == \A c, d \in Calls : Owner(c) /\ Owner(d) /\ call[c].id = call[d].id => c = d
(* An id may run when its owner has not started, when it has no receipt,   *)
(* and when nothing remembers it any more.                                 *)
StartsFresh == \A c \in Calls : call[c].at = "start" => ran[call[c].id] = {}
NothingRan == \A id \in Ids :
  receipt[id].entry = "none" \/ (Settled(receipt[id]) /\ receipt[id].age = "old") => ran[id] = {}
(* A settled receipt was settled by a run of its id and content.           *)
TerminalOf(calls, id, content, d) == /\ d \in Calls
                                     /\ calls[d].id = id /\ calls[d].content = content
                                     /\ calls[d].at \in {"done", "dead"}
SettledByRun == \A id \in Ids : Settled(receipt[id]) =>
                  TerminalOf(call, id, receipt[id].content, receipt[id].terminal)

OwnInv == Owned /\ OneOwner
RunInv == StartsFresh /\ NothingRan /\ AtMostOnce
AnswerInv == SettledByRun /\ ReplayFaithful
IInv == OwnInv /\ RunInv /\ AnswerInv

-----------------------------------------------------------------------------
(* Types. *)
LEMMA IdleTyped == IdleCall \in CallRecord
  BY DEF IdleCall, CallRecord, Steps, Replies

LEMMA NoReceiptTyped == NoReceipt \in ReceiptRecord
  BY DEF NoReceipt, ReceiptRecord, Entries

LEMMA ShapeInit == Init => Shape
<1> SUFFICES ASSUME Init PROVE Shape
  OBVIOUS
<1>1. CallsOK
  BY IdleTyped DEF Init, CallsOK, IdleCall
<1>2. ReceiptsOK
  BY NoReceiptTyped DEF Init, ReceiptsOK, NoReceipt, Settled
<1> QED
  BY <1>1, <1>2 DEF Init, Shape

(* A handler moves on, or answers. *)
LEMMA GotoTyped ==
  ASSUME CallsOK, NEW c \in Calls, NEW step \in Steps \ {"idle"}, call[c].at # "idle", Goto(c, step)
  PROVE  CallsOK'
<1>1. [call[c] EXCEPT !.at = step] \in CallRecord
  BY DEF CallsOK, CallRecord
<1> QED
  BY <1>1 DEF CallsOK, CallRecord, Goto

LEMMA AnswerTyped ==
  ASSUME CallsOK, NEW c \in Calls, NEW step \in Steps \ {"idle"}, NEW reply \in Replies,
         call[c].at # "idle", Answer(c, step, reply)
  PROVE  CallsOK'
<1>1. [call[c] EXCEPT !.at = step, !.reply = reply] \in CallRecord
  BY DEF CallsOK, CallRecord
<1> QED
  BY <1>1 DEF CallsOK, CallRecord, Answer

(* One receipt is written. *)
LEMMA WriteTyped ==
  ASSUME ReceiptsOK, NEW id \in Ids, NEW r \in ReceiptRecord,
         r.entry \notin {"none", "torn"} => r.content \in Contents,
         Settled(r) => r.terminal \in Calls,
         receipt' = [receipt EXCEPT ![id] = r]
  PROVE  ReceiptsOK'
  BY DEF ReceiptsOK, Settled

LEMMA StartedTyped ==
  ASSUME CallsOK, NEW c \in Calls, call[c].at # "idle"
  PROVE  /\ StartedReceipt(c) \in ReceiptRecord
         /\ StartedReceipt(c).entry = "started"
         /\ StartedReceipt(c).content = call[c].content
         /\ ~Settled(StartedReceipt(c))
         /\ call[c].content \in Contents
  BY DEF CallsOK, CallRecord, StartedReceipt, NoReceipt, ReceiptRecord, Entries, Settled

LEMMA TornTyped ==
  ASSUME NEW s \in {0, 1}
  PROVE  /\ TornReceipt(s) \in ReceiptRecord
         /\ TornReceipt(s).entry = "torn"
         /\ ~Settled(TornReceipt(s))
<1>0. s \in Nat
  OBVIOUS
<1>1. TornReceipt(s) \in ReceiptRecord
  BY <1>0, NoReceiptTyped DEF TornReceipt, ReceiptRecord, Entries
<1>2. TornReceipt(s).entry = "torn"
  BY NoReceiptTyped DEF TornReceipt, ReceiptRecord
<1> QED
  BY <1>1, <1>2 DEF Settled

LEMMA AppendedTyped ==
  ASSUME NEW r \in ReceiptRecord, NEW c \in Calls, NEW e \in Entries \ {"none"}, NEW s \in Nat, NEW w,
         w.entry = e, w.size = s
  PROVE  /\ Appended(r, c, w) \in ReceiptRecord
         /\ Appended(r, c, w).entry = e
         /\ Appended(r, c, w).content = r.content
         /\ Appended(r, c, w).terminal = c
         /\ Appended(r, c, w).age = "recent"
<1>1. Appended(r, c, w) = [r EXCEPT !.entry = e, !.terminal = c, !.size = r.size + s, !.age = "recent"]
  BY DEF Appended
<1>2. r.size + s \in Nat
  BY DEF ReceiptRecord
<1>3. [r EXCEPT !.entry = e, !.terminal = c, !.size = r.size + s, !.age = "recent"] \in ReceiptRecord
  BY <1>2 DEF ReceiptRecord
<1> QED
  BY <1>1, <1>3 DEF ReceiptRecord

LEMMA EvictionTyped == ReceiptsOK /\ receipt' = AfterEviction => ReceiptsOK'
<1> SUFFICES ASSUME ReceiptsOK, receipt' = AfterEviction PROVE ReceiptsOK'
  OBVIOUS
<1>1. \A id \in Ids : receipt'[id] = receipt[id] \/ receipt'[id] = NoReceipt
  BY DEF AfterEviction
<1>2. NoReceipt.entry = "none" /\ ~Settled(NoReceipt)
  BY DEF NoReceipt, Settled
<1>3. receipt' \in [Ids -> ReceiptRecord]
  BY NoReceiptTyped DEF AfterEviction, ReceiptsOK
<1> QED
  BY <1>1, <1>2, <1>3 DEF ReceiptsOK, Settled

-----------------------------------------------------------------------------
(* What a step leaves: the calls it moves, the receipts it writes.         *)

LEMMA ArriveShape ==
  ASSUME Shape, NEW c \in Calls, NEW p \in Procs, NEW id \in Ids, NEW content \in Contents,
         Arrive(c, p, id, content)
  PROVE  Shape'
<1> DEFINE new == [IdleCall EXCEPT !.proc = p, !.id = id, !.content = content]
<1> DEFINE refused == [new EXCEPT !.at = "done", !.reply = "duplicate"]
<1> DEFINE registered == [new EXCEPT !.at = "reserve"]
<1>1. new \in CallRecord /\ new.proc = p /\ new.id = id /\ new.content = content
  BY IdleTyped DEF CallRecord
<1>2. /\ refused \in CallRecord /\ refused.at # "idle"
      /\ refused.proc = p /\ refused.id = id /\ refused.content = content
  BY <1>1 DEF CallRecord, Steps, Replies
<1>3. /\ registered \in CallRecord /\ registered.at # "idle"
      /\ registered.proc = p /\ registered.id = id /\ registered.content = content
  BY <1>1 DEF CallRecord, Steps
<1>4. call' = [call EXCEPT ![c] = refused] \/ call' = [call EXCEPT ![c] = registered]
  BY DEF Arrive
<1> HIDE DEF new, refused, registered
<1>5. CallsOK'
  BY <1>2, <1>3, <1>4 DEF Shape, CallsOK
<1> QED
  BY <1>5 DEF Arrive, Shape, ReceiptsOK, Settled

LEMMA ReserveShape ==
  ASSUME Shape, NEW c \in Calls, Reserve(c)
  PROVE  Shape'
<1>1. CallsOK /\ call[c].at = "reserve"
  BY DEF Shape, Reserve
<1>2. CallsOK'
  <2>1. CASE Goto(c, "inspect") \/ Goto(c, "create")
    BY <1>1, <2>1, GotoTyped DEF Steps
  <2>2. CASE Answer(c, "deregister", "full")
    BY <1>1, <2>2, AnswerTyped DEF Steps, Replies
  <2> QED
    BY <2>1, <2>2 DEF Reserve
<1>3. ReceiptsOK'
  <2>1. UNCHANGED receipt \/ receipt' = AfterEviction
    BY DEF Reserve
  <2> QED
    BY <2>1, EvictionTyped DEF Shape, ReceiptsOK, Settled
<1> QED
  BY <1>2, <1>3 DEF Reserve, Shape

LEMMA VerdictTyped ==
  ASSUME NEW c, NEW r
  PROVE  /\ Verdict(c, r) \in {"receipt_failed", "ambiguous", "conflict", "answered"}
         /\ Verdict(c, r) = "answered" => r.entry = "completed" /\ r.content = call[c].content
  BY DEF Verdict

LEMMA InspectShape ==
  ASSUME Shape, NEW c \in Calls, Inspect(c)
  PROVE  Shape'
<1> DEFINE r == receipt[call[c].id]
<1> DEFINE t == IF Verdict(c, r) = "answered" THEN r.terminal ELSE None
<1>1. call[c] \in CallRecord /\ call[c].id \in Ids /\ call[c].at = "inspect" /\ r \in ReceiptRecord
  BY DEF Shape, CallsOK, ReceiptsOK, Inspect
<1>2. t \in Calls \cup {None}
  BY <1>1 DEF ReceiptRecord
<1>3. Verdict(c, r) \in Replies
  BY VerdictTyped DEF Replies
<1>4. [call[c] EXCEPT !.at = "deregister", !.reply = Verdict(c, r), !.terminal = t] \in CallRecord
  BY <1>1, <1>2, <1>3 DEF CallRecord, Steps
<1>5. call' = [call EXCEPT ![c] = [call[c] EXCEPT !.at = "deregister", !.reply = Verdict(c, r), !.terminal = t]]
  BY DEF Inspect, Shape, CallsOK
<1> HIDE DEF r, t
<1>6. CallsOK'
  BY <1>1, <1>4, <1>5 DEF Shape, CallsOK, CallRecord
<1> QED
  BY <1>6 DEF Inspect, Shape, ReceiptsOK, Settled

LEMMA CreateShape ==
  ASSUME Shape, NEW c \in Calls, Create(c)
  PROVE  Shape'
<1> DEFINE id == call[c].id
<1>1. CallsOK /\ ReceiptsOK /\ call[c].at = "create" /\ id \in Ids
  BY DEF Shape, CallsOK, Create
<1>2. CallsOK'
  <2>1. CASE Goto(c, "inspect") \/ Goto(c, "start")
    BY <1>1, <2>1, GotoTyped DEF Steps
  <2>2. CASE Answer(c, "deregister", "receipt_failed")
    BY <1>1, <2>2, AnswerTyped DEF Steps, Replies
  <2> QED
    BY <2>1, <2>2 DEF Create
<1>3. ReceiptsOK'
  <2>1. CASE UNCHANGED receipt
    BY <1>1, <2>1 DEF ReceiptsOK, Settled
  <2>2. CASE receipt' = [receipt EXCEPT ![id] = StartedReceipt(c)]
    BY <1>1, <2>2, StartedTyped, WriteTyped
  <2>3. CASE \E s \in {0, 1} : receipt' = [receipt EXCEPT ![id] = TornReceipt(s)]
    BY <1>1, <2>3, TornTyped, WriteTyped
  <2> QED
    BY <2>1, <2>2, <2>3 DEF Create
<1> QED
  BY <1>2, <1>3 DEF Create, Shape

LEMMA MovedShape ==
  ASSUME Shape, NEW c \in Calls, Deregister(c) \/ Finish(c)
  PROVE  Shape'
<1>1. CASE Deregister(c)
  BY <1>1, GotoTyped DEF Deregister, Shape, Steps, ReceiptsOK, Settled
<1>2. CASE Finish(c)
  BY <1>2, GotoTyped DEF Finish, Shape, Steps, ReceiptsOK, Settled
<1> QED
  BY <1>1, <1>2

LEMMA RecordedShape ==
  ASSUME Shape, NEW c \in Calls, Start(c) \/ Record(c)
  PROVE  Shape'
<1>1. CASE Start(c)
  <2>1. CallsOK'
    BY <1>1, GotoTyped, AnswerTyped DEF Start, Shape, Steps, Replies
  <2>2. call[c].id \in Ids
    BY <1>1 DEF Start, Shape, CallsOK
  <2>3. ran' \in [Ids -> SUBSET Calls]
    BY <1>1, <2>2 DEF Start, Shape
  <2> QED
    BY <1>1, <2>1, <2>3 DEF Start, Shape, ReceiptsOK, Settled
<1>2. CASE Record(c)
  BY <1>2, GotoTyped, AnswerTyped DEF Record, Shape, Steps, Replies, ReceiptsOK, Settled
<1> QED
  BY <1>1, <1>2

(* The lines complete_blocking may append. *)
LEMMA ChosenTyped ==
  ASSUME NEW line \in TerminalLines, NEW r, NEW used, Chosen(r, line, used) # None
  PROVE  /\ Chosen(r, line, used).entry \in {"completed", "unavailable"}
         /\ Chosen(r, line, used).size \in Nat
         /\ [Chosen(r, line, used) EXCEPT !.entry = "spoiled"].entry = "spoiled"
         /\ [Chosen(r, line, used) EXCEPT !.entry = "spoiled"].size \in Nat
<1> DEFINE w == Chosen(r, line, used)
<1>1. \A x \in TerminalLines : x \in [entry : {"completed", "unavailable"}, size : Nat]
  BY SizesAssumption DEF TerminalLines
<1>2. Short \in [entry : {"completed", "unavailable"}, size : Nat]
  BY DEF Short
<1>3. w \in [entry : {"completed", "unavailable"}, size : Nat]
  BY <1>1, <1>2 DEF Chosen
<1>4. \A x \in [entry : {"completed", "unavailable"}, size : Nat] :
        /\ x.entry \in {"completed", "unavailable"} /\ x.size \in Nat
        /\ [x EXCEPT !.entry = "spoiled"].entry = "spoiled"
        /\ [x EXCEPT !.entry = "spoiled"].size \in Nat
  BY SMTT(30)
<1> QED
  BY <1>3, <1>4

(* What a completion does to its call and to its receipt. *)
LEMMA CompleteCases ==
  ASSUME Shape, NEW c \in Calls, Complete(c)
  PROVE  /\ call[c].at = "complete" /\ UNCHANGED <<ran, active>>
         /\ \/ Answer(c, "done", "receipt_failed")
            \/ call' = [call EXCEPT ![c].at = "done", ![c].reply = "answered", ![c].terminal = c]
         /\ \/ UNCHANGED receipt
            \/ \E w : /\ w.entry \in {"completed", "unavailable", "spoiled"} /\ w.size \in Nat
                      /\ receipt' = [receipt EXCEPT ![call[c].id] = Appended(receipt[call[c].id], c, w)]
<1> DEFINE r == receipt[call[c].id]
<1> DEFINE used == Counted(call[c].proc)
<1>1. CASE UNCHANGED receipt
  BY <1>1 DEF Complete
<1>2. CASE \E line \in TerminalLines :
             /\ Chosen(r, line, used) # None
             /\ \E left \in {Chosen(r, line, used), [Chosen(r, line, used) EXCEPT !.entry = "spoiled"]} :
                  receipt' = [receipt EXCEPT ![call[c].id] = Appended(r, c, left)]
  <2>1. PICK line \in TerminalLines :
             /\ Chosen(r, line, used) # None
             /\ \E left \in {Chosen(r, line, used), [Chosen(r, line, used) EXCEPT !.entry = "spoiled"]} :
                  receipt' = [receipt EXCEPT ![call[c].id] = Appended(r, c, left)]
    BY <1>2
  <2>2. PICK w \in {Chosen(r, line, used), [Chosen(r, line, used) EXCEPT !.entry = "spoiled"]} :
               receipt' = [receipt EXCEPT ![call[c].id] = Appended(r, c, w)]
    BY <2>1
  <2>3. w.entry \in {"completed", "unavailable", "spoiled"} /\ w.size \in Nat
    <3>1. CASE w = Chosen(r, line, used)
      BY <2>1, <3>1, ChosenTyped
    <3>2. CASE w = [Chosen(r, line, used) EXCEPT !.entry = "spoiled"]
      BY <2>1, <3>2, ChosenTyped
    <3> QED
      BY <2>2, <3>1, <3>2
  <2> HIDE DEF r, used
  <2> QED
    BY <2>2, <2>3 DEF Complete, r
<1> QED
  BY <1>1, <1>2 DEF Complete

LEMMA CompleteShape ==
  ASSUME Shape, Owned, NEW c \in Calls, Complete(c)
  PROVE  Shape'
<1> DEFINE id == call[c].id
<1>1. CallsOK /\ ReceiptsOK /\ call[c].at = "complete" /\ id \in Ids /\ ran' = ran
  BY CompleteCases DEF Shape, CallsOK
<1>2. CallsOK'
  <2>1. [call[c] EXCEPT !.at = "done", !.reply = "answered", !.terminal = c] \in CallRecord
    BY ZenonT(60) DEF Shape, CallsOK, CallRecord, Steps, Replies
  <2>2. CASE Answer(c, "done", "receipt_failed")
    BY <1>1, <2>2, AnswerTyped DEF Steps, Replies
  <2>3. CASE call' = [call EXCEPT ![c].at = "done", ![c].reply = "answered", ![c].terminal = c]
    BY <1>1, <2>1, <2>3 DEF CallsOK, CallRecord
  <2> QED
    BY <2>2, <2>3, CompleteCases
<1>3. ReceiptsOK'
  <2>1. CASE UNCHANGED receipt
    BY <1>1, <2>1 DEF ReceiptsOK, Settled
  <2>2. CASE \E w : /\ w.entry \in {"completed", "unavailable", "spoiled"} /\ w.size \in Nat
                    /\ receipt' = [receipt EXCEPT ![id] = Appended(receipt[id], c, w)]
    <3>1. PICK w : /\ w.entry \in {"completed", "unavailable", "spoiled"} /\ w.size \in Nat
                   /\ receipt' = [receipt EXCEPT ![id] = Appended(receipt[id], c, w)]
      BY <2>2
    <3>2. receipt[id] \in ReceiptRecord /\ receipt[id].content \in Contents
      BY <1>1 DEF Owned, Owner, OwnerSteps, ReceiptsOK
    <3>3. w.entry \in Entries \ {"none"}
      BY <3>1 DEF Entries
    <3> DEFINE r == Appended(receipt[id], c, w)
    <3>4. r \in ReceiptRecord /\ r.content \in Contents /\ r.terminal \in Calls
      BY <3>1, <3>2, <3>3, AppendedTyped
    <3> HIDE DEF r
    <3> QED
      BY <1>1, <3>1, <3>4, WriteTyped DEF r
  <2> QED
    BY <2>1, <2>2, CompleteCases
<1> QED
  BY <1>1, <1>2, <1>3 DEF Shape

(* What the death of a process in call c may leave of the receipts. *)
LEMMA InterruptedCases ==
  ASSUME NEW c \in Calls, NEW store \in {receipt} \cup Interrupted(c)
  PROVE  \/ store = receipt
         \/ /\ call[c].at = "create" /\ receipt[call[c].id].entry = "none"
            /\ \/ store = [receipt EXCEPT ![call[c].id] = StartedReceipt(c)]
               \/ \E s \in {0, 1} : store = [receipt EXCEPT ![call[c].id] = TornReceipt(s)]
         \/ /\ call[c].at = "complete"
            /\ store = [receipt EXCEPT ![call[c].id] =
                           Appended(receipt[call[c].id], c, [entry |-> "spoiled", size |-> 1])]
  BY DEF Interrupted, Exists

LEMMA CrashShape ==
  ASSUME Shape, Owned, NEW p \in Procs, Crash(p)
  PROVE  Shape'
<1>1. CallsOK'
  <2>1. \A c \in Calls : call[c].proc = p => call[c].at # "idle"
    BY NoneAssumption DEF Shape, CallsOK, IdleCall
  <2>2. \A c \in Calls : [call[c] EXCEPT !.at = "dead"] \in CallRecord
    BY DEF Shape, CallsOK, CallRecord, Steps
  <2>3. \A c \in Calls : \/ call'[c] = call[c]
                         \/ call[c].at # "idle" /\ call'[c] = [call[c] EXCEPT !.at = "dead"]
    BY <2>1 DEF Crash
  <2>4. call' \in [Calls -> CallRecord]
    BY <2>2 DEF Crash, Shape, CallsOK
  <2> QED
    BY <2>3, <2>4 DEF Shape, CallsOK, CallRecord
<1>2. ReceiptsOK'
  <2>1. receipt' = receipt \/ \E c \in Calls : receipt' \in Interrupted(c)
    BY DEF Crash
  <2>2. ReceiptsOK /\ CallsOK
    BY DEF Shape
  <2>3. CASE receipt' = receipt
    BY <2>2, <2>3 DEF ReceiptsOK, Settled
  <2>4. ASSUME NEW c \in Calls, receipt' \in Interrupted(c), receipt' # receipt
        PROVE  ReceiptsOK'
    <3>1. CASE /\ call[c].at = "create" /\ receipt[call[c].id].entry = "none"
               /\ \/ receipt' = [receipt EXCEPT ![call[c].id] = StartedReceipt(c)]
                  \/ \E s \in {0, 1} : receipt' = [receipt EXCEPT ![call[c].id] = TornReceipt(s)]
      <4>1. call[c].id \in Ids /\ call[c].at # "idle"
        BY <2>2, <3>1 DEF CallsOK
      <4>2. CASE receipt' = [receipt EXCEPT ![call[c].id] = StartedReceipt(c)]
        BY <2>2, <4>1, <4>2, StartedTyped, WriteTyped
      <4>3. CASE \E s \in {0, 1} : receipt' = [receipt EXCEPT ![call[c].id] = TornReceipt(s)]
        BY <2>2, <4>1, <4>3, TornTyped, WriteTyped
      <4> QED
        BY <3>1, <4>2, <4>3
    <3>2. CASE /\ call[c].at = "complete"
               /\ receipt' = [receipt EXCEPT ![call[c].id] =
                                Appended(receipt[call[c].id], c, [entry |-> "spoiled", size |-> 1])]
      <4> DEFINE r == Appended(receipt[call[c].id], c, [entry |-> "spoiled", size |-> 1])
      <4>1. call[c].id \in Ids /\ receipt[call[c].id] \in ReceiptRecord
        BY <2>2, <3>2 DEF CallsOK, ReceiptsOK
      <4>2. /\ r \in ReceiptRecord /\ r.entry = "spoiled" /\ r.terminal = c
            /\ r.content = receipt[call[c].id].content
        BY <4>1, AppendedTyped DEF Entries
      <4> HIDE DEF r
      <4>3. receipt[call[c].id].content \in Contents
        BY <2>2, <3>2, <4>1 DEF Owned, Owner, OwnerSteps, ReceiptsOK
      <4> QED
        BY <2>2, <3>2, <4>1, <4>2, <4>3, WriteTyped DEF r
    <3> QED
      BY <2>4, <3>1, <3>2, InterruptedCases
  <2> QED
    BY <2>1, <2>3, <2>4
<1> QED
  BY <1>1, <1>2 DEF Crash, Shape

(* Age changes the age of one receipt, and may forget the runs of its id.  *)
LEMMA AgeEffect ==
  ASSUME Shape, NEW id \in Ids, Age(id)
  PROVE  /\ UNCHANGED call
         /\ receipt' \in [Ids -> ReceiptRecord]
         /\ \A i \in Ids : /\ receipt'[i].entry = receipt[i].entry
                           /\ receipt'[i].content = receipt[i].content
                           /\ receipt'[i].terminal = receipt[i].terminal
                           /\ i # id => receipt'[i] = receipt[i]
         /\ ran' \in [Ids -> SUBSET Calls]
         /\ \A i \in Ids : ran'[i] = ran[i] \/ ran'[i] = {}
         /\ Settled(receipt[id]) => ran'[id] = {}
         /\ receipt[id].entry # "none"
<1>1. [receipt[id] EXCEPT !.age = "old"] \in ReceiptRecord
  BY DEF Shape, ReceiptsOK, ReceiptRecord
<1>2. receipt' = [receipt EXCEPT ![id] = [receipt[id] EXCEPT !.age = "old"]]
  BY DEF Age
<1>3. \A i \in Ids : /\ receipt'[i].entry = receipt[i].entry
                     /\ receipt'[i].content = receipt[i].content
                     /\ receipt'[i].terminal = receipt[i].terminal
                     /\ i # id => receipt'[i] = receipt[i]
  BY <1>2 DEF Shape, ReceiptsOK, ReceiptRecord
<1>4. receipt' \in [Ids -> ReceiptRecord]
  BY <1>1, <1>2 DEF Shape, ReceiptsOK
<1> QED
  BY <1>3, <1>4 DEF Age, Exists, Shape

LEMMA AgeShape ==
  ASSUME Shape, NEW id \in Ids, Age(id)
  PROVE  Shape'
<1>1. CallsOK'
  <2>1. call' = call
    BY AgeEffect
  <2> QED
    BY <2>1 DEF Shape, CallsOK
<1>2. ReceiptsOK'
  BY AgeEffect DEF Shape, ReceiptsOK, Settled
<1> QED
  BY <1>1, <1>2, AgeEffect DEF Shape

LEMMA ShapeStep == Shape /\ Owned /\ [Next]_vars => Shape'
<1> SUFFICES ASSUME Shape, Owned, [Next]_vars PROVE Shape'
  OBVIOUS
<1>1. ASSUME NEW c \in Calls, Handler(c) PROVE Shape'
  BY <1>1, ArriveShape, ReserveShape, InspectShape, CreateShape, MovedShape, RecordedShape,
     CompleteShape DEF Handler
<1>2. CASE UNCHANGED vars
  BY <1>2 DEF vars, Shape, CallsOK, ReceiptsOK, Settled
<1> QED
  BY <1>1, <1>2, CrashShape, AgeShape DEF Next

-----------------------------------------------------------------------------
(* The inductive invariant.                                                *)
LEMMA InvInit == Init => IInv
<1> SUFFICES ASSUME Init PROVE IInv
  OBVIOUS
<1>1. OwnInv
  BY DEF Init, OwnInv, Owned, OneOwner, Owner, OwnerSteps, IdleCall
<1>2. RunInv
  BY DEF Init, RunInv, StartsFresh, NothingRan, AtMostOnce, IdleCall
<1>3. AnswerInv
  BY DEF Init, AnswerInv, SettledByRun, ReplayFaithful, Settled, NoReceipt, IdleCall
<1> QED
  BY <1>1, <1>2, <1>3 DEF IInv

(* A step that makes no new owner, starts nothing, keeps what is over, and *)
(* writes only receipts whose id has no owner afterwards.                  *)
LEMMA NoNewOwner ==
  ASSUME Shape, IInv, Shape', UNCHANGED ran,
         \A d \in Calls : Owner(d)' => /\ Owner(d) /\ call'[d].id = call[d].id
                                       /\ call'[d].content = call[d].content,
         \A d \in Calls : call'[d].at = "start" => call[d].at = "start",
         \A d \in Calls : call[d].at \in {"done", "dead"} => call'[d] = call[d],
         \A d \in Calls : call'[d].reply = "answered" =>
           \/ /\ call[d].reply = "answered"
              /\ call'[d].id = call[d].id /\ call'[d].content = call[d].content
              /\ call'[d].terminal = call[d].terminal
           \/ TerminalOf(call, call'[d].id, call'[d].content, call'[d].terminal)
           \/ call'[d].terminal = d /\ call'[d].at = "done",
         \A id \in Ids : receipt'[id] = receipt[id] \/
           /\ \A d \in Calls : Owner(d)' => call'[d].id # id
           /\ receipt'[id].entry = "none" \/ (Settled(receipt'[id]) /\ receipt'[id].age = "old")
                => ran[id] = {}
           /\ Settled(receipt'[id]) => TerminalOf(call', id, receipt'[id].content, receipt'[id].terminal)
  PROVE  IInv'
<1>1. \A d \in Calls : Owner(d) => call[d].id \in Ids
  BY DEF Shape, CallsOK, Owner, OwnerSteps
<1>2. \A id, content, d : TerminalOf(call, id, content, d) => TerminalOf(call', id, content, d)
  BY DEF TerminalOf
<1>3. Owned'
  BY <1>1 DEF IInv, OwnInv, Owned
<1>4. OneOwner'
  BY DEF IInv, OwnInv, OneOwner
<1>5. StartsFresh'
  BY DEF IInv, RunInv, StartsFresh, Owner, OwnerSteps
<1>6. NothingRan'
  BY DEF IInv, RunInv, NothingRan
<1>7. AtMostOnce'
  BY DEF IInv, RunInv, AtMostOnce
<1>8. SettledByRun'
  <2> SUFFICES ASSUME NEW id \in Ids, Settled(receipt'[id])
               PROVE  TerminalOf(call', id, receipt'[id].content, receipt'[id].terminal)
    BY DEF SettledByRun
  <2> QED
    BY <1>2 DEF IInv, AnswerInv, SettledByRun
<1>9. ReplayFaithful'
  <2> SUFFICES ASSUME NEW d \in Calls, call'[d].reply = "answered"
               PROVE  TerminalOf(call', call'[d].id, call'[d].content, call'[d].terminal)
    BY DEF ReplayFaithful, TerminalOf
  <2>1. CASE call[d].reply = "answered" /\ call'[d].id = call[d].id
             /\ call'[d].content = call[d].content /\ call'[d].terminal = call[d].terminal
    BY <1>2, <2>1 DEF IInv, AnswerInv, ReplayFaithful, TerminalOf
  <2>2. CASE TerminalOf(call, call'[d].id, call'[d].content, call'[d].terminal)
    BY <1>2, <2>2 DEF TerminalOf
  <2>3. CASE call'[d].terminal = d /\ call'[d].at = "done"
    BY <2>3 DEF TerminalOf
  <2> QED
    BY <2>1, <2>2, <2>3
<1> QED
  BY <1>3, <1>4, <1>5, <1>6, <1>7, <1>8, <1>9 DEF IInv, OwnInv, RunInv, AnswerInv

(* The invariant under each action. *)
LEMMA ArriveInv ==
  ASSUME Shape, IInv, NEW c \in Calls, NEW p \in Procs, NEW id \in Ids, NEW content \in Contents,
         Arrive(c, p, id, content)
  PROVE  IInv'
<1>1. Shape' /\ UNCHANGED <<receipt, ran>>
  BY ArriveShape DEF Arrive
<1>2. /\ \A d \in Calls \ {c} : call'[d] = call[d]
      /\ call[c].at = "idle"
      /\ call'[c].at \in {"done", "reserve"} /\ call'[c].reply \in {"none", "duplicate"}
  BY ZenonT(60) DEF Arrive, Shape, CallsOK, CallRecord, IdleCall
<1> QED
  BY <1>1, <1>2, NoNewOwner, SMTT(30) DEF Owner, OwnerSteps

LEMMA ReserveInv ==
  ASSUME Shape, IInv, NEW c \in Calls, Reserve(c)
  PROVE  IInv'
<1>1. Shape' /\ UNCHANGED ran /\ call[c].at = "reserve"
  BY ReserveShape DEF Reserve
<1>2. /\ \A d \in Calls \ {c} : call'[d] = call[d]
      /\ call'[c].at \in {"inspect", "create", "deregister"}
      /\ \/ call'[c].reply = "full"
         \/ call'[c].reply = call[c].reply /\ call'[c].id = call[c].id
            /\ call'[c].content = call[c].content /\ call'[c].terminal = call[c].terminal
  <2>1. Goto(c, "inspect") \/ Goto(c, "create") \/ Answer(c, "deregister", "full")
    <3>1. CASE Exists(call[c].id)
      BY <3>1 DEF Reserve
    <3>2. CASE ~Exists(call[c].id)
      BY <3>2 DEF Reserve
    <3> QED
      BY <3>1, <3>2
  <2> QED
    BY <2>1 DEF Goto, Answer, Shape, CallsOK, CallRecord
<1>3. UNCHANGED receipt \/ receipt' = AfterEviction
  BY DEF Reserve
<1>4. ASSUME NEW id \in Ids
      PROVE  \/ receipt'[id] = receipt[id]
             \/ Evictable(receipt[id]) /\ receipt'[id] = NoReceipt
  BY <1>3 DEF AfterEviction
<1>5. ASSUME NEW id \in Ids, Evictable(receipt[id]), receipt'[id] = NoReceipt
      PROVE  /\ \A d \in Calls : Owner(d)' => call'[d].id # id
             /\ ran[id] = {}
             /\ ~Settled(receipt'[id])
  <2>1. \A d \in Calls : Owner(d)' => d # c
    BY <1>2 DEF Owner, OwnerSteps
  <2>2. \A d \in Calls : Owner(d) => call[d].id # id
    BY <1>5 DEF IInv, OwnInv, Owned, Evictable, Settled
  <2>3. ran[id] = {}
    BY <1>5 DEF IInv, RunInv, NothingRan, Evictable
  <2>4. ~Settled(receipt'[id])
    BY <1>5 DEF NoReceipt, Settled
  <2> QED
    BY <1>2, <2>1, <2>2, <2>3, <2>4 DEF Owner
<1> QED
  BY <1>1, <1>2, <1>4, <1>5, NoNewOwner DEF Owner, OwnerSteps

(* A replay is the terminal line of a receipt whose hash is the call's.    *)
LEMMA InspectInv ==
  ASSUME Shape, IInv, NEW c \in Calls, Inspect(c)
  PROVE  IInv'
<1> DEFINE r == receipt[call[c].id]
<1>1. Shape' /\ UNCHANGED <<receipt, ran>> /\ call[c].at = "inspect" /\ call[c].id \in Ids
  BY InspectShape DEF Inspect, Shape, CallsOK
<1>2. /\ \A d \in Calls \ {c} : call'[d] = call[d]
      /\ call'[c].at = "deregister" /\ call'[c].id = call[c].id
      /\ call'[c].content = call[c].content
      /\ call'[c].reply = Verdict(c, r)
      /\ call'[c].reply = "answered" => call'[c].terminal = r.terminal
  BY DEF Inspect, Shape, CallsOK, CallRecord
<1>3. call'[c].reply = "answered" =>
        TerminalOf(call, call'[c].id, call'[c].content, call'[c].terminal)
  <2> SUFFICES ASSUME call'[c].reply = "answered"
               PROVE  TerminalOf(call, call[c].id, call[c].content, r.terminal)
    BY <1>2
  <2>1. r.entry = "completed" /\ r.content = call[c].content
    BY <1>2, VerdictTyped
  <2> QED
    BY <1>1, <2>1 DEF IInv, AnswerInv, SettledByRun, Settled
<1> QED
  BY <1>1, <1>2, <1>3, NoNewOwner DEF Owner, OwnerSteps

LEMMA MovedInv ==
  ASSUME Shape, IInv, NEW c \in Calls, Deregister(c) \/ Finish(c)
  PROVE  IInv'
<1>1. Shape' /\ UNCHANGED <<receipt, ran>>
  BY MovedShape DEF Deregister, Finish
<1>2. /\ \A d \in Calls \ {c} : call'[d] = call[d]
      /\ call'[c].id = call[c].id /\ call'[c].content = call[c].content
      /\ call'[c].reply = call[c].reply /\ call'[c].terminal = call[c].terminal
      /\ \/ call[c].at = "deregister" /\ call'[c].at = "done"
         \/ call[c].at = "leave" /\ call'[c].at = "record"
         \/ call[c].at = "running" /\ call'[c].at = "leave"
  BY DEF Deregister, Finish, Goto, Shape, CallsOK, CallRecord
<1> QED
  BY <1>1, <1>2, NoNewOwner DEF Owner, OwnerSteps

LEMMA RecordInv ==
  ASSUME Shape, IInv, NEW c \in Calls, Record(c)
  PROVE  IInv'
<1>1. Shape' /\ UNCHANGED <<receipt, ran>> /\ call[c].at = "record"
  BY RecordedShape DEF Record
<1>2. Goto(c, "complete") \/ Answer(c, "done", "trajectory_failed")
  BY DEF Record
<1>3. /\ \A d \in Calls \ {c} : call'[d] = call[d]
      /\ call'[c].id = call[c].id /\ call'[c].content = call[c].content
      /\ call'[c].terminal = call[c].terminal
      /\ call'[c].reply \in {call[c].reply, "trajectory_failed"}
      /\ call'[c].at \in {"complete", "done"}
  BY <1>2 DEF Goto, Answer, Shape, CallsOK, CallRecord
<1> QED
  BY <1>1, <1>3, NoNewOwner DEF Owner, OwnerSteps

(* The start of a run: its id had none, and its owner is no longer there.  *)
LEMMA StartInv ==
  ASSUME Shape, IInv, NEW c \in Calls, Start(c)
  PROVE  IInv'
<1>1. Shape' /\ UNCHANGED receipt /\ call[c].at = "start" /\ call[c].id \in Ids
  BY RecordedShape DEF Start, Shape, CallsOK
<1>2. CASE Answer(c, "deregister", "trajectory_failed") /\ UNCHANGED ran
  <2>1. /\ \A d \in Calls \ {c} : call'[d] = call[d]
        /\ call'[c].at = "deregister" /\ call'[c].reply = "trajectory_failed"
    BY <1>2 DEF Answer, Shape, CallsOK, CallRecord
  <2> QED
    BY <1>1, <1>2, <2>1, NoNewOwner DEF Owner, OwnerSteps
<1>3. CASE Goto(c, "running") /\ ran' = [ran EXCEPT ![call[c].id] = @ \cup {c}]
  <2>1. /\ \A d \in Calls : /\ call'[d].id = call[d].id /\ call'[d].content = call[d].content
                            /\ call'[d].reply = call[d].reply /\ call'[d].terminal = call[d].terminal
                            /\ d # c => call'[d] = call[d]
        /\ call'[c].at = "running"
    BY <1>3 DEF Goto, Shape, CallsOK, CallRecord
  <2>2. /\ ran'[call[c].id] = {c}
        /\ \A id \in Ids \ {call[c].id} : ran'[id] = ran[id]
    BY <1>1, <1>3 DEF IInv, RunInv, StartsFresh, Shape
  <2>3. OwnInv'
    BY <1>1, <2>1 DEF IInv, OwnInv, Owned, OneOwner, Owner, OwnerSteps
  <2>4. StartsFresh'
    <3> SUFFICES ASSUME NEW d \in Calls, call'[d].at = "start" PROVE ran'[call'[d].id] = {}
      BY DEF StartsFresh
    <3>1. call[d].at = "start" /\ call[d].id \in Ids
      BY <2>1 DEF Shape, CallsOK
    <3>2. call[d].id # call[c].id
      BY <1>1, <2>1, <3>1 DEF IInv, OwnInv, OneOwner, Owner, OwnerSteps
    <3> QED
      BY <2>1, <2>2, <3>1, <3>2 DEF IInv, RunInv, StartsFresh
  <2>5. receipt[call[c].id].entry = "started"
    BY <1>1 DEF IInv, OwnInv, Owned, Owner, OwnerSteps
  <2>6. NothingRan'
    BY <1>1, <2>2, <2>5 DEF IInv, RunInv, NothingRan, Settled
  <2>7. AtMostOnce'
    BY <2>2 DEF IInv, RunInv, AtMostOnce
  <2>8. AnswerInv'
    BY <1>1, <2>1 DEF IInv, AnswerInv, SettledByRun, ReplayFaithful, TerminalOf
  <2> QED
    BY <2>3, <2>4, <2>6, <2>7, <2>8 DEF IInv, RunInv
<1> QED
  BY <1>2, <1>3 DEF Start

(* A fresh reservation: the id had no receipt, so nobody owns it and no    *)
(* run of it is remembered.                                                *)
LEMMA CreateInv ==
  ASSUME Shape, IInv, NEW c \in Calls, Create(c)
  PROVE  IInv'
<1> DEFINE id == call[c].id
<1>1. Shape' /\ UNCHANGED ran /\ call[c].at = "create" /\ id \in Ids
  BY CreateShape DEF Create, Shape, CallsOK
<1>2. CASE Goto(c, "inspect") /\ UNCHANGED receipt
  <2>1. /\ \A d \in Calls \ {c} : call'[d] = call[d]
        /\ call'[c] = [call[c] EXCEPT !.at = "inspect"]
    BY <1>2 DEF Goto, Shape, CallsOK
  <2>2. /\ call'[c].at = "inspect" /\ call'[c].reply = call[c].reply
        /\ call'[c].id = call[c].id /\ call'[c].content = call[c].content
        /\ call'[c].terminal = call[c].terminal
    BY <2>1 DEF Shape, CallsOK, CallRecord
  <2> QED
    BY <1>1, <1>2, <2>1, <2>2, NoNewOwner DEF Owner, OwnerSteps
<1>3. ASSUME receipt[id].entry = "none"
      PROVE  ran[id] = {} /\ \A d \in Calls : Owner(d) => call[d].id # id
  BY <1>1, <1>3 DEF IInv, OwnInv, Owned, RunInv, NothingRan
<1>4. CASE /\ receipt[id].entry = "none" /\ Goto(c, "start")
           /\ receipt' = [receipt EXCEPT ![id] = StartedReceipt(c)]
  <2>1. /\ \A d \in Calls : /\ call'[d].id = call[d].id /\ call'[d].content = call[d].content
                            /\ call'[d].reply = call[d].reply /\ call'[d].terminal = call[d].terminal
                            /\ d # c => call'[d] = call[d]
        /\ call'[c].at = "start"
    BY <1>4 DEF Goto, Shape, CallsOK, CallRecord
  <2>2. /\ receipt'[id].entry = "started" /\ receipt'[id].content = call[c].content
        /\ \A i \in Ids \ {id} : receipt'[i] = receipt[i]
    BY <1>1, <1>4, StartedTyped DEF Shape, ReceiptsOK
  <2>3. ran[id] = {} /\ \A d \in Calls : Owner(d) => call[d].id # id
    BY <1>3, <1>4
  <2>4. \A d \in Calls : Owner(d) => call[d].id \in Ids
    BY DEF Shape, CallsOK, Owner, OwnerSteps
  <2>5. Owned'
    BY <2>1, <2>2, <2>3, <2>4 DEF IInv, OwnInv, Owned, Owner
  <2>6. OneOwner'
    BY <2>1, <2>3 DEF IInv, OwnInv, OneOwner, Owner
  <2>7. StartsFresh'
    BY <1>1, <2>1, <2>3 DEF IInv, RunInv, StartsFresh
  <2>8. NothingRan'
    BY <1>1, <2>2 DEF IInv, RunInv, NothingRan, Settled
  <2>9. AtMostOnce'
    BY <1>1 DEF IInv, RunInv, AtMostOnce
  <2>10. SettledByRun'
    <3> SUFFICES ASSUME NEW i \in Ids, Settled(receipt'[i])
                 PROVE  TerminalOf(call', i, receipt'[i].content, receipt'[i].terminal)
      BY DEF SettledByRun
    <3>1. i # id
      BY <2>2 DEF Settled
    <3>2. TerminalOf(call, i, receipt[i].content, receipt[i].terminal) /\ receipt'[i] = receipt[i]
      BY <2>2, <3>1 DEF IInv, AnswerInv, SettledByRun
    <3> QED
      BY <1>1, <2>1, <3>2 DEF TerminalOf
  <2>11. ReplayFaithful'
    BY <1>1, <2>1 DEF IInv, AnswerInv, ReplayFaithful
  <2> QED
    BY <2>5, <2>6, <2>7, <2>8, <2>9, <2>10, <2>11 DEF IInv, OwnInv, RunInv, AnswerInv
<1>5. CASE /\ receipt[id].entry = "none" /\ Answer(c, "deregister", "receipt_failed")
           /\ \E left \in {StartedReceipt(c), TornReceipt(0), TornReceipt(1)} :
                receipt' = [receipt EXCEPT ![id] = left]
  <2>1. /\ \A d \in Calls \ {c} : call'[d] = call[d]
        /\ call'[c].at = "deregister" /\ call'[c].reply = "receipt_failed"
    BY <1>5 DEF Answer, Shape, CallsOK, CallRecord
  <2>2. PICK left \in {StartedReceipt(c), TornReceipt(0), TornReceipt(1)} :
               receipt' = [receipt EXCEPT ![id] = left]
    BY <1>5
  <2>3. ~Settled(left)
    BY <1>1, <2>2, StartedTyped, TornTyped DEF Shape
  <2>4. /\ receipt'[id] = left
        /\ \A i \in Ids \ {id} : receipt'[i] = receipt[i]
    BY <1>1, <2>2 DEF Shape, ReceiptsOK
  <2> QED
    BY <1>1, <1>3, <1>5, <2>1, <2>3, <2>4, NoNewOwner DEF Owner, OwnerSteps
<1> QED
  BY <1>2, <1>4, <1>5 DEF Create, Exists

(* The terminal line: its call was the one owner of the id and is over.    *)
LEMMA CompleteInv ==
  ASSUME Shape, IInv, NEW c \in Calls, Complete(c)
  PROVE  IInv'
<1> DEFINE id == call[c].id
<1>1. Shape' /\ UNCHANGED ran /\ call[c].at = "complete" /\ id \in Ids
  BY CompleteShape, CompleteCases DEF IInv, OwnInv, Shape, CallsOK
<1>2. /\ \A d \in Calls \ {c} : call'[d] = call[d]
      /\ call'[c].at = "done" /\ call'[c].id = id /\ call'[c].content = call[c].content
      /\ call'[c].reply = "answered" => call'[c].terminal = c
  <2>1. CASE Answer(c, "done", "receipt_failed")
    BY <2>1 DEF Answer, Shape, CallsOK, CallRecord
  <2>2. CASE call' = [call EXCEPT ![c].at = "done", ![c].reply = "answered", ![c].terminal = c]
    BY <2>2 DEF Shape, CallsOK, CallRecord
  <2> QED
    BY <2>1, <2>2, CompleteCases
<1>3. \A d \in Calls : Owner(d)' => Owner(d) /\ d # c /\ call'[d] = call[d]
  BY <1>2 DEF Owner, OwnerSteps
<1>4. CASE UNCHANGED receipt
  BY <1>1, <1>2, <1>3, <1>4, NoNewOwner DEF Owner, OwnerSteps
<1>5. CASE \E w : /\ w.entry \in {"completed", "unavailable", "spoiled"} /\ w.size \in Nat
                  /\ receipt' = [receipt EXCEPT ![id] = Appended(receipt[id], c, w)]
  <2>1. PICK w : /\ w.entry \in {"completed", "unavailable", "spoiled"} /\ w.size \in Nat
                 /\ receipt' = [receipt EXCEPT ![id] = Appended(receipt[id], c, w)]
    BY <1>5
  <2>2. receipt[id] \in ReceiptRecord /\ receipt[id].content = call[c].content
    BY <1>1 DEF IInv, OwnInv, Owned, Owner, OwnerSteps, Shape, ReceiptsOK
  <2>3. w.entry \in Entries \ {"none"}
    BY <2>1 DEF Entries
  <2>4. /\ receipt'[id].entry = w.entry /\ receipt'[id].content = call[c].content
        /\ receipt'[id].terminal = c /\ receipt'[id].age = "recent"
        /\ \A i \in Ids \ {id} : receipt'[i] = receipt[i]
    BY <1>1, <2>1, <2>2, <2>3, AppendedTyped DEF Shape, ReceiptsOK
  <2>5. \A d \in Calls : Owner(d)' => call'[d].id # id
    BY <1>1, <1>3 DEF IInv, OwnInv, OneOwner, Owner, OwnerSteps
  <2>6. TerminalOf(call', id, receipt'[id].content, receipt'[id].terminal)
    BY <1>2, <2>4 DEF TerminalOf
  <2>7. ~(receipt'[id].entry = "none" \/ (Settled(receipt'[id]) /\ receipt'[id].age = "old"))
    BY <2>1, <2>4
  <2> QED
    BY <1>1, <1>2, <1>3, <2>4, <2>5, <2>6, <2>7, NoNewOwner
<1> QED
  BY <1>4, <1>5, CompleteCases

(* A death ends every call of its process, the owners among them; what it  *)
(* leaves of a receipt is read as one that may have been executed.         *)
LEMMA CrashInv ==
  ASSUME Shape, IInv, NEW p \in Procs, Crash(p)
  PROVE  IInv'
<1>1. Shape' /\ UNCHANGED ran
  BY CrashShape DEF Crash, IInv, OwnInv
<1>2. \A d \in Calls :
        /\ call'[d].id = call[d].id /\ call'[d].content = call[d].content
        /\ call'[d].reply = call[d].reply /\ call'[d].terminal = call[d].terminal
        /\ call'[d] = call[d] \/ call'[d].at = "dead"
        /\ call[d].at \in {"done", "dead"} => call'[d] = call[d]
  BY DEF Crash, Shape, CallsOK, CallRecord
<1>3. \A d \in Calls : Owner(d)' => Owner(d) /\ call'[d] = call[d]
  BY <1>2 DEF Owner, OwnerSteps
<1>4. CASE UNCHANGED receipt
  BY <1>1, <1>2, <1>3, <1>4, NoNewOwner DEF Owner, OwnerSteps
<1>5. ASSUME NEW c \in Calls, call[c].proc = p, call[c].at \notin {"done", "dead"},
             receipt' \in Interrupted(c), receipt' # receipt
      PROVE  IInv'
  <2> DEFINE id == call[c].id
  <2>1. call'[c].at = "dead"
    BY <1>5 DEF Crash, Shape, CallsOK, CallRecord
  <2>2. /\ \A d \in Calls : Owner(d)' => call'[d].id # id
        /\ ~Settled(receipt'[id]) /\ receipt'[id].entry # "none"
        /\ \A i \in Ids \ {id} : receipt'[i] = receipt[i]
    <3>1. CASE /\ call[c].at = "create" /\ receipt[id].entry = "none"
               /\ \/ receipt' = [receipt EXCEPT ![id] = StartedReceipt(c)]
                  \/ \E s \in {0, 1} : receipt' = [receipt EXCEPT ![id] = TornReceipt(s)]
      <4>1. id \in Ids /\ call[c].at # "idle"
        BY <3>1 DEF Shape, CallsOK
      <4>2. \A d \in Calls : Owner(d) => call[d].id # id
        BY <3>1 DEF IInv, OwnInv, Owned
      <4>3. PICK r : receipt' = [receipt EXCEPT ![id] = r] /\ ~Settled(r) /\ r.entry # "none"
        BY <3>1, <4>1, StartedTyped, TornTyped DEF Shape
      <4> QED
        BY <1>2, <1>3, <4>1, <4>2, <4>3 DEF Shape, ReceiptsOK
    <3>2. CASE /\ call[c].at = "complete"
               /\ receipt' = [receipt EXCEPT ![id] =
                                Appended(receipt[id], c, [entry |-> "spoiled", size |-> 1])]
      <4>1. id \in Ids /\ receipt[id] \in ReceiptRecord
        BY <3>2 DEF Shape, CallsOK, ReceiptsOK
      <4>2. \A d \in Calls : Owner(d)' => call'[d].id # id
        BY <1>2, <1>3, <2>1, <3>2 DEF IInv, OwnInv, OneOwner, Owner, OwnerSteps
      <4>3. Appended(receipt[id], c, [entry |-> "spoiled", size |-> 1]).entry = "spoiled"
        BY <4>1, AppendedTyped DEF Entries
      <4> QED
        BY <3>2, <4>1, <4>2, <4>3 DEF Shape, ReceiptsOK, Settled
    <3> QED
      BY <1>5, <3>1, <3>2, InterruptedCases
  <2> QED
    BY <1>1, <1>2, <1>3, <2>2, NoNewOwner DEF Owner, OwnerSteps
<1>6. receipt' = receipt
      \/ \E c \in Calls : /\ call[c].proc = p /\ call[c].at \notin {"done", "dead"}
                          /\ receipt' \in Interrupted(c)
  BY DEF Crash
<1> QED
  BY <1>4, <1>5, <1>6

(* An hour: what is settled is forgotten with its runs.                    *)
LEMMA AgeInv ==
  ASSUME Shape, IInv, NEW id \in Ids, Age(id)
  PROVE  IInv'
<1>1. Shape' /\ call' = call
  BY AgeShape, AgeEffect
<1>2. \A i \in Ids : /\ receipt'[i].entry = receipt[i].entry
                     /\ receipt'[i].content = receipt[i].content
                     /\ receipt'[i].terminal = receipt[i].terminal
                     /\ Settled(receipt'[i]) <=> Settled(receipt[i])
  BY AgeEffect DEF Settled
<1>3. \A i \in Ids : ran'[i] = ran[i] \/ ran'[i] = {}
  BY AgeEffect
<1>4. \A d \in Calls : call[d].at # "idle" => call[d].id \in Ids
  BY DEF Shape, CallsOK
<1>5. OwnInv'
  BY <1>1, <1>2, <1>4 DEF IInv, OwnInv, Owned, OneOwner, Owner, OwnerSteps
<1>6. StartsFresh'
  BY <1>1, <1>3, <1>4 DEF IInv, RunInv, StartsFresh
<1>7. NothingRan'
  <2> SUFFICES ASSUME NEW i \in Ids,
                      receipt'[i].entry = "none" \/ (Settled(receipt'[i]) /\ receipt'[i].age = "old")
               PROVE  ran'[i] = {}
    BY DEF NothingRan
  <2>1. CASE i = id
    BY <1>2, <2>1, AgeEffect
  <2>2. CASE i # id
    BY <1>3, <2>2, AgeEffect DEF IInv, RunInv, NothingRan
  <2> QED
    BY <2>1, <2>2
<1>8. AtMostOnce'
  BY <1>3 DEF IInv, RunInv, AtMostOnce
<1>9. AnswerInv'
  BY <1>1, <1>2 DEF IInv, AnswerInv, SettledByRun, ReplayFaithful, TerminalOf
<1> QED
  BY <1>5, <1>6, <1>7, <1>8, <1>9 DEF IInv, RunInv

LEMMA InvStep == Shape /\ IInv /\ [Next]_vars => IInv'
<1> SUFFICES ASSUME Shape, IInv, [Next]_vars PROVE IInv'
  OBVIOUS
<1>1. ASSUME NEW c \in Calls, Handler(c) PROVE IInv'
  BY <1>1, ArriveInv, ReserveInv, InspectInv, CreateInv, MovedInv, StartInv, RecordInv,
     CompleteInv DEF Handler
<1>2. CASE UNCHANGED vars
  BY <1>2, ShapeStep, NoNewOwner DEF vars, IInv, OwnInv, Owner
<1> QED
  BY <1>1, <1>2, CrashInv, AgeInv DEF Next

-----------------------------------------------------------------------------
(* For every set of processes, calls, ids and contents, every size and     *)
(* limit: no request id is executed twice while a retry of it may come,    *)
(* whatever processes die, writes fail and receipts are evicted            *)
(* (HeadlessHost::invoke and IdempotencyStore).                            *)
THEOREM ExecutedAtMostOnce == Spec => []AtMostOnce
<1>1. Init => Shape /\ IInv
  BY ShapeInit, InvInit
<1>2. Shape /\ IInv /\ [Next]_vars => (Shape /\ IInv)'
  BY ShapeStep, InvStep DEF IInv, OwnInv
<1>3. IInv => AtMostOnce
  BY DEF IInv, RunInv
<1> QED
  BY <1>1, <1>2, <1>3, PTL DEF Spec

(* And an answer is always the end of a run of the same id and content     *)
(* (existing_reservation, complete_blocking).                              *)
THEOREM AnswersAreFaithful == Spec => []ReplayFaithful
<1>1. Init => Shape /\ IInv
  BY ShapeInit, InvInit
<1>2. Shape /\ IInv /\ [Next]_vars => (Shape /\ IInv)'
  BY ShapeStep, InvStep DEF IInv, OwnInv
<1>3. IInv => ReplayFaithful
  BY DEF IInv, AnswerInv
<1> QED
  BY <1>1, <1>2, <1>3, PTL DEF Spec

-----------------------------------------------------------------------------
(* The active table.  ActiveOwned is inductive only together with the fact *)
(* that the entry of an id belongs to one call: the first to leave would   *)
(* otherwise take the entry of the others with it.                         *)

OnePending == \A c, d \in Calls :
  Pending(c) /\ Pending(d) /\ call[c].proc = call[d].proc /\ call[c].id = call[d].id => c = d
ActiveInv == active \in [Procs -> SUBSET Ids] /\ OnePending /\ ActiveOwned

PendingSteps == {"reserve", "inspect", "create", "deregister", "start", "running", "leave"}
(* No call gets or loses an entry of the table. *)
SamePending == \A d \in Calls : /\ Pending(d)' <=> Pending(d)
                                /\ Pending(d) => /\ call'[d].proc = call[d].proc
                                                 /\ call'[d].id = call[d].id

LEMMA PendingByStep ==
  ASSUME CallsOK, NEW c \in Calls
  PROVE  Pending(c) <=> call[c].at \in PendingSteps
  BY DEF CallsOK, CallRecord, Steps, Pending, PendingSteps

LEMMA SamePendingKeeps ==
  ASSUME ActiveInv, SamePending, active' = active
  PROVE  ActiveInv'
  BY DEF ActiveInv, OnePending, ActiveOwned, SamePending

(* A handler that goes on stays in the table, or stays out of it. *)
LEMMA GoesOnPending ==
  ASSUME CallsOK, NEW c \in Calls, NEW step \in Steps \ {"idle"}, NEW reply,
         Goto(c, step) \/ Answer(c, step, reply),
         call[c].at \in PendingSteps <=> step \in PendingSteps
  PROVE  SamePending
<1>1. /\ \A d \in Calls \ {c} : call'[d] = call[d]
      /\ call'[c].at = step /\ call'[c].proc = call[c].proc /\ call'[c].id = call[c].id
  BY DEF CallsOK, CallRecord, Goto, Answer
<1>2. Pending(c) <=> call[c].at \in PendingSteps
  BY PendingByStep
<1>3. Pending(c)' <=> step \in PendingSteps
  BY <1>1 DEF Pending, PendingSteps, Steps
<1> QED
  BY <1>1, <1>2, <1>3 DEF SamePending, Pending

LEMMA HandlersGoOn ==
  ASSUME Shape, NEW c \in Calls,
         Reserve(c) \/ Create(c) \/ Start(c) \/ Finish(c) \/ Record(c)
  PROVE  SamePending /\ active' = active
<1>0. CallsOK
  BY DEF Shape
<1>1. CASE Reserve(c)
  BY <1>0, <1>1, GoesOnPending DEF Reserve, Steps, PendingSteps
<1>2. CASE Create(c)
  BY <1>0, <1>2, GoesOnPending DEF Create, Steps, PendingSteps
<1>3. CASE Start(c)
  BY <1>0, <1>3, GoesOnPending DEF Start, Steps, PendingSteps
<1>4. CASE Finish(c)
  BY <1>0, <1>4, GoesOnPending DEF Finish, Steps, PendingSteps
<1>5. CASE Record(c)
  BY <1>0, <1>5, GoesOnPending DEF Record, Steps, PendingSteps
<1> QED
  BY <1>1, <1>2, <1>3, <1>4, <1>5

LEMMA InspectPending ==
  ASSUME Shape, NEW c \in Calls, Inspect(c)
  PROVE  SamePending /\ active' = active
<1>1. /\ \A d \in Calls \ {c} : call'[d] = call[d]
      /\ call[c].at = "inspect" /\ call'[c].at = "deregister"
      /\ call'[c].proc = call[c].proc /\ call'[c].id = call[c].id
  BY DEF Shape, CallsOK, CallRecord, Inspect
<1> QED
  BY <1>1 DEF Inspect, SamePending, Pending

LEMMA CompletePending ==
  ASSUME Shape, NEW c \in Calls, Complete(c)
  PROVE  SamePending /\ active' = active
<1>0. /\ call[c].at = "complete" /\ active' = active
      /\ \/ Answer(c, "done", "receipt_failed")
         \/ call' = [call EXCEPT ![c].at = "done", ![c].reply = "answered", ![c].terminal = c]
  BY CompleteCases
<1>1. \A d \in Calls \ {c} : call'[d] = call[d]
  BY <1>0 DEF Shape, CallsOK, Answer
<1>2. call'[c].at = "done"
  BY <1>0 DEF Shape, CallsOK, CallRecord, Answer
<1> QED
  BY <1>0, <1>1, <1>2 DEF SamePending, Pending

LEMMA ArriveKeepsTable ==
  ASSUME Shape, ActiveInv, NEW c \in Calls, NEW p \in Procs, NEW id \in Ids, NEW content \in Contents,
         Arrive(c, p, id, content)
  PROVE  ActiveInv'
<1> DEFINE new == [IdleCall EXCEPT !.proc = p, !.id = id, !.content = content]
<1>0. /\ new.proc = p /\ new.id = id /\ ~Pending(c)
      /\ \A x \in Steps : [new EXCEPT !.at = x].at = x /\ [new EXCEPT !.at = x].proc = p
                                                      /\ [new EXCEPT !.at = x].id = id
  BY DEF IdleCall, Arrive, Pending
<1>1. CASE id \in active[p]
  <2>1. call' = [call EXCEPT ![c] = [new EXCEPT !.at = "done", !.reply = "duplicate"]] /\ active' = active
    BY <1>1 DEF Arrive
  <2>2. [new EXCEPT !.at = "done", !.reply = "duplicate"].at = "done"
    BY DEF IdleCall
  <2> HIDE DEF new
  <2>3. SamePending
    BY <1>0, <2>1, <2>2 DEF SamePending, Pending, Shape, CallsOK
  <2> QED
    BY <2>1, <2>3, SamePendingKeeps
<1>2. CASE id \notin active[p]
  <2>1. /\ call' = [call EXCEPT ![c] = [new EXCEPT !.at = "reserve"]]
        /\ active' = [active EXCEPT ![p] = active[p] \cup {id}]
    BY <1>2 DEF Arrive, ActiveInv
  <2>2. [new EXCEPT !.at = "reserve"].at = "reserve" /\ [new EXCEPT !.at = "reserve"].proc = p
        /\ [new EXCEPT !.at = "reserve"].id = id
    BY DEF IdleCall
  <2> HIDE DEF new
  <2>3. /\ \A d \in Calls \ {c} : call'[d] = call[d] /\ (Pending(d)' <=> Pending(d))
        /\ Pending(c)' /\ call'[c].proc = p /\ call'[c].id = id
    BY <2>1, <2>2 DEF Pending, Shape, CallsOK
  <2>4. \A d \in Calls : ~(Pending(d) /\ call[d].proc = p /\ call[d].id = id)
    BY <1>2 DEF ActiveInv, ActiveOwned
  <2>5. active' \in [Procs -> SUBSET Ids]
    BY <2>1 DEF ActiveInv
  <2>6. OnePending'
    BY <2>3, <2>4 DEF ActiveInv, OnePending
  <2>7. ActiveOwned'
    BY <1>0, <2>1, <2>3 DEF ActiveInv, ActiveOwned
  <2> QED
    BY <2>5, <2>6, <2>7 DEF ActiveInv
<1> QED
  BY <1>1, <1>2

LEMMA DeregisterKeepsTable ==
  ASSUME Shape, ActiveInv, NEW c \in Calls, Deregister(c)
  PROVE  ActiveInv'
<1>1. /\ \A d \in Calls \ {c} : call'[d] = call[d] /\ (Pending(d)' <=> Pending(d))
      /\ Pending(c) /\ ~Pending(c)'
  BY DEF Shape, CallsOK, CallRecord, Deregister, Goto, Pending
<1>2. /\ call[c].proc \in Procs
      /\ active' = [active EXCEPT ![call[c].proc] = active[call[c].proc] \ {call[c].id}]
  BY DEF Shape, CallsOK, Deregister, ActiveInv
<1>3. OnePending'
  BY <1>1 DEF ActiveInv, OnePending
<1>4. ActiveOwned'
  BY <1>1, <1>2 DEF ActiveInv, OnePending, ActiveOwned
<1> QED
  BY <1>2, <1>3, <1>4 DEF ActiveInv

LEMMA CrashKeepsTable ==
  ASSUME Shape, ActiveInv, NEW p \in Procs, Crash(p)
  PROVE  ActiveInv'
<1>1. \A d \in Calls : IF call[d].proc = p THEN ~Pending(d)'
                       ELSE call'[d] = call[d] /\ (Pending(d)' <=> Pending(d))
  BY DEF Shape, CallsOK, CallRecord, Crash, Pending
<1>2. active' = [active EXCEPT ![p] = {}]
  BY DEF Crash
<1>3. \A d \in Calls : Pending(d)' => call[d].proc # p /\ Pending(d) /\ call'[d] = call[d]
  BY <1>1
<1>4. OnePending'
  BY <1>3 DEF ActiveInv, OnePending
<1>5. ActiveOwned'
  BY <1>1, <1>2, <1>3 DEF ActiveInv, ActiveOwned
<1> QED
  BY <1>2, <1>4, <1>5 DEF ActiveInv

LEMMA TableInit == Init => ActiveInv
  BY DEF Init, ActiveInv, OnePending, ActiveOwned, Pending, IdleCall

LEMMA TableStep == Shape /\ ActiveInv /\ [Next]_vars => ActiveInv'
<1> SUFFICES ASSUME Shape, ActiveInv, [Next]_vars PROVE ActiveInv'
  OBVIOUS
<1>1. ASSUME NEW c \in Calls, Handler(c) PROVE ActiveInv'
  BY <1>1, ArriveKeepsTable, DeregisterKeepsTable, HandlersGoOn, InspectPending, CompletePending,
     SamePendingKeeps DEF Handler
<1>2. ASSUME NEW id \in Ids, Age(id) PROVE ActiveInv'
  BY <1>2, SamePendingKeeps DEF Age, SamePending, Pending
<1>3. CASE UNCHANGED vars
  BY <1>3, SamePendingKeeps DEF vars, SamePending, Pending
<1> QED
  BY <1>1, <1>2, <1>3, CrashKeepsTable DEF Next

(* For every set of processes, calls and ids: the active table of a        *)
(* process names exactly the requests it has not let go of, so that no     *)
(* path through invoke, and no death of another process, makes it refuse   *)
(* an id for ever or run two calls of one id as one.                       *)
THEOREM TableExact == Spec => []ActiveOwned
<1>1. Init => Shape /\ IInv /\ ActiveInv
  BY ShapeInit, InvInit, TableInit
<1>2. Shape /\ IInv /\ ActiveInv /\ [Next]_vars => (Shape /\ IInv /\ ActiveInv)'
  BY ShapeStep, InvStep, TableStep DEF IInv, OwnInv
<1>3. ActiveInv => ActiveOwned
  BY DEF ActiveInv
<1> QED
  BY <1>1, <1>2, <1>3, PTL DEF Spec

-----------------------------------------------------------------------------
(*                             The transport                               *)

(* Types, and the bounds of the channels                                   *)

Idle == [at : {"reading", "dead"}]
Held == [at : {"grace", "blocked"}, id : Requests, frame : Frames]

LEMMA ReaderKinds ==
  /\ Reading \in Idle /\ Dead \in Idle /\ Reading # Dead
  /\ \A x \in Idle : x.at = "reading" \/ x.at = "dead"
  /\ \A x \in Idle : (x.at = "dead" => x = Dead) /\ (x.at = "reading" => x = Reading)
  /\ \A x \in Held : x.at \in {"grace", "blocked"} /\ x.id \in Requests /\ x.frame \in Frames
  /\ \A a \in {"grace", "blocked"}, r \in Requests, f \in Frames :
        LET x == [at |-> a, id |-> r, frame |-> f]
        IN x \in Held /\ x.at = a /\ x.id = r /\ x.frame = f /\ x # Dead /\ x # Reading
  BY DEF Idle, Held, Reading, Dead

\* Nobody is waited for by a reader that reads or has ended.
LEMMA HoldsNobody ==
  ASSUME NEW r, reader = Reading \/ reader = Dead
  PROVE  ~Holds(r)
  BY DEF Holds, Reading, Dead

LEMMA FrameTypes ==
  /\ \A m \in Lines : /\ FrameOf(m) \in Frames /\ FrameOf(m).kind = m.kind /\ FrameOf(m).seq = m.seq
                      /\ m.id \in Requests /\ m.kind \in Kinds /\ m.seq \in Nat
  /\ \A why \in Bodies : Failure(why) \in Frames /\ Failure(why).kind = "error"
  /\ \A f \in Frames : f.kind \in Kinds /\ f.seq \in Nat
  /\ \A why \in {"", "protocol", "backpressure", "disconnected"} : why \in Bodies
  BY DEF Lines, Frames, FrameOf, Failure, Kinds, Bodies

\* A frame at the end of a channel.
LEMMA Pushes ==
  ASSUME frames \in [Requests -> Seq(Frames)], NEW r \in Requests, NEW f \in Frames, Push(r, f)
  PROVE  /\ frames' \in [Requests -> Seq(Frames)]
         /\ Len(frames[r]) \in Nat /\ Len(frames'[r]) = Len(frames[r]) + 1
         /\ frames'[r][Len(frames[r]) + 1] = f
         /\ \A i \in 1..Len(frames[r]) : frames'[r][i] = frames[r][i]
         /\ \A q \in Requests : q # r => frames'[q] = frames[q]
<1>1. /\ frames' = [frames EXCEPT ![r] = Append(frames[r], f)] /\ frames[r] \in Seq(Frames)
  BY DEF Push
<1>2. Append(frames[r], f) \in Seq(Frames)
  BY <1>1
<1>3. frames'[r] = Append(frames[r], f)
  BY <1>1
<1> QED
  BY <1>1, <1>2, <1>3

\* The line the reader takes.
LEMMA LineRead ==
  ASSUME wire \in Seq(Lines), NEW m, ReadLine(m)
  PROVE  /\ m \in Lines /\ m = wire[1] /\ Len(wire) \in Nat /\ Len(wire) >= 1
         /\ wire' \in Seq(Lines) /\ Len(wire') = Len(wire) - 1
         /\ \A i \in 1..Len(wire') : wire'[i] = wire[i + 1]
         /\ reader = Reading
<1>1. /\ wire # <<>> /\ m = Head(wire) /\ wire' = Tail(wire) /\ reader = Reading
  BY DEF ReadLine
<1>2. /\ Head(wire) = wire[1] /\ Head(wire) \in Lines /\ Len(wire) \in Nat /\ Len(wire) >= 1
      /\ Tail(wire) \in Seq(Lines) /\ Len(Tail(wire)) = Len(wire) - 1
      /\ \A i \in 1..(Len(wire) - 1) : Tail(wire)[i] = wire[i + 1]
  BY <1>1
<1> QED
  BY <1>1, <1>2

LEMMA TransportTypeInit == ConnInit => ConnTypeOK
<1> SUFFICES ASSUME ConnInit PROVE ConnTypeOK
  OBVIOUS
<1>1. Buffer \in Nat /\ WireCap \in Nat
  BY TransportBounds
<1> QED
  BY <1>1, ReaderKinds DEF ConnInit, ConnTypeOK, Receivers, Idle, Reading

\* What the channels and the reader become when a frame is handed over.
LEMMA PushTypes ==
  ASSUME ConnTypeOK, NEW r \in Requests, NEW f \in Frames, Push(r, f), Room(r)
  PROVE  /\ frames' \in [Requests -> Seq(Frames)]
         /\ \A q \in Requests : Len(frames'[q]) <= Buffer
<1>1. frames \in [Requests -> Seq(Frames)] /\ \A q \in Requests : Len(frames[q]) <= Buffer
  BY DEF ConnTypeOK
<1>2. Buffer \in Nat /\ \A q \in Requests : Len(frames[q]) \in Nat
  BY <1>1, TransportBounds
<1>3. /\ frames' \in [Requests -> Seq(Frames)] /\ Len(frames'[r]) = Len(frames[r]) + 1
      /\ \A q \in Requests : q # r => frames'[q] = frames[q]
  BY <1>1, Pushes
<1>4. Len(frames'[r]) <= Buffer
  BY <1>1, <1>2, <1>3 DEF Room
<1> QED
  BY <1>1, <1>3, <1>4

LEMMA PushOrWaitTypes ==
  ASSUME ConnTypeOK, NEW r \in Requests, NEW f \in Frames, NEW at \in {"grace", "blocked"},
         PushOrWait(r, f, at)
  PROVE  /\ frames' \in [Requests -> Seq(Frames)]
         /\ \A q \in Requests : Len(frames'[q]) <= Buffer
         /\ reader' \in Idle \cup Held
<1>1. CASE UNCHANGED frames
  BY <1>1, ReaderKinds DEF PushOrWait, ConnTypeOK, Idle, Held, Push
<1>2. CASE Room(r) /\ Push(r, f) /\ UNCHANGED reader
  BY <1>2, PushTypes DEF ConnTypeOK, Idle, Held
<1> QED
  BY <1>1, <1>2 DEF PushOrWait

LEMMA TransportTypeStep == ConnTypeOK /\ [TransportNext]_conn => ConnTypeOK'
<1> SUFFICES ASSUME ConnTypeOK, [TransportNext]_conn PROVE ConnTypeOK'
  OBVIOUS
<1> DEFINE FramesOK(g) == /\ g \in [Requests -> Seq(Frames)]
                          /\ \A r \in Requests : Len(g[r]) <= Buffer
<1>0. /\ wire \in Seq(Lines) /\ Len(wire) <= WireCap
      /\ sent \in [Requests -> Nat] /\ answered \subseteq Requests
      /\ pending \subseteq Requests /\ unlisted \subseteq Requests
      /\ nextSeq \in [Requests -> Nat] /\ got \in [Requests -> Nat]
      /\ FramesOK(frames) /\ receiver \in [Requests -> Receivers]
      /\ reader \in Idle \cup Held
      /\ Buffer \in Nat \ {0} /\ WireCap \in Nat \ {0}
  BY TransportBounds DEF ConnTypeOK, Idle, Held
<1> DEFINE Typed == /\ wire' \in Seq(Lines) /\ Len(wire') <= WireCap
                    /\ sent' \in [Requests -> Nat] /\ answered' \subseteq Requests
                    /\ pending' \subseteq Requests /\ unlisted' \subseteq Requests
                    /\ nextSeq' \in [Requests -> Nat] /\ got' \in [Requests -> Nat]
                    /\ FramesOK(frames') /\ receiver' \in [Requests -> Receivers]
                    /\ reader' \in Idle \cup Held
<1>1. Typed => ConnTypeOK'
  BY DEF ConnTypeOK, Idle, Held
<1>2. <<>> \in Seq(Frames) /\ Len(<<>>) = 0 /\ <<>> \in Seq(Lines)
  OBVIOUS
<1>3. ASSUME NEW g, NEW r \in Requests, g = [frames EXCEPT ![r] = <<>>]
      PROVE  FramesOK(g)
  BY <1>0, <1>2, <1>3
<1>4. ASSUME NEW r \in Requests, NEW a \in Receivers, receiver' = [receiver EXCEPT ![r] = a]
      PROVE  receiver' \in [Requests -> Receivers]
  BY <1>0, <1>4
<1> HIDE DEF FramesOK
<1>5. ASSUME NEW r \in Requests, AnyCaller(r)
      PROVE  ConnTypeOK'
  <2>1. \A a \in {"starting", "open", "answered", "failed", "dropped"} : a \in Receivers
    BY DEF Receivers
  <2>2. CASE Register(r) \/ Written(r) \/ EndOfStream(r) \/ TimesOut(r)
    <3>1. receiver' \in [Requests -> Receivers]
      BY <1>4, <2>1, <2>2 DEF Register, Written, EndOfStream, TimesOut
    <3>2. /\ UNCHANGED <<worker, frames, got, reader, unlisted>>
          /\ pending' \subseteq Requests /\ nextSeq' \in [Requests -> Nat]
      BY <1>0, <2>2 DEF Register, Written, EndOfStream, TimesOut, table
    <3> QED
      BY <1>0, <1>1, <3>1, <3>2 DEF worker
  <2>3. CASE TakeProgress(r) \/ TakeEnd(r)
    <3>1. frames[r] \in Seq(Frames) /\ frames[r] # <<>> /\ frames \in [Requests -> Seq(Frames)]
          /\ \A q \in Requests : Len(frames[q]) <= Buffer
      BY <1>0, <2>3 DEF TakeProgress, TakeEnd, FramesOK
    <3>2. Tail(frames[r]) \in Seq(Frames) /\ Len(Tail(frames[r])) = Len(frames[r]) - 1
          /\ Head(frames[r]) \in Frames /\ Len(frames[r]) \in Nat
      BY <3>1
    <3>3. frames' = [frames EXCEPT ![r] = Tail(frames[r])]
      BY <2>3 DEF TakeProgress, TakeEnd
    <3>4. FramesOK(frames')
      BY <1>0, <3>1, <3>2, <3>3 DEF FramesOK
    <3>5. Head(frames[r]).seq + 1 \in Nat
      <4>1. Head(frames[r]).seq \in Nat
        BY <3>2, FrameTypes
      <4> QED
        BY <4>1
    <3> QED
      BY <1>0, <1>1, <1>4, <2>1, <2>3, <3>4, <3>5 DEF TakeProgress, TakeEnd, worker, table
  <2>4. CASE Drop(r)
    BY <1>0, <1>1, <1>3, <1>4, <2>1, <2>4 DEF Drop, worker
  <2> QED
    BY <1>5, <2>2, <2>3, <2>4 DEF AnyCaller, Takes
<1>6. ASSUME NEW r \in Requests, AnyWorker(r)
      PROVE  ConnTypeOK'
  <2>1. PICK k \in {"progress", "terminal"}, n \in {0, 1} :
           CanWrite /\ Write(r, k, sent[r] + n, "")
    <3>1. sent[r] + 0 = sent[r]
      BY <1>0
    <3> QED
      BY <1>6, <3>1 DEF AnyWorker, WriteProgress, WriteSkips, WriteAnswer
  <2> DEFINE l == [id |-> r, kind |-> k, seq |-> sent[r] + n, body |-> ""]
  <2>2. l \in Lines
    <3>1. sent[r] + n \in Nat /\ k \in Kinds /\ "" \in Bodies
      BY <1>0 DEF Kinds, Bodies
    <3> QED
      BY <3>1 DEF Lines
  <2>3. wire' = Append(wire, l)
    BY <2>1 DEF Write
  <2> HIDE DEF l
  <2>4. wire' \in Seq(Lines) /\ Len(wire') <= WireCap
    <3>1. Len(wire) < WireCap /\ Len(wire) \in Nat /\ WireCap \in Nat
      <4>1. Len(wire) \in Nat
        BY <1>0
      <4> QED
        BY <2>1, <4>1, TransportBounds DEF CanWrite
    <3>2. Append(wire, l) \in Seq(Lines) /\ Len(Append(wire, l)) = Len(wire) + 1
      BY <1>0, <2>2
    <3> QED
      BY <2>3, <3>1, <3>2
  <2>5. sent' \in [Requests -> Nat] /\ answered' \subseteq Requests
    <3>1. \A j \in {1, 2} : sent[r] + j \in Nat
      BY <1>0
    <3>2. CASE WriteProgress(r, "") \/ WriteSkips(r, "")
      BY <1>0, <3>1, <3>2 DEF WriteProgress, WriteSkips, Count
    <3>3. CASE WriteAnswer(r, "")
      BY <1>0, <3>3 DEF WriteAnswer
    <3> QED
      BY <1>6, <3>2, <3>3 DEF AnyWorker
  <2>6. UNCHANGED <<table, frames, client, reader>>
    BY <1>6 DEF AnyWorker, WriteProgress, WriteSkips, WriteAnswer
  <2> QED
    BY <1>0, <1>1, <2>4, <2>5, <2>6 DEF table, client
<1>7. CASE ReaderReads
  <2>1. PICK m : Discard(m) \/ DeliverProgress(m) \/ RejectSequence(m) \/ DeliverAnswer(m)
    BY <1>7 DEF ReaderReads
  <2>2. ReadLine(m)
    BY <2>1 DEF Discard, DeliverProgress, RejectSequence, DeliverAnswer
  <2>3. m \in Lines /\ m.id \in Requests /\ wire' \in Seq(Lines) /\ Len(wire') <= WireCap
        /\ FrameOf(m) \in Frames
    <3>1. m \in Lines /\ wire' \in Seq(Lines) /\ Len(wire') = Len(wire) - 1 /\ Len(wire) \in Nat
      BY <1>0, <2>2, LineRead
    <3>2. m.id \in Requests /\ FrameOf(m) \in Frames
      BY <3>1, FrameTypes
    <3>3. Len(wire') <= WireCap
      BY <1>0, <3>1, TransportBounds
    <3> QED
      BY <3>1, <3>2, <3>3
  <2>4. UNCHANGED <<sent, answered, client, unlisted>>
    BY <2>1 DEF Discard, DeliverProgress, RejectSequence, DeliverAnswer, table
  <2>5. pending' \subseteq Requests /\ nextSeq' \in [Requests -> Nat]
    <3>1. nextSeq[m.id] + 1 \in Nat
      BY <1>0, <2>3
    <3>2. nextSeq' = nextSeq \/ nextSeq' = [nextSeq EXCEPT ![m.id] = nextSeq[m.id] + 1]
      BY <2>1 DEF Discard, DeliverProgress, RejectSequence, DeliverAnswer, table
    <3>3. pending' \subseteq pending
      BY <2>1 DEF Discard, DeliverProgress, RejectSequence, DeliverAnswer, table
    <3> QED
      BY <1>0, <2>3, <3>1, <3>2, <3>3
  <2>6. FramesOK(frames') /\ reader' \in Idle \cup Held
    <3>1. CASE Discard(m)
      BY <1>0, <3>1 DEF Discard
    <3>2. CASE DeliverProgress(m) \/ DeliverAnswer(m)
      BY <2>3, <3>2, PushOrWaitTypes DEF DeliverProgress, DeliverAnswer, FramesOK
    <3>3. CASE RejectSequence(m)
      BY <2>3, <3>3, PushOrWaitTypes, FrameTypes DEF RejectSequence, FramesOK
    <3> QED
      BY <2>1, <3>1, <3>2, <3>3
  <2> QED
    BY <1>0, <1>1, <2>3, <2>4, <2>5, <2>6 DEF client
<1>8. ASSUME NEW r \in Requests, Unblock(r) \/ GraceElapses(r)
      PROVE  ConnTypeOK'
  <2>1. reader \in Held /\ reader.frame \in Frames
    BY <1>0, <1>8, ReaderKinds DEF Unblock, GraceElapses, Holds
  <2>2. pending' \subseteq Requests /\ reader' \in Idle \cup Held /\ UNCHANGED <<worker, nextSeq, client, unlisted>>
    BY <1>0, <1>8, ReaderKinds DEF Unblock, GraceElapses
  <2>3. FramesOK(frames')
    <3>1. CASE UNCHANGED frames
      BY <1>0, <3>1
    <3>2. CASE \E f \in Frames : Room(r) /\ Push(r, f)
      BY <3>2, PushTypes DEF FramesOK
    <3> QED
      BY <1>8, <2>1, <3>1, <3>2, FrameTypes DEF Unblock, GraceElapses, TryPush
  <2> QED
    BY <1>0, <1>1, <2>2, <2>3 DEF worker, client
<1>9. CASE ReaderEnds
  <2>1. \A q \in Requests : frames'[q] \in Seq(Frames) /\ Len(frames'[q]) <= Buffer
    <3> TAKE q \in Requests
    <3>1. frames[q] \in Seq(Frames) /\ Len(frames[q]) <= Buffer /\ Failure("disconnected") \in Frames
      BY <1>0, FrameTypes DEF FramesOK
    <3>2. /\ Append(frames[q], Failure("disconnected")) \in Seq(Frames)
          /\ Len(Append(frames[q], Failure("disconnected"))) = Len(frames[q]) + 1
          /\ Len(frames[q]) \in Nat
      BY <3>1
    <3>3. frames'[q] = IF q \in pending /\ ~Closed(q) /\ Room(q)
                       THEN Append(frames[q], Failure("disconnected")) ELSE frames[q]
      BY <1>9 DEF ReaderEnds
    <3> QED
      BY <1>0, <3>1, <3>2, <3>3 DEF Room
  <2>2. frames' = [q \in Requests |-> frames'[q]]
    BY <1>9 DEF ReaderEnds
  <2>3. FramesOK(frames')
    BY <2>1, <2>2 DEF FramesOK
  <2> QED
    BY <1>0, <1>1, <1>2, <1>9, <2>3, ReaderKinds DEF ReaderEnds, client
<1>10. CASE ReaderAborts
  BY <1>0, <1>1, <1>2, <1>10, ReaderKinds DEF ReaderAborts, table, client
<1>11. ASSUME NEW r \in Requests, WriteFails(r) \/ Unlist(r)
       PROVE  ConnTypeOK'
  <2>1. CASE WriteFails(r)
    <3>1. "refused" \in Receivers
      BY DEF Receivers
    <3> QED
      BY <1>0, <1>1, <1>3, <1>4, <2>1, <3>1 DEF WriteFails, worker
  <2>2. CASE Unlist(r)
    BY <1>0, <1>1, <2>2 DEF Unlist, worker, client
  <2> QED
    BY <1>11, <2>1, <2>2
<1>12. CASE UNCHANGED conn
  BY <1>0, <1>1, <1>12 DEF conn, worker, table, client
<1> QED
  BY <1>5, <1>6, <1>7, <1>8, <1>9, <1>10, <1>11, <1>12
     DEF TransportNext, ConnMoves, ReaderMoves

-----------------------------------------------------------------------------
(* The channel of a request.  While its receiver may still take frames, the *)
(* progress in the channel follows what was taken without a gap, an answer  *)
(* stands behind all of the progress, and whatever is not progress is the   *)
(* last frame there will be; the reader's frame is the next one.            *)

Live(r) == receiver[r] \in {"starting", "open"}
FrameAt(r, f, i) ==
    /\ f.kind = "progress" => f.seq = got[r] + i - 1 /\ f.seq < sent[r]
    /\ f.kind = "terminal" => got[r] + i - 1 = sent[r] /\ r \in answered

InOrder(r)  == \A i \in 1..Len(frames[r]) : FrameAt(r, frames[r][i], i)
EndsLast(r) == /\ \A i \in 1..(Len(frames[r]) - 1) : frames[r][i].kind = "progress"
               /\ r \in pending \/ Holds(r) =>
                     \A i \in 1..Len(frames[r]) : frames[r][i].kind = "progress"
Expected(r) == r \in pending /\ ~Holds(r) /\ reader # Dead => nextSeq[r] = got[r] + Len(frames[r])
HeldNext(r) == Holds(r) =>
    /\ FrameAt(r, reader.frame, Len(frames[r]) + 1)
    /\ reader.at = "grace" => reader.frame.kind = "progress" /\ nextSeq[r] = reader.frame.seq + 1
    /\ reader.at = "blocked" => reader.frame.kind # "progress" /\ r \notin pending
Channel(r) == Live(r) => InOrder(r) /\ EndsLast(r) /\ Expected(r) /\ HeldNext(r)

\* A step that leaves the channel of a request alone.
LEMMA ChannelStays ==
  ASSUME NEW q \in Requests, Channel(q), Live(q)' => Live(q),
         Live(q)' => frames'[q] = frames[q] /\ got'[q] = got[q],
         nextSeq'[q] = nextSeq[q], q \in pending' => q \in pending,
         sent[q] \in Nat, sent'[q] \in Nat, sent[q] <= sent'[q], got[q] \in Nat,
         frames[q] \in Seq(Frames), Holds(q) => reader.frame \in Frames,
         q \in answered => q \in answered' /\ sent'[q] = sent[q],
         reader' = reader \/ (~Holds(q)' /\ (reader' # Dead => ~Holds(q) /\ reader # Dead))
  PROVE  Channel(q)'
<1> SUFFICES ASSUME Live(q)' PROVE (InOrder(q) /\ EndsLast(q) /\ Expected(q) /\ HeldNext(q))'
  BY DEF Channel
<1>1. /\ InOrder(q) /\ EndsLast(q) /\ Expected(q) /\ HeldNext(q)
      /\ frames'[q] = frames[q] /\ got'[q] = got[q]
  BY DEF Channel
<1> DEFINE NextAt(f, i) == /\ f.kind = "progress" => f.seq = got'[q] + i - 1 /\ f.seq < sent'[q]
                           /\ f.kind = "terminal" => got'[q] + i - 1 = sent'[q] /\ q \in answered'
<1>2. \A f \in Frames, i \in Nat : FrameAt(q, f, i) => NextAt(f, i)
  <2> TAKE f \in Frames, i \in Nat
  <2>1. f.seq \in Nat
    BY FrameTypes
  <2> QED
    BY <1>1, <2>1 DEF FrameAt
<1>3. Holds(q)' => reader' = reader /\ Holds(q)
  BY DEF Holds
<1>4. Len(frames[q]) \in Nat /\ \A i \in 1..Len(frames[q]) : frames[q][i] \in Frames
  OBVIOUS
<1>5. InOrder(q)'
  <2>1. \A i \in 1..Len(frames[q]) : NextAt(frames[q][i], i)
    BY <1>1, <1>2, <1>4 DEF InOrder
  <2> QED
    BY <1>1, <2>1 DEF InOrder, FrameAt
<1>6. EndsLast(q)'
  BY <1>1, <1>3 DEF EndsLast
<1>7. Expected(q)'
  <2>1. ~Holds(q)' /\ reader' # Dead => ~Holds(q) /\ reader # Dead
    BY DEF Holds
  <2> QED
    BY <1>1, <2>1 DEF Expected
<1>8. HeldNext(q)'
  <2> SUFFICES ASSUME Holds(q)' PROVE HeldNext(q)'
    BY DEF HeldNext
  <2>1. reader' = reader /\ FrameAt(q, reader.frame, Len(frames[q]) + 1)
    BY <1>1, <1>3 DEF HeldNext
  <2>2. NextAt(reader.frame, Len(frames[q]) + 1)
    <3>1. reader.frame \in Frames /\ Len(frames[q]) + 1 \in Nat
      BY <1>3, <1>4
    <3> QED
      BY <1>2, <2>1, <3>1
  <2> QED
    BY <1>1, <1>3, <2>1, <2>2 DEF HeldNext, FrameAt
<1> QED
  BY <1>5, <1>6, <1>7, <1>8

\* A frame is pushed: the next progress, or the end.
LEMMA ChannelPush ==
  ASSUME ConnTypeOK, NEW q \in Requests, Channel(q), NEW f \in Frames, Push(q, f),
         UNCHANGED <<sent, answered, client>>, FrameAt(q, f, Len(frames[q]) + 1), ~Holds(q)',
         q \in pending \/ Holds(q),
         q \in pending' => q \in pending /\ f.kind = "progress" /\ nextSeq'[q] = f.seq + 1
  PROVE  Channel(q)'
<1> SUFFICES ASSUME Live(q)' PROVE (InOrder(q) /\ EndsLast(q) /\ Expected(q) /\ HeldNext(q))'
  BY DEF Channel
<1> DEFINE n == Len(frames[q])
<1>1. /\ InOrder(q) /\ EndsLast(q) /\ got' = got /\ receiver' = receiver
  BY DEF Channel, Live, client
<1>2. /\ n \in Nat /\ Len(frames'[q]) = n + 1 /\ frames'[q][n + 1] = f
      /\ \A i \in 1..n : frames'[q][i] = frames[q][i]
      /\ got[q] \in Nat /\ f.seq \in Nat
  BY Pushes, FrameTypes DEF ConnTypeOK
<1> HIDE DEF n
<1>3. InOrder(q)'
  <2> SUFFICES ASSUME NEW i \in 1..(n + 1) PROVE FrameAt(q, frames'[q][i], i)
    BY <1>1, <1>2 DEF InOrder, FrameAt
  <2>1. CASE i = n + 1
    BY <1>2, <2>1 DEF n
  <2>2. CASE i \in 1..n
    BY <1>1, <1>2, <2>2 DEF InOrder, n
  <2> QED
    BY <1>2, <2>1, <2>2
<1>4. \A i \in 1..n : frames[q][i].kind = "progress"
  BY <1>1 DEF EndsLast, n
<1>5. EndsLast(q)'
  <2>1. \A i \in 1..(Len(frames'[q]) - 1) : frames'[q][i].kind = "progress"
    BY <1>2, <1>4
  <2>2. q \in pending' \/ Holds(q)' => \A i \in 1..Len(frames'[q]) : frames'[q][i].kind = "progress"
    BY <1>2, <1>4
  <2> QED
    BY <2>1, <2>2 DEF EndsLast
<1>6. Expected(q)'
  BY <1>1, <1>2 DEF Expected, FrameAt, n
<1>7. HeldNext(q)'
  BY DEF HeldNext
<1> QED
  BY <1>3, <1>5, <1>6, <1>7

\* The reader waits with a frame for a channel that is full.
LEMMA ChannelWait ==
  ASSUME ConnTypeOK, NEW q \in Requests, Channel(q), NEW f \in Frames, NEW at \in {"grace", "blocked"},
         UNCHANGED <<sent, answered, client, frames>>, FrameAt(q, f, Len(frames[q]) + 1),
         reader' = [at |-> at, id |-> q, frame |-> f], q \in pending,
         at = "grace" => f.kind = "progress" /\ nextSeq'[q] = f.seq + 1,
         at = "blocked" => f.kind # "progress" /\ q \notin pending'
  PROVE  Channel(q)'
<1> SUFFICES ASSUME Live(q)' PROVE (InOrder(q) /\ EndsLast(q) /\ Expected(q) /\ HeldNext(q))'
  BY DEF Channel
<1>1. /\ InOrder(q) /\ EndsLast(q) /\ got' = got /\ receiver' = receiver
  BY DEF Channel, Live, client
<1>2. reader'.at = at /\ reader'.id = q /\ reader'.frame = f /\ Holds(q)'
  BY DEF Holds
<1>3. InOrder(q)' /\ EndsLast(q)'
  BY <1>1 DEF InOrder, EndsLast, FrameAt
<1>4. Expected(q)'
  BY <1>2 DEF Expected
<1>5. HeldNext(q)'
  BY <1>1, <1>2 DEF HeldNext, FrameAt
<1> QED
  BY <1>3, <1>4, <1>5

\* The receiver takes the first frame, a progress frame.
LEMMA ChannelTake ==
  ASSUME ConnTypeOK, NEW q \in Requests, Channel(q), TakeProgress(q)
  PROVE  /\ Channel(q)'
         /\ Head(frames[q]).seq = got[q] /\ got[q] < sent[q] /\ got'[q] = got[q] + 1
<1> DEFINE n == Len(frames[q])
<1>1. /\ InOrder(q) /\ EndsLast(q) /\ Expected(q) /\ HeldNext(q)
      /\ UNCHANGED <<sent, answered, pending, nextSeq, receiver, reader>>
      /\ frames[q] # <<>> /\ Head(frames[q]).kind = "progress"
      /\ frames[q] \in Seq(Frames) /\ got[q] \in Nat /\ frames'[q] = Tail(frames[q])
      /\ got' = [got EXCEPT ![q] = Head(frames[q]).seq + 1] /\ got \in [Requests -> Nat]
  BY DEF TakeProgress, Channel, Live, worker, table, ConnTypeOK
<1>2. /\ n \in Nat /\ n >= 1 /\ Head(frames[q]) = frames[q][1]
      /\ Len(Tail(frames[q])) = n - 1
      /\ \A i \in 1..(n - 1) : Tail(frames[q])[i] = frames[q][i + 1]
      /\ \A i \in 1..n : frames[q][i] \in Frames
  BY <1>1
<1>3. Head(frames[q]).seq = got[q] /\ got[q] < sent[q] /\ got'[q] = got[q] + 1
  <2>1. FrameAt(q, frames[q][1], 1)
    BY <1>1, <1>2 DEF InOrder
  <2>2. frames[q][1].seq = got[q] + 1 - 1 /\ frames[q][1].seq < sent[q]
    BY <1>1, <1>2, <2>1 DEF FrameAt
  <2> QED
    BY <1>1, <1>2, <2>2
<1>4. /\ Len(frames'[q]) = n - 1
      /\ \A i \in 1..(n - 1) : frames'[q][i] = frames[q][i + 1]
  BY <1>1, <1>2
<1> HIDE DEF n
<1>5. Holds(q)' <=> Holds(q)
  BY <1>1 DEF Holds
<1>6. InOrder(q)'
  <2> DEFINE NextAt(f, i) ==
               /\ f.kind = "progress" => f.seq = got'[q] + i - 1 /\ f.seq < sent'[q]
               /\ f.kind = "terminal" => got'[q] + i - 1 = sent'[q] /\ q \in answered'
  <2>1. \A i \in 1..(n - 1) : NextAt(frames[q][i + 1], i)
    <3> TAKE i \in 1..(n - 1)
    <3>1. i + 1 \in 1..n /\ i \in Nat
      BY <1>2
    <3>2. FrameAt(q, frames[q][i + 1], i + 1)
      BY <1>1, <3>1 DEF InOrder, n
    <3>3. got'[q] + i - 1 = got[q] + (i + 1) - 1
      BY <1>1, <1>3, <3>1
    <3> QED
      BY <1>1, <3>2, <3>3 DEF FrameAt
  <2> QED
    BY <1>4, <2>1 DEF InOrder, FrameAt
<1>7. EndsLast(q)'
  <2>1. \A i \in 1..(n - 2) : i + 1 \in 1..(n - 1)
    BY <1>2
  <2>2. \A i \in 1..(n - 1) : i + 1 \in 1..n
    BY <1>2
  <2> QED
    BY <1>1, <1>2, <1>4, <1>5, <2>1, <2>2 DEF EndsLast, n
<1>8. Expected(q)'
  BY <1>1, <1>2, <1>3, <1>4, <1>5 DEF Expected, n
<1>9. HeldNext(q)'
  BY <1>1, <1>2, <1>3, <1>4, <1>5 DEF HeldNext, FrameAt, n
<1> QED
  BY <1>3, <1>6, <1>7, <1>8, <1>9 DEF Channel

-----------------------------------------------------------------------------
(* The lines on their way.  As long as the map holds a request, the last    *)
(* line before its answer, or what the map expects when there is none, is   *)
(* the last progress the worker counted.                                    *)

NoEndBefore(r, i) == \A j \in 1..(i - 1) : wire[j].id = r => wire[j].kind = "progress"
EndsAt(r, i) ==
    /\ NoEndBefore(r, i)
    /\ \/ i = Len(wire) + 1 /\ r \notin answered
       \/ i \in 1..Len(wire) /\ wire[i].id = r /\ wire[i].kind = "terminal"

CountedBelow(r) == \A i \in 1..Len(wire) :
    wire[i].id = r /\ wire[i].kind = "progress" /\ NoEndBefore(r, i) => wire[i].seq < sent[r]
LastBefore(r, i) ==
    /\ (\A k \in 1..(i - 1) : wire[k].id # r) => nextSeq[r] = sent[r]
    /\ \A p \in 1..(i - 1) :
          wire[p].id = r /\ (\A k \in (p + 1)..(i - 1) : wire[k].id # r) => wire[p].seq + 1 = sent[r]
Gapless(r) == \A i \in 1..(Len(wire) + 1) : EndsAt(r, i) => LastBefore(r, i)
AnswerOnWire(r) ==
    /\ r \in answered => \E i \in 1..Len(wire) : wire[i].id = r /\ wire[i].kind = "terminal"
    /\ r \notin answered => \A i \in 1..Len(wire) : wire[i].id = r => wire[i].kind = "progress"
Outstanding(r) == r \in pending /\ reader # Dead => CountedBelow(r) /\ Gapless(r) /\ AnswerOnWire(r)

LEMMA OutstandingStays ==
  ASSUME NEW q \in Requests, Outstanding(q), wire' = wire, sent' = sent, answered' = answered,
         q \in pending' => q \in pending /\ nextSeq'[q] = nextSeq[q],
         reader' # Dead => reader # Dead
  PROVE  Outstanding(q)'
  BY DEF Outstanding, CountedBelow, Gapless, AnswerOnWire, EndsAt, NoEndBefore, LastBefore

LEMMA OutstandingWrite ==
  ASSUME ConnTypeOK, NEW q \in Requests, Outstanding(q), NEW r \in Requests,
         NEW k \in {"progress", "terminal"}, NEW s \in Nat, NEW body, Write(r, k, s, body),
         UNCHANGED <<pending, nextSeq, reader>>,
         q # r \/ r \in answered => sent'[q] = sent[q] /\ (q \in answered' <=> q \in answered),
         q = r /\ r \notin answered /\ k = "progress" =>
            s >= sent[q] /\ sent'[q] = s + 1 /\ q \notin answered',
         q = r /\ r \notin answered /\ k = "terminal" => sent'[q] = sent[q] /\ q \in answered'
  PROVE  Outstanding(q)'
<1> SUFFICES ASSUME q \in pending, reader # Dead
             PROVE  (CountedBelow(q) /\ Gapless(q) /\ AnswerOnWire(q))'
  BY DEF Outstanding
<1>0. PICK L : L = Len(wire)
  OBVIOUS
<1>1. /\ CountedBelow(q) /\ Gapless(q) /\ AnswerOnWire(q)
      /\ sent[q] \in Nat /\ wire \in Seq(Lines)
  BY DEF Outstanding, ConnTypeOK
<1>2. /\ L \in Nat /\ Len(wire') = L + 1
      /\ wire'[L + 1].id = r /\ wire'[L + 1].kind = k /\ wire'[L + 1].seq = s
      /\ \A i \in 1..L : wire'[i] = wire[i]
      /\ \A i \in 1..L : wire[i].seq \in Nat
  <2> DEFINE l == [id |-> r, kind |-> k, seq |-> s, body |-> body]
  <2>1. wire' = Append(wire, l) /\ l.id = r /\ l.kind = k /\ l.seq = s
    BY DEF Write
  <2>2. \A i \in 1..L : wire[i] \in Lines
    BY <1>0, <1>1
  <2> HIDE DEF l
  <2>3. /\ L \in Nat /\ Len(wire') = L + 1 /\ wire'[L + 1] = l
        /\ \A i \in 1..L : wire'[i] = wire[i]
    BY <1>0, <1>1, <2>1
  <2> QED
    BY <2>1, <2>2, <2>3, FrameTypes
<1>3. \A i \in 1..(L + 1) : NoEndBefore(q, i)' <=> NoEndBefore(q, i)
  BY <1>2 DEF NoEndBefore
<1>7. ASSUME NEW i \in 1..(L + 1), LastBefore(q, i), sent'[q] = sent[q]
      PROVE  LastBefore(q, i)'
  <2>1. \A j \in 1..(i - 1) : j \in 1..L /\ wire'[j] = wire[j]
    BY <1>2
  <2>2. \A p \in 1..(i - 1) : \A j \in (p + 1)..(i - 1) : j \in 1..(i - 1)
    BY <1>2
  <2> QED
    BY <1>7, <2>1, <2>2 DEF LastBefore
<1>4. CASE q # r
  <2>0. sent'[q] = sent[q] /\ (q \in answered' <=> q \in answered)
    BY <1>4
  <2>1. \A i \in 1..L : EndsAt(q, i)' => EndsAt(q, i)
    BY <1>0, <1>2, <1>3, <1>4, <2>0 DEF EndsAt
  <2>2. ~EndsAt(q, L + 1)'
    <3>1. L + 1 # Len(wire') + 1 /\ wire'[L + 1].id # q
      BY <1>2, <1>4
    <3> QED
      BY <3>1 DEF EndsAt
  <2>3. EndsAt(q, L + 2)' => EndsAt(q, L + 1)
    <3> SUFFICES ASSUME EndsAt(q, L + 2)' PROVE EndsAt(q, L + 1)
      OBVIOUS
    <3>1. q \notin answered /\ NoEndBefore(q, L + 2)'
      BY <1>2, <2>0 DEF EndsAt
    <3>2. NoEndBefore(q, L + 1)
      BY <1>2, <3>1 DEF NoEndBefore
    <3> QED
      BY <1>0, <3>1, <3>2 DEF EndsAt
  <2>4. Gapless(q)'
    <3> SUFFICES ASSUME NEW i \in 1..(L + 2), EndsAt(q, i)' PROVE LastBefore(q, i)'
      BY <1>2 DEF Gapless
    <3>1. CASE i \in 1..L
      <4>1. LastBefore(q, i)
        BY <1>0, <1>1, <1>2, <2>1, <3>1 DEF Gapless
      <4> QED
        BY <1>7, <2>0, <3>1, <4>1, <1>2
    <3>2. CASE i = L + 2
      <4>1. LastBefore(q, L + 1)
        BY <1>0, <1>1, <1>2, <2>3, <3>2 DEF Gapless
      <4>2. /\ (\A j \in 1..L : wire[j].id # q) => nextSeq[q] = sent[q]
            /\ \A p \in 1..L :
                  wire[p].id = q /\ (\A j \in (p + 1)..L : wire[j].id # q) => wire[p].seq + 1 = sent[q]
        BY <1>2, <4>1 DEF LastBefore
      <4>3. \A p \in 1..(i - 1) : wire'[p].id = q => p \in 1..L /\ wire'[p] = wire[p]
        BY <1>2, <1>4, <3>2
      <4>4. (\A j \in 1..(i - 1) : wire'[j].id # q) => nextSeq'[q] = sent'[q]
        BY <1>2, <2>0, <3>2, <4>2
      <4>5. ASSUME NEW p \in 1..(i - 1), wire'[p].id = q, \A j \in (p + 1)..(i - 1) : wire'[j].id # q
            PROVE  wire'[p].seq + 1 = sent'[q]
        <5>1. p \in 1..L /\ wire'[p] = wire[p]
          BY <4>3, <4>5
        <5>2. \A j \in (p + 1)..L : wire[j].id # q
          BY <1>2, <3>2, <4>5
        <5> QED
          BY <2>0, <4>2, <4>5, <5>1, <5>2
      <4> QED
        BY <4>4, <4>5 DEF LastBefore
    <3>3. CASE i = L + 1
      BY <2>2, <3>3
    <3> QED
      BY <1>2, <3>1, <3>2, <3>3
  <2>5. CountedBelow(q)'
    BY <1>0, <1>1, <1>2, <1>3, <1>4, <2>0 DEF CountedBelow
  <2>6. AnswerOnWire(q)'
    BY <1>0, <1>1, <1>2, <1>4, <2>0 DEF AnswerOnWire
  <2> QED
    BY <2>4, <2>5, <2>6
<1>5. CASE q = r /\ r \in answered
  <2>1. PICK t \in 1..L : wire[t].id = q /\ wire[t].kind = "terminal"
    BY <1>0, <1>1, <1>5 DEF AnswerOnWire
  <2>2. \A i \in 1..(L + 2) : NoEndBefore(q, i)' => i \in 1..L
    <3> SUFFICES ASSUME NEW i \in 1..(L + 2), NoEndBefore(q, i)', i > L
                 PROVE  FALSE
      BY <1>2
    <3>1. t \in 1..(i - 1) /\ wire'[t] = wire[t]
      BY <1>2, <2>1
    <3> QED
      BY <2>1, <3>1 DEF NoEndBefore
  <2>3. \A i \in 1..(L + 2) : EndsAt(q, i)' => i \in 1..L /\ EndsAt(q, i)
    BY <1>0, <1>2, <1>3, <2>2 DEF EndsAt
  <2>0. sent'[q] = sent[q] /\ q \in answered'
    BY <1>5
  <2>4. Gapless(q)'
    <3> SUFFICES ASSUME NEW i \in 1..(L + 2), EndsAt(q, i)' PROVE LastBefore(q, i)'
      BY <1>2 DEF Gapless
    <3>1. i \in 1..(L + 1) /\ EndsAt(q, i)
      BY <1>2, <2>3
    <3>2. LastBefore(q, i)
      BY <1>0, <1>1, <3>1 DEF Gapless
    <3> QED
      BY <1>7, <2>0, <3>1, <3>2
  <2>5. CountedBelow(q)'
    BY <1>0, <1>1, <1>2, <1>3, <2>0, <2>2 DEF CountedBelow
  <2>6. AnswerOnWire(q)'
    BY <1>2, <2>0, <2>1 DEF AnswerOnWire
  <2> QED
    BY <2>4, <2>5, <2>6
<1>6. CASE q = r /\ r \notin answered
  <2>1. \A i \in 1..L : wire[i].id = q => wire[i].kind = "progress"
    BY <1>0, <1>1, <1>6 DEF AnswerOnWire
  <2>2. EndsAt(q, L + 1)
    BY <1>0, <1>2, <1>6, <2>1 DEF EndsAt, NoEndBefore
  <2>3. CASE k = "progress"
    <3>1. \A i \in 1..(L + 2) : EndsAt(q, i)' => i = L + 2
      BY <1>2, <1>6, <2>1, <2>3 DEF EndsAt
    <3>2. Gapless(q)'
      <4> SUFFICES ASSUME NEW i \in 1..(L + 2), EndsAt(q, i)' PROVE LastBefore(q, i)'
        BY <1>2 DEF Gapless
      <4>1. i = L + 2 /\ sent'[q] = s + 1
        BY <1>6, <2>3, <3>1
      <4>2. \A p \in 1..(i - 1) : p = L + 1 \/ L + 1 \in (p + 1)..(i - 1)
        BY <1>2, <4>1
      <4>3. wire'[L + 1].id = q /\ wire'[L + 1].seq + 1 = sent'[q] /\ L + 1 \in 1..(i - 1)
        BY <1>2, <1>6, <4>1
      <4> QED
        BY <4>2, <4>3 DEF LastBefore
    <3>3. CountedBelow(q)'
      BY <1>0, <1>1, <1>2, <1>3, <1>6, <2>3 DEF CountedBelow
    <3>4. AnswerOnWire(q)'
      BY <1>2, <1>6, <2>1, <2>3 DEF AnswerOnWire
    <3> QED
      BY <3>2, <3>3, <3>4
  <2>4. CASE k = "terminal"
    <3>1. \A i \in 1..(L + 2) : EndsAt(q, i)' => i = L + 1
      BY <1>2, <1>6, <2>1, <2>4 DEF EndsAt
    <3>2. Gapless(q)'
      <4>1. LastBefore(q, L + 1) /\ L + 1 \in 1..(L + 1) /\ sent'[q] = sent[q]
        BY <1>0, <1>1, <1>2, <1>6, <2>2, <2>4 DEF Gapless
      <4>2. LastBefore(q, L + 1)'
        BY <1>7, <4>1
      <4> QED
        BY <1>2, <3>1, <4>2 DEF Gapless
    <3>3. CountedBelow(q)'
      BY <1>0, <1>1, <1>2, <1>3, <1>6, <2>4 DEF CountedBelow
    <3>4. AnswerOnWire(q)'
      BY <1>2, <1>6, <2>4 DEF AnswerOnWire
    <3> QED
      BY <3>2, <3>3, <3>4
  <2> QED
    BY <2>3, <2>4
<1> QED
  BY <1>4, <1>5, <1>6

LEMMA OutstandingRead ==
  ASSUME ConnTypeOK, NEW q \in Requests, Outstanding(q), NEW m, ReadLine(m),
         UNCHANGED <<sent, answered>>,
         q \in pending' => q \in pending,
         q \in pending' /\ m.id = q => m.kind = "progress" /\ nextSeq'[q] = m.seq + 1,
         q \in pending' /\ m.id # q => nextSeq'[q] = nextSeq[q]
  PROVE  Outstanding(q)'
<1> SUFFICES ASSUME q \in pending'
             PROVE  (CountedBelow(q) /\ Gapless(q) /\ AnswerOnWire(q))'
  BY DEF Outstanding
<1>0. PICK L : L = Len(wire')
  OBVIOUS
<1>1. /\ L \in Nat /\ Len(wire) = L + 1 /\ wire[1] = m /\ reader # Dead
      /\ \A i \in 1..L : wire'[i] = wire[i + 1]
  <2>1. wire \in Seq(Lines)
    BY DEF ConnTypeOK
  <2>2. /\ m = wire[1] /\ Len(wire) \in Nat /\ Len(wire) >= 1 /\ Len(wire') = Len(wire) - 1
        /\ \A i \in 1..Len(wire') : wire'[i] = wire[i + 1]
        /\ reader = Reading
    BY <2>1, LineRead
  <2> QED
    BY <1>0, <2>2, ReaderKinds
<1>2. CountedBelow(q) /\ Gapless(q) /\ AnswerOnWire(q)
  BY <1>1 DEF Outstanding
<1>3. m.id = q => m.kind = "progress"
  OBVIOUS
<1>4. \A i \in 1..(L + 1) : NoEndBefore(q, i)' => NoEndBefore(q, i + 1)
  <2> SUFFICES ASSUME NEW i \in 1..(L + 1), NoEndBefore(q, i)', NEW j \in 1..i, wire[j].id = q
               PROVE  wire[j].kind = "progress"
    <3>1. \A i \in 1..(L + 1) : (i + 1) - 1 = i
      BY <1>1
    <3> QED
      BY <3>1 DEF NoEndBefore
  <2>1. CASE j = 1
    BY <1>1, <1>3, <2>1
  <2>2. CASE j # 1
    <3>1. j - 1 \in 1..(i - 1) /\ j - 1 \in 1..L /\ (j - 1) + 1 = j
      BY <1>1, <2>2
    <3>2. wire'[j - 1] = wire[j]
      BY <1>1, <3>1
    <3> QED
      BY <3>1, <3>2 DEF NoEndBefore
  <2> QED
    BY <2>1, <2>2
<1>5. \A i \in 1..(L + 1) : EndsAt(q, i)' => EndsAt(q, i + 1)
  BY <1>0, <1>1, <1>4 DEF EndsAt
<1>6. CountedBelow(q)'
  <2> SUFFICES ASSUME NEW i \in 1..L, wire'[i].id = q, wire'[i].kind = "progress", NoEndBefore(q, i)'
               PROVE  wire'[i].seq < sent[q]
    BY <1>0 DEF CountedBelow
  <2>1. i + 1 \in 1..(L + 1) /\ wire'[i] = wire[i + 1] /\ NoEndBefore(q, i + 1)
    BY <1>1, <1>4
  <2> QED
    BY <1>1, <1>2, <2>1 DEF CountedBelow
<1>7. Gapless(q)'
  <2> SUFFICES ASSUME NEW i \in 1..(L + 1), EndsAt(q, i)' PROVE LastBefore(q, i)'
    BY <1>0 DEF Gapless
  <2>1. /\ (\A k \in 1..i : wire[k].id # q) => nextSeq[q] = sent[q]
        /\ \A p \in 1..i : wire[p].id = q /\ (\A k \in (p + 1)..i : wire[k].id # q)
                              => wire[p].seq + 1 = sent[q]
    <3>1. i + 1 \in 1..(Len(wire) + 1) /\ (i + 1) - 1 = i
      BY <1>1
    <3>2. LastBefore(q, i + 1)
      BY <1>2, <1>5, <3>1 DEF Gapless
    <3> QED
      BY <3>1, <3>2 DEF LastBefore
  <2>2. \A k \in 2..i : k - 1 \in 1..(i - 1) /\ wire[k] = wire'[k - 1]
    <3> TAKE k \in 2..i
    <3>1. k - 1 \in 1..L /\ (k - 1) + 1 = k /\ k - 1 \in 1..(i - 1)
      BY <1>1
    <3> QED
      BY <1>1, <3>1
  <2>3. ASSUME \A k \in 1..(i - 1) : wire'[k].id # q
        PROVE  nextSeq'[q] = sent[q]
    <3>1. \A k \in 2..i : wire[k].id # q
      BY <2>2, <2>3
    <3>2. CASE m.id = q
      BY <1>1, <2>1, <3>1, <3>2
    <3>3. CASE m.id # q
      BY <1>1, <2>1, <3>1, <3>3
    <3> QED
      BY <3>2, <3>3
  <2>4. ASSUME NEW p \in 1..(i - 1), wire'[p].id = q, \A k \in (p + 1)..(i - 1) : wire'[k].id # q
        PROVE  wire'[p].seq + 1 = sent[q]
    <3>1. p + 1 \in 1..i /\ wire[p + 1] = wire'[p]
      BY <1>1
    <3>2. \A k \in (p + 2)..i : wire[k].id # q
      BY <2>2, <2>4
    <3> QED
      BY <2>1, <2>4, <3>1, <3>2
  <2> QED
    BY <2>3, <2>4 DEF LastBefore
<1>8. AnswerOnWire(q)'
  <2>1. ASSUME q \in answered
        PROVE  \E i \in 1..L : wire'[i].id = q /\ wire'[i].kind = "terminal"
    <3>1. PICK t \in 1..(L + 1) : wire[t].id = q /\ wire[t].kind = "terminal"
      BY <1>1, <1>2, <2>1 DEF AnswerOnWire
    <3>2. t - 1 \in 1..L /\ (t - 1) + 1 = t
      BY <1>1, <1>3, <3>1
    <3>3. wire'[t - 1] = wire[t]
      BY <1>1, <3>2
    <3> QED
      BY <3>1, <3>2, <3>3
  <2>2. ASSUME q \notin answered, NEW i \in 1..L, wire'[i].id = q
        PROVE  wire'[i].kind = "progress"
    BY <1>1, <1>2, <2>2 DEF AnswerOnWire
  <2> QED
    BY <1>0, <2>1, <2>2 DEF AnswerOnWire
<1> QED
  BY <1>6, <1>7, <1>8

-----------------------------------------------------------------------------
(* The inductive invariant                                                 *)

Fresh(r) == receiver[r] = "none" =>
    /\ sent[r] = 0 /\ got[r] = 0 /\ frames[r] = <<>>
    /\ r \notin answered /\ r \notin pending /\ ~Holds(r)
    /\ \A i \in 1..Len(wire) : wire[i].id # r

OrderInv == \A r \in Requests : Fresh(r) /\ Channel(r) /\ Outstanding(r)

LEMMA OrderInit == ConnInit => OrderInv
<1> SUFFICES ASSUME ConnInit, NEW r \in Requests
             PROVE  Fresh(r) /\ Channel(r) /\ Outstanding(r)
  BY DEF OrderInv
<1>1. /\ receiver[r] = "none" /\ sent[r] = 0 /\ got[r] = 0 /\ frames[r] = <<>>
      /\ answered = {} /\ pending = {} /\ wire = <<>> /\ reader = Reading
  BY DEF ConnInit
<1>2. ~Holds(r) /\ Len(wire) = 0
  BY <1>1, HoldsNobody
<1> QED
  BY <1>1, <1>2 DEF Fresh, Channel, Live, Outstanding

LEMMA FreshStays ==
  ASSUME NEW q \in Requests, Fresh(q),
         receiver'[q] = "none" =>
            /\ receiver[q] = "none" /\ frames'[q] = frames[q]
            /\ sent'[q] = sent[q] /\ got'[q] = got[q]
            /\ q \in answered' => q \in answered
            /\ q \in pending' => q \in pending
            /\ Holds(q)' => Holds(q)
            /\ \A i \in 1..Len(wire') : wire'[i].id = q => \E j \in 1..Len(wire) : wire[j].id = q
  PROVE  Fresh(q)'
  BY DEF Fresh

\* A step of a caller, seen from a request it does not open.
LEMMA CallerKeeps ==
  ASSUME ConnTypeOK, OrderInv, UNCHANGED <<worker, reader>>, NEW q \in Requests,
         nextSeq'[q] = nextSeq[q], q \in pending' => q \in pending,
         Live(q)' => Live(q) /\ frames'[q] = frames[q] /\ got'[q] = got[q],
         receiver'[q] = "none" => receiver[q] = "none" /\ frames'[q] = frames[q] /\ got'[q] = got[q]
  PROVE  Fresh(q)' /\ Channel(q)' /\ Outstanding(q)'
<1>1. /\ Fresh(q) /\ Channel(q) /\ Outstanding(q)
      /\ wire' = wire /\ sent' = sent /\ answered' = answered /\ reader' = reader
      /\ sent[q] \in Nat /\ got[q] \in Nat /\ frames[q] \in Seq(Frames)
  BY DEF OrderInv, worker, ConnTypeOK
<1>2. Holds(q) => reader.frame \in Frames
  BY ReaderKinds DEF Holds, ConnTypeOK, Idle, Held
<1>3. Holds(q)' => Holds(q)
  BY <1>1 DEF Holds
<1>4. Fresh(q)'
  BY <1>1, <1>3, FreshStays
<1>5. Channel(q)'
  BY <1>1, <1>2, ChannelStays
<1>6. Outstanding(q)'
  BY <1>1, OutstandingStays
<1> QED
  BY <1>4, <1>5, <1>6

LEMMA CallerOrder ==
  ASSUME ConnTypeOK, OrderInv, NEW r \in Requests, AnyCaller(r) \/ WriteFails(r) \/ Unlist(r)
  PROVE  OrderInv'
<1>1. /\ receiver \in [Requests -> Receivers] /\ frames \in [Requests -> Seq(Frames)]
      /\ got \in [Requests -> Nat] /\ nextSeq \in [Requests -> Nat]
  BY DEF ConnTypeOK
<1>2. UNCHANGED <<worker, reader>>
  BY DEF AnyCaller, Register, Written, Takes, TakeProgress, TakeEnd, EndOfStream, TimesOut, Drop,
         WriteFails, Unlist
<1>3. ASSUME NEW q \in Requests, q # r
      PROVE  Fresh(q)' /\ Channel(q)' /\ Outstanding(q)'
  <2>1. nextSeq'[q] = nextSeq[q] /\ (q \in pending' => q \in pending)
    BY <1>1, <1>3 DEF AnyCaller, Register, Written, Takes, TakeProgress, TakeEnd, EndOfStream,
                      TimesOut, Drop, WriteFails, Unlist, table
  <2>2. /\ frames'[q] = frames[q] /\ got'[q] = got[q] /\ receiver'[q] = receiver[q]
    BY <1>1, <1>3 DEF AnyCaller, Register, Written, Takes, TakeProgress, TakeEnd, EndOfStream,
                      TimesOut, Drop, WriteFails, Unlist, client
  <2> QED
    BY <1>2, <2>1, <2>2, CallerKeeps DEF Live
<1>4. Fresh(r)' /\ Channel(r)' /\ Outstanding(r)'
  <2>1. CASE Register(r)
    <3>1. /\ receiver[r] = "none" /\ receiver'[r] = "starting" /\ nextSeq'[r] = 0
          /\ UNCHANGED <<wire, sent, answered, frames, got, reader>>
      BY <1>1, <2>1 DEF Register, worker
    <3>2. /\ sent[r] = 0 /\ got[r] = 0 /\ frames[r] = <<>> /\ r \notin answered /\ ~Holds(r)
          /\ \A i \in 1..Len(wire) : wire[i].id # r
      BY <3>1 DEF OrderInv, Fresh
    <3>3. Fresh(r)'
      BY <3>1 DEF Fresh
    <3>4. Len(frames'[r]) = 0 /\ ~Holds(r)'
      BY <3>1, <3>2 DEF Holds
    <3>5. Channel(r)'
      BY <3>1, <3>2, <3>4 DEF Channel, InOrder, EndsLast, Expected, HeldNext
    <3>6. Outstanding(r)'
      <4>1. Len(wire) \in Nat
        BY DEF ConnTypeOK
      <4>2. \A i \in 1..(Len(wire) + 1) : \A p \in 1..(i - 1) : wire[p].id # r
        BY <3>2, <4>1
      <4> QED
        BY <3>1, <3>2, <4>2 DEF Outstanding, CountedBelow, Gapless, LastBefore, AnswerOnWire
    <3> QED
      BY <3>3, <3>5, <3>6
  <2>2. CASE TakeProgress(r)
    <3>1. Channel(r)'
      BY <2>2, ChannelTake DEF OrderInv
    <3>2. /\ UNCHANGED <<worker, table, receiver, reader>> /\ receiver[r] = "open"
      BY <2>2 DEF TakeProgress
    <3>3. Fresh(r)' /\ Outstanding(r)'
      BY <3>2, OutstandingStays DEF Fresh, OrderInv, worker, table
    <3> QED
      BY <3>1, <3>3
  <2>3. CASE ~Register(r) /\ ~TakeProgress(r)
    <3>1. nextSeq'[r] = nextSeq[r] /\ (r \in pending' => r \in pending)
      BY <2>3 DEF AnyCaller, Written, Takes, TakeEnd, EndOfStream, TimesOut, Drop,
                  WriteFails, Unlist, table
    <3>2. CASE Written(r)
      <4>1. /\ receiver[r] = "starting" /\ receiver'[r] = "open" /\ UNCHANGED <<frames, got>>
        BY <1>1, <3>2 DEF Written
      <4> QED
        BY <1>2, <3>1, <4>1, CallerKeeps DEF Live
    <3>3. CASE Unlist(r)
      BY <1>2, <3>1, <3>3, CallerKeeps DEF Unlist, client, Live
    <3>4. CASE TakeEnd(r) \/ EndOfStream(r) \/ TimesOut(r) \/ Drop(r) \/ WriteFails(r)
      <4>1. receiver'[r] \in {"answered", "failed", "dropped", "refused"}
        BY <1>1, <3>4 DEF TakeEnd, EndOfStream, TimesOut, Drop, WriteFails
      <4>2. ~Live(r)' /\ receiver'[r] # "none"
        BY <4>1 DEF Live
      <4> QED
        BY <1>2, <3>1, <4>2, CallerKeeps
    <3> QED
      BY <2>3, <3>2, <3>3, <3>4 DEF AnyCaller, Takes
  <2> QED
    BY <2>1, <2>2, <2>3
<1> QED
  BY <1>3, <1>4 DEF OrderInv

\* What AnyWorker writes, and what it counts.
Counts(r, k, s) ==
    \/ /\ k = "progress" /\ s >= sent[r] /\ answered' = answered
       /\ sent' = IF r \in answered THEN sent ELSE [sent EXCEPT ![r] = s + 1]
    \/ k = "terminal" /\ answered' = answered \cup {r} /\ sent' = sent

LEMMA WorkerWrites ==
  ASSUME ConnTypeOK, NEW r \in Requests, AnyWorker(r)
  PROVE  /\ receiver[r] # "none"
         /\ \E k \in {"progress", "terminal"}, s \in Nat : \E body :
               /\ Write(r, k, s, body) /\ Counts(r, k, s)
               /\ UNCHANGED <<table, frames, client, reader>>
<1>0. receiver[r] # "none"
  <2>1. receiver[r] \notin {"none", "starting", "refused"}
    BY Zenon DEF AnyWorker
  <2> QED
    BY <2>1
<1>1. sent[r] \in Nat /\ sent[r] + 1 \in Nat /\ sent[r] + 2 = (sent[r] + 1) + 1
      /\ sent[r] >= sent[r] /\ sent[r] + 1 >= sent[r]
  <2>1. sent[r] \in Nat
    BY Zenon DEF ConnTypeOK
  <2> HIDE DEF AnyWorker
  <2> QED
    BY <2>1
<1>2. ASSUME NEW body, WriteProgress(r, body)
      PROVE  /\ Write(r, "progress", sent[r], body) /\ Counts(r, "progress", sent[r])
             /\ UNCHANGED <<table, frames, client, reader>>
  BY <1>1, <1>2 DEF WriteProgress, Count, Counts
<1>3. ASSUME NEW body, WriteSkips(r, body)
      PROVE  /\ Write(r, "progress", sent[r] + 1, body) /\ Counts(r, "progress", sent[r] + 1)
             /\ UNCHANGED <<table, frames, client, reader>>
  BY <1>1, <1>3 DEF WriteSkips, Count, Counts
<1>4. ASSUME NEW body, WriteAnswer(r, body)
      PROVE  /\ Write(r, "terminal", sent[r], body) /\ Counts(r, "terminal", sent[r])
             /\ UNCHANGED <<table, frames, client, reader>>
  BY <1>4 DEF WriteAnswer, Counts
<1>5. \E body : WriteProgress(r, body) \/ WriteSkips(r, body) \/ WriteAnswer(r, body)
  BY Zenon DEF AnyWorker
<1> QED
  BY <1>0, <1>1, <1>2, <1>3, <1>4, <1>5

LEMMA WorkerOrder ==
  ASSUME ConnTypeOK, OrderInv, NEW r \in Requests, AnyWorker(r)
  PROVE  OrderInv'
<1>0. PICK k \in {"progress", "terminal"}, s \in Nat :
        receiver[r] # "none" /\ Counts(r, k, s)
        /\ \E body : Write(r, k, s, body) /\ UNCHANGED <<table, frames, client, reader>>
  BY WorkerWrites
<1>1. PICK body : Write(r, k, s, body) /\ UNCHANGED <<table, frames, client, reader>>
  BY <1>0
<1>2. /\ UNCHANGED <<pending, nextSeq, frames, receiver, got, reader>>
      /\ sent \in [Requests -> Nat] /\ got \in [Requests -> Nat] /\ wire \in Seq(Lines)
      /\ frames \in [Requests -> Seq(Frames)]
  BY <1>1 DEF table, client, ConnTypeOK
<1> SUFFICES ASSUME NEW q \in Requests PROVE Fresh(q)' /\ Channel(q)' /\ Outstanding(q)'
  BY DEF OrderInv
<1>3. /\ sent[q] \in Nat /\ sent'[q] \in Nat /\ sent[q] <= sent'[q]
      /\ q \in answered => q \in answered' /\ sent'[q] = sent[q]
      /\ q # r \/ r \in answered => sent'[q] = sent[q] /\ (q \in answered' <=> q \in answered)
      /\ q = r /\ r \notin answered /\ k = "progress" =>
            s >= sent[q] /\ sent'[q] = s + 1 /\ q \notin answered'
      /\ q = r /\ r \notin answered /\ k = "terminal" => sent'[q] = sent[q] /\ q \in answered'
  <2>1. sent[q] \in Nat /\ sent[r] \in Nat
    BY <1>2
  <2>2. CASE k = "progress" /\ answered' = answered /\ s >= sent[r]
             /\ sent' = IF r \in answered THEN sent ELSE [sent EXCEPT ![r] = s + 1]
    <3>1. CASE r \in answered
      BY <2>1, <2>2, <3>1
    <3>2. CASE r \notin answered
      <4>1. sent'[q] = IF q = r THEN s + 1 ELSE sent[q]
        BY <1>2, <2>2, <3>2
      <4> QED
        BY <2>1, <2>2, <3>2, <4>1
    <3> QED
      BY <3>1, <3>2
  <2>3. CASE k = "terminal" /\ answered' = answered \cup {r} /\ sent' = sent
    BY <2>1, <2>3
  <2> QED
    BY <1>0, <2>2, <2>3 DEF Counts
<1>4. Fresh(q) /\ Channel(q) /\ Outstanding(q)
  BY DEF OrderInv
<1>5. Outstanding(q)'
  BY <1>1, <1>2, <1>3, <1>4, OutstandingWrite
<1>6. Holds(q) => reader.frame \in Frames
  BY ReaderKinds DEF Holds, ConnTypeOK, Idle, Held
<1>7. Channel(q)'
  BY <1>2, <1>3, <1>4, <1>6, ChannelStays DEF Live
<1>8. Fresh(q)'
  <2>1. CASE q = r
    BY <1>0, <1>2, <2>1 DEF Fresh
  <2>2. CASE q # r
    <3> DEFINE l == [id |-> r, kind |-> k, seq |-> s, body |-> body]
    <3>1. wire' = Append(wire, l) /\ l.id = r
      BY <1>1 DEF Write
    <3> HIDE DEF l
    <3>2. /\ Len(wire') = Len(wire) + 1 /\ Len(wire) \in Nat /\ wire'[Len(wire) + 1].id = r
          /\ \A i \in 1..Len(wire) : wire'[i] = wire[i]
      BY <1>2, <3>1
    <3>3. \A i \in 1..Len(wire') : wire'[i].id = q => \E j \in 1..Len(wire) : wire[j].id = q
      BY <2>2, <3>2
    <3>4. Holds(q)' => Holds(q)
      BY <1>2 DEF Holds
    <3> QED
      BY <1>2, <1>3, <1>4, <2>2, <3>3, <3>4, FreshStays
  <2> QED
    BY <2>1, <2>2
<1> QED
  BY <1>5, <1>7, <1>8

\* What the next line says of a request that the map holds.
LEMMA NextLine ==
  ASSUME ConnTypeOK, OrderInv, NEW m, ReadLine(m), m.id \in pending
  PROVE  /\ m.kind = "progress" => m.seq < sent[m.id]
         /\ m.kind = "terminal" => nextSeq[m.id] = sent[m.id] /\ m.id \in answered
<1> DEFINE q == m.id
<1>1. /\ q \in Requests /\ m = wire[1] /\ Len(wire) \in Nat /\ Len(wire) >= 1 /\ reader # Dead
  BY LineRead, ReaderKinds DEF ConnTypeOK
<1>2. CountedBelow(q) /\ Gapless(q) /\ AnswerOnWire(q)
  BY <1>1 DEF OrderInv, Outstanding
<1>3. 1 \in 1..Len(wire) /\ 1 \in 1..(Len(wire) + 1) /\ NoEndBefore(q, 1)
  BY <1>1 DEF NoEndBefore
<1>4. m.kind = "progress" => m.seq < sent[q]
  BY <1>1, <1>2, <1>3 DEF CountedBelow
<1>5. ASSUME m.kind = "terminal" PROVE nextSeq[q] = sent[q] /\ q \in answered
  <2>1. q \in answered
    BY <1>1, <1>2, <1>3, <1>5 DEF AnswerOnWire
  <2>2. LastBefore(q, 1)
    BY <1>1, <1>2, <1>3, <1>5 DEF EndsAt, Gapless
  <2> QED
    BY <2>1, <2>2 DEF LastBefore
<1> QED
  BY <1>4, <1>5

\* A request that the line just read does not concern.
LEMMA ReadKeeps ==
  ASSUME ConnTypeOK, OrderInv, NEW m, ReadLine(m), NEW q \in Requests,
         UNCHANGED <<sent, answered, client>>, frames'[q] = frames[q], nextSeq'[q] = nextSeq[q],
         q \in pending' => q \in pending /\ q # m.id,
         ~Holds(q)'
  PROVE  Fresh(q)' /\ Channel(q)' /\ Outstanding(q)'
<1>1. /\ Fresh(q) /\ Channel(q) /\ Outstanding(q) /\ receiver' = receiver /\ got' = got
      /\ sent[q] \in Nat /\ got[q] \in Nat /\ frames[q] \in Seq(Frames) /\ wire \in Seq(Lines)
  BY DEF OrderInv, client, ConnTypeOK
<1>2. /\ reader = Reading /\ reader # Dead /\ ~Holds(q)
      /\ Len(wire) \in Nat /\ Len(wire') = Len(wire) - 1
      /\ \A i \in 1..Len(wire') : wire'[i] = wire[i + 1]
  BY <1>1, LineRead, ReaderKinds, HoldsNobody
<1>3. Channel(q)'
  <2>1. sent[q] <= sent'[q] /\ sent'[q] \in Nat
    BY <1>1
  <2> QED
    BY <1>1, <1>2, <2>1, ChannelStays DEF Live
<1>4. Outstanding(q)'
  BY <1>1, OutstandingRead
<1>5. Fresh(q)'
  <2>1. \A i \in 1..Len(wire') : i + 1 \in 1..Len(wire)
    BY <1>2
  <2> QED
    BY <1>1, <1>2, <2>1, FreshStays
<1> QED
  BY <1>3, <1>4, <1>5

\* The reader hands a frame to the channel of the request it has just read.
LEMMA HandOver ==
  ASSUME ConnTypeOK, OrderInv, NEW m, ReadLine(m), m.id \in pending,
         NEW f \in Frames, NEW at \in {"grace", "blocked"}, PushOrWait(m.id, f, at),
         UNCHANGED <<sent, answered, client>>,
         \A q \in Requests : q # m.id => nextSeq'[q] = nextSeq[q], pending' \subseteq pending,
         f.kind = "progress" => f.seq = nextSeq[m.id] /\ f.seq < sent[m.id],
         f.kind = "terminal" => nextSeq[m.id] = sent[m.id] /\ m.id \in answered,
         at = "grace" => /\ f.kind = "progress" /\ m.kind = "progress" /\ m.seq = f.seq
                         /\ nextSeq'[m.id] = f.seq + 1,
         at = "blocked" => f.kind # "progress" /\ m.id \notin pending'
  PROVE  OrderInv'
<1>1. /\ m.id \in Requests /\ reader = Reading /\ reader # Dead /\ \A q : ~Holds(q)
      /\ receiver' = receiver /\ got' = got /\ frames \in [Requests -> Seq(Frames)]
  BY LineRead, ReaderKinds, FrameTypes, HoldsNobody DEF ConnTypeOK, client
<1>2. \A q \in Requests : Fresh(q) /\ Channel(q) /\ Outstanding(q)
  BY DEF OrderInv
<1>3. \A q \in Requests : q # m.id => ~Holds(q)'
  <2>1. CASE reader' = reader
    BY <1>1, <2>1 DEF Holds
  <2>2. CASE reader' = [at |-> at, id |-> m.id, frame |-> f]
    BY <2>2 DEF Holds
  <2> QED
    BY <2>1, <2>2 DEF PushOrWait
<1>4. \A q \in Requests : q # m.id => frames'[q] = frames[q]
  BY <1>1 DEF PushOrWait, Push
<1>5. \A q \in Requests : q # m.id => Fresh(q)' /\ Channel(q)' /\ Outstanding(q)'
  <2> SUFFICES ASSUME NEW q \in Requests, q # m.id PROVE Fresh(q)' /\ Channel(q)' /\ Outstanding(q)'
    OBVIOUS
  <2>1. q \in pending' => q \in pending /\ q # m.id
    OBVIOUS
  <2> QED
    BY <1>3, <1>4, <2>1, ReadKeeps
<1>6. receiver[m.id] # "none" /\ Fresh(m.id)'
  BY <1>1, <1>2 DEF Fresh
<1>7. Outstanding(m.id)'
  BY <1>1, <1>2, OutstandingRead
<1>8. Channel(m.id)'
  <2> SUFFICES ASSUME Live(m.id) PROVE Channel(m.id)'
    BY <1>1 DEF Channel, Live
  <2>1. ~Closed(m.id)
    BY DEF Live, Closed
  <2>2. FrameAt(m.id, f, Len(frames[m.id]) + 1)
    <3>1. nextSeq[m.id] = got[m.id] + Len(frames[m.id])
      BY <1>1, <1>2 DEF Channel, Expected
    <3>2. got[m.id] + (Len(frames[m.id]) + 1) - 1 = got[m.id] + Len(frames[m.id])
      <4>1. got[m.id] \in Nat /\ Len(frames[m.id]) \in Nat
        BY <1>1 DEF ConnTypeOK
      <4> QED
        BY <4>1
    <3> QED
      BY <3>1, <3>2 DEF FrameAt
  <2>3. CASE Push(m.id, f) /\ UNCHANGED reader
    <3>1. ~Holds(m.id)'
      BY <1>1, <2>3 DEF Holds
    <3>2. m.id \in pending' => m.id \in pending /\ f.kind = "progress" /\ nextSeq'[m.id] = f.seq + 1
      OBVIOUS
    <3> QED
      BY <1>1, <1>2, <2>2, <2>3, <3>1, <3>2, ChannelPush
  <2>4. CASE reader' = [at |-> at, id |-> m.id, frame |-> f] /\ UNCHANGED frames
    <3>1. /\ at = "grace" => f.kind = "progress" /\ nextSeq'[m.id] = f.seq + 1
          /\ at = "blocked" => f.kind # "progress" /\ m.id \notin pending'
      OBVIOUS
    <3> QED
      BY <1>1, <1>2, <2>2, <2>4, <3>1, ChannelWait
  <2> QED
    BY <2>1, <2>3, <2>4 DEF PushOrWait
<1> QED
  BY <1>5, <1>6, <1>7, <1>8 DEF OrderInv

LEMMA ReadOrder == ConnTypeOK /\ OrderInv /\ ReaderReads => OrderInv'
<1> SUFFICES ASSUME ConnTypeOK, OrderInv, NEW m,
                    Discard(m) \/ DeliverProgress(m) \/ RejectSequence(m) \/ DeliverAnswer(m)
             PROVE  OrderInv'
  BY DEF ReaderReads
<1>1. ReadLine(m) /\ UNCHANGED <<sent, answered, client>>
  BY DEF Discard, DeliverProgress, RejectSequence, DeliverAnswer
<1>2. /\ m \in Lines /\ m.id \in Requests /\ reader = Reading
      /\ FrameOf(m) \in Frames /\ FrameOf(m).kind = m.kind /\ FrameOf(m).seq = m.seq
      /\ Failure("protocol") \in Frames /\ Failure("protocol").kind = "error"
  <2>1. m \in Lines /\ reader = Reading
    BY <1>1, LineRead DEF ConnTypeOK
  <2>2. "protocol" \in Bodies
    BY DEF Bodies
  <2> QED
    BY <2>1, <2>2, FrameTypes
<1>3. CASE Discard(m)
  <2>1. UNCHANGED <<pending, nextSeq, frames, reader>> /\ m.id \notin pending
    BY <1>3 DEF Discard, table
  <2>2. \A q \in Requests : ~Holds(q)'
    BY <1>2, <2>1, HoldsNobody DEF Holds
  <2> QED
    BY <1>1, <2>1, <2>2, ReadKeeps DEF OrderInv
<1>4. CASE DeliverProgress(m)
  <2>1. /\ m.id \in pending /\ m.kind = "progress" /\ m.seq = nextSeq[m.id]
        /\ nextSeq' = [nextSeq EXCEPT ![m.id] = nextSeq[m.id] + 1] /\ nextSeq \in [Requests -> Nat]
        /\ pending' \subseteq pending /\ PushOrWait(m.id, FrameOf(m), "grace")
    BY <1>4 DEF DeliverProgress, ConnTypeOK
  <2>2. nextSeq'[m.id] = m.seq + 1 /\ \A q \in Requests : q # m.id => nextSeq'[q] = nextSeq[q]
    BY <1>2, <2>1
  <2>3. m.seq < sent[m.id]
    BY <1>1, <2>1, NextLine
  <2> QED
    BY <1>1, <1>2, <2>1, <2>2, <2>3, HandOver
<1>5. CASE RejectSequence(m)
  <2>1. /\ m.id \in pending /\ pending' = pending \ {m.id} /\ nextSeq' = nextSeq
        /\ PushOrWait(m.id, Failure("protocol"), "blocked")
    BY <1>5 DEF RejectSequence
  <2> QED
    BY <1>1, <1>2, <2>1, HandOver
<1>6. CASE DeliverAnswer(m)
  <2>1. /\ m.id \in pending /\ pending' = pending \ {m.id} /\ nextSeq' = nextSeq
        /\ m.kind = "terminal" /\ PushOrWait(m.id, FrameOf(m), "blocked")
    BY <1>6 DEF DeliverAnswer
  <2>2. nextSeq[m.id] = sent[m.id] /\ m.id \in answered
    BY <1>1, <2>1, NextLine
  <2> QED
    BY <1>1, <1>2, <2>1, <2>2, HandOver
<1> QED
  BY <1>3, <1>4, <1>5, <1>6

\* The map gives a request up: its channel may still get the reason.
LEMMA ChannelEnds ==
  ASSUME ConnTypeOK, NEW q \in Requests, Channel(q), UNCHANGED <<sent, answered, client>>,
         q \notin pending', ~Holds(q)',
         \/ frames'[q] = frames[q]
         \/ q \in pending /\ \E f \in Frames : f.kind = "error" /\ frames'[q] = Append(frames[q], f)
  PROVE  Channel(q)'
<1> SUFFICES ASSUME Live(q)' PROVE InOrder(q)' /\ EndsLast(q)'
  BY DEF Channel, Expected, HeldNext
<1>1. /\ InOrder(q) /\ EndsLast(q) /\ got' = got /\ sent' = sent /\ answered' = answered
      /\ frames[q] \in Seq(Frames)
  BY DEF Channel, Live, client, ConnTypeOK
<1>2. CASE frames'[q] = frames[q]
  BY <1>1, <1>2 DEF InOrder, EndsLast, FrameAt
<1>3. CASE q \in pending /\ \E f \in Frames : f.kind = "error" /\ frames'[q] = Append(frames[q], f)
  <2>1. PICK f \in Frames : f.kind = "error" /\ frames'[q] = Append(frames[q], f)
    BY <1>3
  <2>2. PICK n : n = Len(frames[q])
    OBVIOUS
  <2>3. /\ n \in Nat /\ Len(frames'[q]) = n + 1 /\ frames'[q][n + 1] = f
        /\ \A i \in 1..n : frames'[q][i] = frames[q][i]
    BY <1>1, <2>1, <2>2
  <2>4. \A i \in 1..n : frames[q][i].kind = "progress"
    BY <1>1, <1>3, <2>2 DEF EndsLast
  <2>5. InOrder(q)'
    <3> SUFFICES ASSUME NEW i \in 1..(n + 1) PROVE FrameAt(q, frames'[q][i], i)
      BY <1>1, <2>3 DEF InOrder, FrameAt
    <3>1. CASE i = n + 1
      BY <2>1, <2>3, <3>1 DEF FrameAt
    <3>2. CASE i \in 1..n
      BY <1>1, <2>2, <2>3, <3>2 DEF InOrder
    <3> QED
      BY <2>3, <3>1, <3>2
  <2>6. EndsLast(q)'
    <3>1. \A i \in 1..(Len(frames'[q]) - 1) : frames'[q][i].kind = "progress"
      BY <2>3, <2>4
    <3> QED
      BY <3>1 DEF EndsLast
  <2> QED
    BY <2>5, <2>6
<1> QED
  BY <1>2, <1>3

\* The reader was waiting for a channel, and reads on.
LEMMA ResumeOrder ==
  ASSUME ConnTypeOK, OrderInv, NEW r \in Requests, Unblock(r) \/ GraceElapses(r)
  PROVE  OrderInv'
<1>1. /\ Holds(r) /\ reader' = Reading /\ reader \in Held /\ reader.frame \in Frames
      /\ UNCHANGED <<worker, nextSeq, client>> /\ pending' \subseteq pending
      /\ frames \in [Requests -> Seq(Frames)]
  BY ReaderKinds DEF Unblock, GraceElapses, Holds, ConnTypeOK, Idle, Held
<1>2. /\ \A q \in Requests : ~Holds(q)' /\ Fresh(q) /\ Channel(q) /\ Outstanding(q)
      /\ \A q \in Requests : q # r => ~Holds(q)
      /\ reader # Dead /\ reader' # Dead
  BY <1>1, ReaderKinds, HoldsNobody DEF OrderInv, Holds
<1>3. /\ UNCHANGED <<wire, sent, answered, receiver, got>>
      /\ sent \in [Requests -> Nat] /\ got \in [Requests -> Nat]
  BY <1>1 DEF worker, client, ConnTypeOK
<1>4. "backpressure" \in Bodies
  BY DEF Bodies
<1>5. \A q \in Requests : Outstanding(q)'
  BY <1>1, <1>2, <1>3, OutstandingStays
<1>6. \A q \in Requests : q # r => frames'[q] = frames[q]
  BY <1>1 DEF Unblock, GraceElapses, TryPush, Push
<1>7. ASSUME NEW q \in Requests, q # r
      PROVE  Fresh(q)' /\ Channel(q)'
  <2>1. /\ sent[q] \in Nat /\ got[q] \in Nat /\ frames[q] \in Seq(Frames)
        /\ sent'[q] \in Nat /\ sent[q] <= sent'[q]
    BY <1>1, <1>3
  <2>2. Channel(q)'
    BY <1>1, <1>2, <1>3, <1>6, <1>7, <2>1, ChannelStays DEF Live
  <2>3. Fresh(q)'
    BY <1>1, <1>2, <1>3, <1>6, <1>7, FreshStays
  <2> QED
    BY <2>2, <2>3
<1>8. Fresh(r)'
  BY <1>1, <1>2, <1>3 DEF Fresh
<1>9. Channel(r)'
  <2>1. CASE Unblock(r)
    <3> SUFFICES ASSUME Live(r) PROVE Channel(r)'
      BY <1>3 DEF Channel, Live
    <3>1. Push(r, reader.frame) /\ pending' = pending
      BY <2>1 DEF Unblock, Live, Closed
    <3>2. HeldNext(r) /\ reader.at \in {"grace", "blocked"}
      BY <1>1, <1>2, ReaderKinds DEF Channel
    <3>3. /\ FrameAt(r, reader.frame, Len(frames[r]) + 1)
          /\ r \in pending' => r \in pending /\ reader.frame.kind = "progress"
                               /\ nextSeq'[r] = reader.frame.seq + 1
      BY <1>1, <3>1, <3>2 DEF HeldNext
    <3> QED
      BY <1>1, <1>2, <1>3, <3>1, <3>3, ChannelPush DEF client
  <2>2. CASE GraceElapses(r)
    <3>1. \/ frames'[r] = frames[r]
          \/ r \in pending /\ frames' = [frames EXCEPT ![r] = Append(frames[r], Failure("backpressure"))]
      BY <2>2 DEF GraceElapses, TryPush, Push
    <3>2. Failure("backpressure") \in Frames /\ Failure("backpressure").kind = "error"
      BY <1>4, FrameTypes
    <3>3. \/ frames'[r] = frames[r]
          \/ r \in pending /\ \E f \in Frames : f.kind = "error" /\ frames'[r] = Append(frames[r], f)
      BY <1>1, <3>1, <3>2
    <3>4. r \notin pending'
      BY <2>2 DEF GraceElapses
    <3> QED
      BY <1>1, <1>2, <1>3, <3>3, <3>4, ChannelEnds DEF client
  <2> QED
    BY <2>1, <2>2
<1> QED
  BY <1>5, <1>7, <1>8, <1>9 DEF OrderInv

\* The reader is gone: no line is read any more.
LEMMA DeadOrder == ConnTypeOK /\ OrderInv /\ (ReaderEnds \/ ReaderAborts) => OrderInv'
<1> SUFFICES ASSUME ConnTypeOK, OrderInv, ReaderEnds \/ ReaderAborts, NEW q \in Requests
             PROVE  Fresh(q)' /\ Channel(q)' /\ Outstanding(q)'
  BY DEF OrderInv
<1>1. /\ reader' = Dead /\ wire' = <<>> /\ UNCHANGED <<sent, answered, receiver, got>>
      /\ pending' \subseteq pending /\ Len(wire') = 0
  BY DEF ReaderEnds, ReaderAborts, client, table
<1>2. /\ Fresh(q) /\ Channel(q) /\ Outstanding(q) /\ ~Holds(q)'
  <2>1. ~Holds(q)'
    BY <1>1 DEF Holds, Dead
  <2> QED
    BY <2>1 DEF OrderInv
<1>3. Outstanding(q)'
  BY <1>1 DEF Outstanding
<1>4. CASE ReaderEnds
  <2>1. /\ pending' = {} /\ UNCHANGED client
        /\ frames'[q] = IF q \in pending /\ ~Closed(q) /\ Room(q)
                        THEN Append(frames[q], Failure("disconnected")) ELSE frames[q]
    BY <1>4 DEF ReaderEnds
  <2>2. Failure("disconnected") \in Frames /\ Failure("disconnected").kind = "error"
    <3>1. "disconnected" \in Bodies
      BY DEF Bodies
    <3> QED
      BY <3>1, FrameTypes
  <2>3. Channel(q)'
    BY <1>1, <1>2, <2>1, <2>2, ChannelEnds
  <2>4. Fresh(q)'
    BY <1>1, <1>2, <2>1 DEF Fresh
  <2> QED
    BY <1>3, <2>3, <2>4
<1>5. CASE ReaderAborts
  <2>1. UNCHANGED <<frames, nextSeq>>
    BY <1>5 DEF ReaderAborts, table
  <2>2. /\ sent[q] \in Nat /\ got[q] \in Nat /\ frames[q] \in Seq(Frames)
        /\ Holds(q) => reader.frame \in Frames
    BY ReaderKinds DEF Holds, ConnTypeOK, Idle, Held
  <2>3. sent'[q] \in Nat /\ sent[q] <= sent'[q]
    BY <1>1, <2>2
  <2>4. Channel(q)'
    BY <1>1, <1>2, <2>1, <2>2, <2>3, ChannelStays DEF Live
  <2>5. Fresh(q)'
    BY <1>1, <1>2, <2>1 DEF Fresh
  <2> QED
    BY <1>3, <2>4, <2>5
<1> QED
  BY <1>4, <1>5

LEMMA OrderStep == ConnTypeOK /\ OrderInv /\ [TransportNext]_conn => OrderInv'
<1> SUFFICES ASSUME ConnTypeOK, OrderInv, [TransportNext]_conn PROVE OrderInv'
  OBVIOUS
<1>1. ASSUME NEW r \in Requests, AnyCaller(r) \/ WriteFails(r) \/ Unlist(r) PROVE OrderInv'
  BY <1>1, CallerOrder
<1>2. ASSUME NEW r \in Requests, AnyWorker(r) PROVE OrderInv'
  BY <1>2, WorkerOrder
<1>3. CASE ReaderReads
  BY <1>3, ReadOrder
<1>4. ASSUME NEW r \in Requests, Unblock(r) \/ GraceElapses(r) PROVE OrderInv'
  BY <1>4, ResumeOrder
<1>5. CASE ReaderEnds \/ ReaderAborts
  BY <1>5, DeadOrder
<1>6. CASE UNCHANGED conn
  <2>1. /\ UNCHANGED <<wire, sent, answered, pending, nextSeq, frames, receiver, got, reader>>
        /\ UNCHANGED <<worker, reader>>
    BY <1>6 DEF conn, worker, table, client
  <2>2. ASSUME NEW q \in Requests PROVE Fresh(q)' /\ Channel(q)' /\ Outstanding(q)'
    <3>1. (Live(q)' => Live(q)) /\ (receiver'[q] = "none" => receiver[q] = "none")
      BY <2>1 DEF Live
    <3> QED
      BY <2>1, <3>1, CallerKeeps
  <2> QED
    BY <2>2 DEF OrderInv
<1> QED
  BY <1>1, <1>2, <1>3, <1>4, <1>5, <1>6 DEF TransportNext, ConnMoves, ReaderMoves

-----------------------------------------------------------------------------
(* Every request is a stream                                               *)

Shown(a) ==
    CASE a \in {"none", "starting"} -> "waiting"
      [] a \in {"open", "answered"} -> a
      [] OTHER -> "over"

Phases == [r \in Requests |-> Phase(r)]

LEMMA PhasesChange ==
  ASSUME receiver \in [Requests -> Receivers], NEW r \in Requests, NEW a \in Receivers,
         receiver' = [receiver EXCEPT ![r] = a]
  PROVE  /\ Phases[r] = Shown(receiver[r])
         /\ Phases' = [Phases EXCEPT ![r] = Shown(a)]
         /\ Shown(a) = Shown(receiver[r]) => Phases' = Phases
<1>1. \A q \in Requests : Phases[q] = Shown(receiver[q]) /\ Phases'[q] = Shown(receiver'[q])
  BY DEF Phases, Phase, Shown
<1>2. \A q \in Requests : receiver'[q] = IF q = r THEN a ELSE receiver[q]
  OBVIOUS
<1>3. Phases = [q \in Requests |-> Phases[q]] /\ Phases' = [q \in Requests |-> Phases'[q]]
  BY DEF Phases
<1> QED
  BY <1>1, <1>2, <1>3

LEMMA ShownAs ==
  /\ Shown("none") = "waiting" /\ Shown("starting") = "waiting"
  /\ Shown("open") = "open" /\ Shown("answered") = "answered"
  /\ Shown("failed") = "over" /\ Shown("refused") = "over" /\ Shown("dropped") = "over"
  BY DEF Shown

StreamVars == <<sent, got, Phases>>

\* A caller's step, or the write it failed in.
LEMMA CallerStreams ==
  ASSUME ConnTypeOK, OrderInv, NEW r \in Requests, AnyCaller(r) \/ WriteFails(r)
  PROVE  Stream!Next \/ UNCHANGED StreamVars
<1>1. /\ receiver \in [Requests -> Receivers] /\ Channel(r)
      /\ \A a \in {"starting", "open", "answered", "failed", "refused", "dropped"} : a \in Receivers
  BY DEF ConnTypeOK, OrderInv, Receivers
<1>2. sent' = sent
  BY DEF AnyCaller, Register, Written, Takes, TakeProgress, TakeEnd, EndOfStream, TimesOut, Drop,
         WriteFails, worker
<1>3. CASE Register(r)
  <2>1. /\ receiver' = [receiver EXCEPT ![r] = "starting"] /\ receiver[r] = "none" /\ got' = got
    BY <1>3 DEF Register
  <2> QED
    BY <1>1, <1>2, <2>1, PhasesChange, ShownAs DEF StreamVars
<1>4. CASE Written(r) \/ WriteFails(r)
  <2>1. /\ receiver[r] = "starting" /\ got' = got
        /\ \E a \in {"open", "refused"} : receiver' = [receiver EXCEPT ![r] = a]
    BY <1>4 DEF Written, WriteFails
  <2>2. PICK a \in {"open", "refused"} : receiver' = [receiver EXCEPT ![r] = a]
    BY <2>1
  <2>3. Phases[r] = "waiting" /\ Phases' = [Phases EXCEPT ![r] = Shown(a)]
    <3>1. Phases[r] = Shown(receiver[r]) /\ Phases' = [Phases EXCEPT ![r] = Shown(a)]
      BY <1>1, <2>2, PhasesChange
    <3> QED
      BY <2>1, <3>1, ShownAs
  <2>4. Shown(a) \in {"open", "over"}
    BY <2>2, ShownAs
  <2> QED
    BY <1>2, <2>1, <2>3, <2>4 DEF Stream!Next, Stream!Open, Phases
<1>5. CASE TakeProgress(r)
  <2>1. got[r] < sent[r] /\ got'[r] = got[r] + 1
    BY <1>1, <1>5, ChannelTake
  <2>2. /\ receiver[r] = "open" /\ receiver' = receiver
        /\ got' = [got EXCEPT ![r] = Head(frames[r]).seq + 1] /\ got \in [Requests -> Nat]
    BY <1>5 DEF TakeProgress, ConnTypeOK
  <2>3. got' = [got EXCEPT ![r] = got[r] + 1]
    BY <2>1, <2>2
  <2>4. Phases[r] = "open" /\ Phases' = Phases
    BY <2>2 DEF Phases, Phase
  <2> QED
    BY <1>2, <2>1, <2>3, <2>4 DEF Stream!Next, Stream!Take, Phases
<1>6. CASE TakeEnd(r)
  <2>1. /\ receiver[r] = "open" /\ frames[r] # <<>> /\ Head(frames[r]).kind # "progress" /\ got' = got
        /\ receiver' = [receiver EXCEPT ![r] =
              IF Head(frames[r]).kind = "terminal" THEN "answered" ELSE "failed"]
    BY <1>6 DEF TakeEnd
  <2>0. receiver[r] = "open" /\ "answered" \in Receivers /\ "failed" \in Receivers
    BY <1>1, <2>1
  <2>2. CASE Head(frames[r]).kind = "terminal"
    <3>1. receiver' = [receiver EXCEPT ![r] = "answered"]
      BY <2>1, <2>2
    <3>2. Phases[r] = "open" /\ Phases' = [Phases EXCEPT ![r] = "answered"]
      BY <1>1, <2>0, <3>1, PhasesChange, ShownAs
    <3>3. got[r] = sent[r]
      <4>1. /\ frames[r] \in Seq(Frames) /\ got[r] \in Nat
        BY DEF ConnTypeOK
      <4>2. Len(frames[r]) \in Nat /\ Len(frames[r]) >= 1 /\ Head(frames[r]) = frames[r][1]
        BY <2>1, <4>1
      <4>3. FrameAt(r, frames[r][1], 1)
        BY <1>1, <2>1, <4>2 DEF Channel, Live, InOrder
      <4>4. got[r] + 1 - 1 = sent[r]
        BY <2>2, <4>2, <4>3 DEF FrameAt
      <4> QED
        BY <4>1, <4>4
    <3> QED
      BY <1>2, <2>1, <3>2, <3>3 DEF Stream!Next, Stream!Answered, Phases
  <2>3. CASE Head(frames[r]).kind # "terminal"
    <3>1. receiver' = [receiver EXCEPT ![r] = "failed"]
      BY <2>1, <2>3
    <3>2. Phases[r] = "open" /\ Phases' = [Phases EXCEPT ![r] = "over"]
      BY <1>1, <2>0, <3>1, PhasesChange, ShownAs
    <3> QED
      BY <1>2, <2>1, <3>2 DEF Stream!Next, Stream!Over, Phases
  <2> QED
    BY <2>2, <2>3
<1>7. CASE EndOfStream(r) \/ TimesOut(r)
  <2>1. receiver[r] = "open" /\ got' = got /\ receiver' = [receiver EXCEPT ![r] = "failed"]
    BY <1>7 DEF EndOfStream, TimesOut
  <2>2. Phases[r] = "open" /\ Phases' = [Phases EXCEPT ![r] = "over"]
    BY <1>1, <2>1, PhasesChange, ShownAs
  <2> QED
    BY <1>2, <2>1, <2>2 DEF Stream!Next, Stream!Over, Phases
<1>8. CASE Drop(r)
  <2>1. /\ receiver[r] \in {"open", "answered", "failed"} /\ got' = got
        /\ receiver' = [receiver EXCEPT ![r] = "dropped"]
    BY <1>8 DEF Drop, Ended
  <2>2. /\ Phases[r] = Shown(receiver[r]) /\ Phases' = [Phases EXCEPT ![r] = "over"]
        /\ Shown(receiver[r]) = "over" => Phases' = Phases
    BY <1>1, <2>1, PhasesChange, ShownAs
  <2>3. Phases[r] \in {"open", "answered"} \/ Phases' = Phases
    BY <2>1, <2>2, ShownAs
  <2> QED
    BY <1>2, <2>1, <2>2, <2>3 DEF Stream!Next, Stream!Over, StreamVars, Phases
<1> QED
  BY <1>3, <1>4, <1>5, <1>6, <1>7, <1>8 DEF AnyCaller, Takes

\* The worker's write: a frame of progress more, or nothing the caller counts.
LEMMA WorkerStreams ==
  ASSUME ConnTypeOK, NEW r \in Requests, AnyWorker(r)
  PROVE  Stream!Next \/ UNCHANGED StreamVars
<1>1. \E body : WriteProgress(r, body) \/ WriteSkips(r, body) \/ WriteAnswer(r, body)
  BY Zenon DEF AnyWorker
<1>2. /\ UNCHANGED client
      /\ \/ sent' = sent
         \/ sent' = [sent EXCEPT ![r] = sent[r] + 1]
         \/ sent' = [sent EXCEPT ![r] = sent[r] + 2]
  <2> HIDE DEF AnyWorker
  <2> QED
    BY <1>1 DEF WriteProgress, WriteSkips, WriteAnswer, Count
<1>3. got' = got /\ Phases' = Phases
  BY <1>2 DEF client, Phases, Phase
<1>4. CASE sent' = sent
  BY <1>3, <1>4 DEF StreamVars
<1>5. CASE sent' # sent
  <2>1. \E n \in {1, 2} : sent' = [sent EXCEPT ![r] = sent[r] + n]
    BY <1>2, <1>5
  <2> QED
    BY <1>3, <2>1 DEF Stream!Next, Stream!Produce, Phases
<1> QED
  BY <1>4, <1>5

LEMMA StreamStep ==
  ConnTypeOK /\ OrderInv /\ [TransportNext]_conn => [Stream!Next]_(Stream!stream)
<1> SUFFICES ASSUME ConnTypeOK, OrderInv, [TransportNext]_conn
             PROVE  Stream!Next \/ UNCHANGED StreamVars
  BY DEF Stream!stream, StreamVars, Phases
<1>1. ASSUME NEW r \in Requests, AnyCaller(r) \/ WriteFails(r)
      PROVE  Stream!Next \/ UNCHANGED StreamVars
  BY <1>1, CallerStreams
<1>2. ASSUME NEW r \in Requests, AnyWorker(r)
      PROVE  Stream!Next \/ UNCHANGED StreamVars
  BY <1>2, WorkerStreams
<1>3. ASSUME UNCHANGED <<sent, client>> PROVE UNCHANGED StreamVars
  BY <1>3 DEF client, StreamVars, Phases, Phase
<1>4. CASE ReaderReads
  BY <1>3, <1>4 DEF ReaderReads, Discard, DeliverProgress, RejectSequence, DeliverAnswer
<1>5. ASSUME NEW r \in Requests, Unblock(r) \/ GraceElapses(r) \/ Unlist(r)
      PROVE  UNCHANGED StreamVars
  BY <1>3, <1>5 DEF Unblock, GraceElapses, Unlist, worker
<1>6. CASE ReaderEnds \/ ReaderAborts
  BY <1>3, <1>6 DEF ReaderEnds, ReaderAborts
<1>7. CASE UNCHANGED conn
  BY <1>3, <1>7 DEF conn, worker
<1> QED
  BY <1>1, <1>2, <1>4, <1>5, <1>6, <1>7 DEF TransportNext, ConnMoves, ReaderMoves

LEMMA StreamInit == ConnInit => Stream!Init
<1> SUFFICES ASSUME ConnInit PROVE Stream!Init
  OBVIOUS
<1>1. /\ sent = [r \in Requests |-> 0] /\ got = [r \in Requests |-> 0]
      /\ receiver = [r \in Requests |-> "none"]
  BY DEF ConnInit
<1>2. Phases = [r \in Requests |-> "waiting"]
  BY <1>1 DEF Phases, Phase
<1> QED
  BY <1>1, <1>2 DEF Stream!Init, Phases

\* Every variable of the connection keeps its type, no channel ever holds more
\* than PROGRESS_BUFFER frames, whichever of the reader's pushes fill it.
THEOREM TransportTypes == TransportSpec => []ConnTypeOK
<1>1. ConnInit => ConnTypeOK
  BY TransportTypeInit
<1>2. ConnTypeOK /\ [TransportNext]_conn => ConnTypeOK'
  BY TransportTypeStep
<1> QED
  BY <1>1, <1>2, PTL DEF TransportSpec

\* StreamsInOrder, for any number of requests, any size of the channels and of
\* the pipe: what the receiver of a request returns is a stream of its own,
\* progress in order and without a gap, and the answer after all of it.
THEOREM RequestsAreStreams == TransportSpec => StreamsInOrder
<1>1. ConnInit => OrderInv
  BY OrderInit
<1>2. ConnTypeOK /\ OrderInv /\ [TransportNext]_conn => OrderInv'
  BY OrderStep
<1>3. ConnInit => Stream!Init
  BY StreamInit
<1>4. ConnTypeOK /\ OrderInv /\ [TransportNext]_conn => [Stream!Next]_(Stream!stream)
  BY StreamStep
<1>5. TransportSpec => []ConnTypeOK
  BY TransportTypes
<1> QED
  BY <1>1, <1>2, <1>3, <1>4, <1>5, PTL DEF TransportSpec, StreamsInOrder, Stream!Spec
=============================================================================
