-------------------------- MODULE RequestReceipts --------------------------
(***************************************************************************)
(* The headless host of crates/code-host: HeadlessHost::invoke and the     *)
(* durable request receipts behind it.  Several worker processes may share *)
(* one trajectory root: a reconnect starts the new worker before it shuts  *)
(* the old one down, and a superseded worker serves its session to the     *)
(* end.  Each process has its own table of active requests, its own lock   *)
(* over the store and its own count of the bytes in it; the receipts and   *)
(* the trajectory file are shared.                                         *)
(*                                                                         *)
(* A call is one arrival of an invoke request.  A retry is another call    *)
(* with the same request id and content; a misuse is one with the same id  *)
(* and another content.  A receipt is one file: a Started line and, once   *)
(* the run is over, one terminal line.  Sizes are in units: a Started or a *)
(* ReplayUnavailable line is one, a Completed line is one of Sizes.        *)
(***************************************************************************)
EXTENDS Integers, FiniteSetsExt

CONSTANTS Procs,        \* worker processes on the trajectory root
          Calls,        \* arrivals of invoke requests
          Ids,          \* request ids
          Contents,     \* request contracts, compared by hash
          Sizes,        \* sizes of a Completed line
          Capacity,     \* bytes the store may hold
          MaxReceipt,   \* bytes one receipt may hold
          MaxCrashes,   \* bound: process deaths
          MaxFaults,    \* bound: failed writes
          None

ASSUME SizesAssumption == Sizes \subseteq Nat \ {0}
ASSUME LimitsAssumption == /\ Capacity \in Nat /\ MaxReceipt \in Nat
                           /\ MaxCrashes \in Nat /\ MaxFaults \in Nat
ASSUME NoneAssumption == None \notin Procs \cup Calls \cup Ids \cup Contents

VARIABLES call,      \* the handlers: one record per call
          receipt,   \* the receipt files
          active,    \* the requests each process takes as running
          usage,     \* the bytes each process believes are in the store
          torn,      \* the trajectory file has a line that does not parse
          scanned,   \* the processes that have read the trajectory's sequence
          ran,       \* history: the runs of an id that a retry must not repeat
          crashes, faults

vars == <<call, receipt, active, usage, torn, scanned, ran, crashes, faults>>

Unknown == -1
Steps == {"idle", "reserve", "inspect", "create", "deregister", "start", "running",
          "leave", "record", "complete", "done", "dead"}
Replies == {"none", "answered", "duplicate", "ambiguous", "conflict", "full",
            "receipt_failed", "trajectory_failed"}
Entries == {"none", "torn", "started", "spoiled", "completed", "unavailable"}

IdleCall == [at |-> "idle", proc |-> None, id |-> None, content |-> None,
             reply |-> "none", terminal |-> None]
NoReceipt == [entry |-> "none", content |-> None, terminal |-> None, size |-> 0, age |-> "recent"]

Exists(id) == receipt[id].entry # "none"
(* A terminal line parses: receipt_is_settled. *)
Settled(r) == r.entry \in {"completed", "unavailable"}
Bytes(store) == MapThenSumSet(LAMBDA id : store[id].size, Ids)
(* The store lock is held from the look at the path to the end of reserve. *)
Unlocked(p) == \A c \in Calls : call[c].proc = p => call[c].at \notin {"inspect", "create"}
Counted(p) == IF usage[p] = Unknown THEN Bytes(receipt) ELSE usage[p]

Init == /\ call = [c \in Calls |-> IdleCall]
        /\ receipt = [id \in Ids |-> NoReceipt]
        /\ active = [p \in Procs |-> {}]
        /\ usage = [p \in Procs |-> Unknown]
        /\ torn = FALSE
        /\ scanned = {}
        /\ ran = [id \in Ids |-> {}]
        /\ crashes = 0 /\ faults = 0

----------------------------------------------------------------------------
(* Steps of a handler. *)
Goto(c, step) == call' = [call EXCEPT ![c].at = step]
Answer(c, step, reply) == call' = [call EXCEPT ![c].at = step, ![c].reply = reply]
Fault == faults < MaxFaults /\ faults' = faults + 1

(* invoke registers the request, or refuses one whose id is active here. *)
Arrive(c, p, id, content) ==
  /\ call[c].at = "idle"
  /\ LET new == [IdleCall EXCEPT !.proc = p, !.id = id, !.content = content]
     IN IF id \in active[p]
        THEN /\ call' = [call EXCEPT ![c] = [new EXCEPT !.at = "done", !.reply = "duplicate"]]
             /\ UNCHANGED active
        ELSE /\ call' = [call EXCEPT ![c] = [new EXCEPT !.at = "reserve"]]
             /\ active' = [active EXCEPT ![p] = @ \cup {id}]
  /\ UNCHANGED <<receipt, usage, torn, scanned, ran, crashes, faults>>

(* Mutant of Evictable: the age is not looked at. *)
EvictableSettled(r) == Settled(r)
(* evict_settled_receipts: what is settled and older than the retention. *)
Evictable(r) == Settled(r) /\ r.age = "old"
AfterEviction == [id \in Ids |-> IF Evictable(receipt[id]) THEN NoReceipt ELSE receipt[id]]

(* reserve_blocking up to the open of the file: count, look, make room. *)
Reserve(c) ==
  LET p == call[c].proc
      fits == Counted(p) + 1 <= Capacity
      room == Bytes(AfterEviction) + 1 <= Capacity
  IN /\ call[c].at = "reserve"
     /\ Unlocked(p)
     /\ \/ /\ Exists(call[c].id)
           /\ Goto(c, "inspect")
           /\ usage' = [usage EXCEPT ![p] = Counted(p)]
           /\ UNCHANGED receipt
        \/ /\ ~Exists(call[c].id) /\ fits
           /\ Goto(c, "create")
           /\ usage' = [usage EXCEPT ![p] = Counted(p)]
           /\ UNCHANGED receipt
        \/ /\ ~Exists(call[c].id) /\ ~fits
           /\ receipt' = AfterEviction
           /\ usage' = [usage EXCEPT ![p] = Bytes(AfterEviction)]
           /\ IF room THEN Goto(c, "create") ELSE Answer(c, "deregister", "full")
     /\ UNCHANGED <<active, torn, scanned, ran, crashes, faults>>

(* Mutant of Verdict: the stored hash is not compared. *)
VerdictUnchecked(c, r) ==
  IF r.entry = "none" THEN "receipt_failed" ELSE IF r.entry = "completed" THEN "answered" ELSE "ambiguous"
(* existing_reservation: what a receipt that is already there says. *)
Verdict(c, r) ==
  IF r.entry = "none" THEN "receipt_failed"
  ELSE IF r.entry = "torn" THEN "ambiguous"
  ELSE IF r.content # call[c].content THEN "conflict"
  ELSE IF r.entry = "completed" THEN "answered"
  ELSE "ambiguous"
Inspect(c) ==
  LET r == receipt[call[c].id]
      verdict == Verdict(c, r)
  IN /\ call[c].at = "inspect"
     /\ call' = [call EXCEPT ![c].at = "deregister", ![c].reply = verdict,
                             ![c].terminal = IF verdict = "answered" THEN r.terminal ELSE None]
     /\ UNCHANGED <<receipt, active, usage, torn, scanned, ran, crashes, faults>>

StartedReceipt(c) == [NoReceipt EXCEPT !.entry = "started", !.content = call[c].content, !.size = 1]
(* A write that stops part-way leaves a line that does not parse, or all of it. *)
TornReceipt(s) == [NoReceipt EXCEPT !.entry = "torn", !.size = s]

(* The exclusive create, its write and its sync; another process may have won. *)
Create(c) ==
  LET p == call[c].proc  id == call[c].id
  IN /\ call[c].at = "create"
     /\ \/ /\ Exists(id)
           /\ Goto(c, "inspect")
           /\ UNCHANGED <<receipt, usage, faults>>
        \/ /\ ~Exists(id)
           /\ receipt' = [receipt EXCEPT ![id] = StartedReceipt(c)]
           /\ usage' = [usage EXCEPT ![p] = @ + 1]
           /\ Goto(c, "start")
           /\ UNCHANGED faults
        \/ /\ ~Exists(id)
           /\ Fault
           /\ \E left \in {StartedReceipt(c), TornReceipt(0), TornReceipt(1)} :
                receipt' = [receipt EXCEPT ![id] = left]
           /\ usage' = [usage EXCEPT ![p] = Unknown]
           /\ Answer(c, "deregister", "receipt_failed")
     /\ UNCHANGED <<active, torn, scanned, ran, crashes>>

(* Mutant of Deregister: the refusals forget it. *)
DeregisterAfterRun(c) ==
  /\ call[c].at \in {"deregister", "leave"}
  /\ active' = [active EXCEPT ![call[c].proc] = IF call[c].at = "leave" THEN @ \ {call[c].id} ELSE @]
  /\ Goto(c, IF call[c].at = "leave" THEN "record" ELSE "done")
  /\ UNCHANGED <<receipt, usage, torn, scanned, ran, crashes, faults>>
(* The removals from the active table on the refusals and after the plugin. *)
Deregister(c) ==
  /\ call[c].at \in {"deregister", "leave"}
  /\ active' = [active EXCEPT ![call[c].proc] = @ \ {call[c].id}]
  /\ Goto(c, IF call[c].at = "leave" THEN "record" ELSE "done")
  /\ UNCHANGED <<receipt, usage, torn, scanned, ran, crashes, faults>>

(* record: the first record of a process scans the whole file, and a line  *)
(* that does not parse fails it.                                           *)
Readable(p) == p \in scanned \/ ~torn
Recorded(p) == /\ Readable(p)
               /\ scanned' = scanned \cup {p}
               /\ UNCHANGED <<torn, faults>>
RecordFails(p) == \/ ~Readable(p) /\ UNCHANGED <<torn, scanned, faults>>
                  \/ /\ Readable(p) /\ Fault
                     /\ scanned' = scanned \cup {p}
                     /\ torn' \in {torn, TRUE}

(* The start record, and the plugin that runs as soon as it is written. *)
Start(c) ==
  LET p == call[c].proc
  IN /\ call[c].at = "start"
     /\ \/ /\ Recorded(p)
           /\ Goto(c, "running")
           /\ ran' = [ran EXCEPT ![call[c].id] = @ \cup {c}]
        \/ /\ RecordFails(p)
           /\ Answer(c, "deregister", "trajectory_failed")
           /\ UNCHANGED ran
     /\ UNCHANGED <<receipt, active, usage, crashes>>

(* The plugin returns: with a result, an error or its cancellation. *)
Finish(c) ==
  /\ call[c].at = "running"
  /\ Goto(c, "leave")
  /\ UNCHANGED <<receipt, active, usage, torn, scanned, ran, crashes, faults>>

(* The finish record. *)
Record(c) ==
  LET p == call[c].proc
  IN /\ call[c].at = "record"
     /\ \/ Recorded(p) /\ Goto(c, "complete")
        \/ RecordFails(p) /\ Answer(c, "done", "trajectory_failed")
     /\ UNCHANGED <<receipt, active, usage, ran, crashes>>

(* The terminal line of a call: its response, or why there is none. *)
TerminalLines ==
  {[entry |-> "completed", size |-> s] : s \in Sizes} \cup {[entry |-> "unavailable", size |-> 1]}
Appended(r, c, line) == [r EXCEPT !.entry = line.entry, !.terminal = c, !.size = @ + line.size, !.age = "recent"]
Fits(r, line, used) == r.size + line.size <= MaxReceipt /\ used + line.size <= Capacity
(* What complete_blocking appends for a line: it, the short one, or nothing. *)
Short == [entry |-> "unavailable", size |-> 1]
Chosen(r, line, used) == IF Fits(r, line, used) THEN line
                         ELSE IF Fits(r, Short, used) THEN Short
                         ELSE None

(* complete_blocking, and the answer that follows it. *)
Complete(c) ==
  LET p == call[c].proc  id == call[c].id  r == receipt[id]
      own == call' = [call EXCEPT ![c].at = "done", ![c].reply = "answered", ![c].terminal = c]
  IN /\ call[c].at = "complete"
     /\ Unlocked(p)
     /\ \/ /\ ~Exists(id)
           /\ Answer(c, "done", "receipt_failed")
           /\ usage' = [usage EXCEPT ![p] = Counted(p)]
           /\ UNCHANGED <<receipt, faults>>
        \/ \E line \in TerminalLines :
             LET w == Chosen(r, line, Counted(p))
             IN /\ Exists(id)
                /\ \/ /\ w = None
                      /\ own
                      /\ usage' = [usage EXCEPT ![p] = Counted(p)]
                      /\ UNCHANGED <<receipt, faults>>
                   \/ /\ w # None
                      /\ own
                      /\ receipt' = [receipt EXCEPT ![id] = Appended(r, c, w)]
                      /\ usage' = [usage EXCEPT ![p] = Counted(p) + w.size]
                      /\ UNCHANGED faults
                   \/ /\ w # None
                      /\ Fault
                      /\ Answer(c, "done", "receipt_failed")
                      /\ \E left \in {w, [w EXCEPT !.entry = "spoiled"]} :
                           receipt' = [receipt EXCEPT ![id] = Appended(r, c, left)]
                      /\ usage' = [usage EXCEPT ![p] = Unknown]
     /\ UNCHANGED <<active, torn, scanned, ran, crashes>>

----------------------------------------------------------------------------
(* The environment. *)

(* What the death of a process may leave of the write it was in. *)
Interrupted(c) ==
  CASE call[c].at = "create" /\ ~Exists(call[c].id) ->
         {[receipt EXCEPT ![call[c].id] = left] : left \in {StartedReceipt(c), TornReceipt(0), TornReceipt(1)}}
    [] /\ call[c].at = "complete" /\ Exists(call[c].id) /\ Unlocked(call[c].proc)
       /\ Fits(receipt[call[c].id], Short, Counted(call[c].proc)) ->
         {[receipt EXCEPT ![call[c].id] = Appended(@, c, [entry |-> "spoiled", size |-> 1])]}
    [] OTHER -> {receipt}

(* A worker ends or dies with its calls; the next one has empty tables. *)
Crash(p) ==
  LET mine == {c \in Calls : call[c].proc = p /\ call[c].at \notin {"done", "dead"}}
  IN /\ crashes < MaxCrashes
     /\ crashes' = crashes + 1
     /\ receipt' \in {receipt} \cup UNION {Interrupted(c) : c \in mine}
     /\ torn' \in {torn, torn \/ \E c \in mine : call[c].at \in {"start", "record"}}
     /\ call' = [c \in Calls |-> IF c \in mine THEN [call[c] EXCEPT !.at = "dead"] ELSE call[c]]
     /\ active' = [active EXCEPT ![p] = {}]
     /\ usage' = [usage EXCEPT ![p] = Unknown]
     /\ scanned' = scanned \ {p}
     /\ UNCHANGED <<ran, faults>>

(* An hour passes without a write to the receipt: no retry of a settled    *)
(* request is expected any more.                                           *)
Age(id) ==
  /\ Exists(id) /\ receipt[id].age = "recent"
  /\ receipt' = [receipt EXCEPT ![id].age = "old"]
  /\ ran' = IF Settled(receipt[id]) THEN [ran EXCEPT ![id] = {}] ELSE ran
  /\ UNCHANGED <<call, active, usage, torn, scanned, crashes, faults>>

Handler(c) == \/ \E p \in Procs, id \in Ids, content \in Contents : Arrive(c, p, id, content)
              \/ Reserve(c) \/ Inspect(c) \/ Create(c) \/ Deregister(c)
              \/ Start(c) \/ Finish(c) \/ Record(c) \/ Complete(c)

Next == \/ \E c \in Calls : Handler(c)
        \/ \E p \in Procs : Crash(p)
        \/ \E id \in Ids : Age(id)

Spec == Init /\ [][Next]_vars

----------------------------------------------------------------------------
(* Types: a call under way has its process, id and content, a receipt that *)
(* parses has its content, and a settled one the call that wrote its end.   *)
CallRecord == [at : Steps, proc : Procs \cup {None}, id : Ids \cup {None},
               content : Contents \cup {None}, reply : Replies, terminal : Calls \cup {None}]
ReceiptRecord == [entry : Entries, content : Contents \cup {None}, terminal : Calls \cup {None},
                  size : Nat, age : {"recent", "old"}]
CallsOK ==
  /\ call \in [Calls -> CallRecord]
  /\ \A c \in Calls :
       IF call[c].at = "idle" THEN call[c] = IdleCall
       ELSE call[c].proc \in Procs /\ call[c].id \in Ids /\ call[c].content \in Contents
ReceiptsOK ==
  /\ receipt \in [Ids -> ReceiptRecord]
  /\ \A id \in Ids : /\ receipt[id].entry \notin {"none", "torn"} => receipt[id].content \in Contents
                     /\ Settled(receipt[id]) => receipt[id].terminal \in Calls
TablesOK ==
  /\ active \in [Procs -> SUBSET Ids]
  /\ usage \in [Procs -> Nat \cup {Unknown}]
  /\ torn \in BOOLEAN /\ scanned \in SUBSET Procs
  /\ ran \in [Ids -> SUBSET Calls]
  /\ crashes \in Nat /\ faults \in Nat
TypeOK == CallsOK /\ ReceiptsOK /\ TablesOK

(* No request id is executed twice while a retry of it may still come:     *)
(* across processes, deaths, failed writes, a full store and its eviction. *)
AtMostOnce == \A id \in Ids : \A c, d \in ran[id] : c = d

(* An answer is the terminal response of a run of the same id with the     *)
(* same content, and that run is over: a replay never answers for other    *)
(* work, nor for work that is still going on.                              *)
ReplayFaithful ==
  \A c \in Calls : call[c].reply = "answered" =>
    LET d == call[c].terminal
    IN /\ d \in Calls
       /\ call[d].id = call[c].id /\ call[d].content = call[c].content
       /\ call[d].at \in {"done", "dead"}

(* The active table names exactly the calls that are not over yet, so no   *)
(* path through invoke leaves an id that is refused as a duplicate for     *)
(* ever, nor lets two calls of one process pass as one.                    *)
Pending(c) == call[c].at \notin {"idle", "record", "complete", "done", "dead"}
ActiveOwned ==
  \A p \in Procs, id \in Ids :
    id \in active[p] <=> \E c \in Calls : Pending(c) /\ call[c].proc = p /\ call[c].id = id
============================================================================
