---------------------------- MODULE LocalRun_proofs ----------------------------
(***************************************************************************)
(* Proofs about the runs of a session, for every set of runs and calls,    *)
(* every assignment of calls to runs and every bound on work: the          *)
(* permission gate, the ledger, and the transcript the runs share.         *)
(*                                                                         *)
(* What a transcript tells is a fold over its entries: what is proved of   *)
(* it is proved by induction on the sequence, with "holds of" given as a   *)
(* set and not as a predicate.  Where the messages are is then a matter    *)
(* of values (Books), which each step changes in one of five ways.         *)
(***************************************************************************)
EXTENDS LocalRun, SequenceTheorems, FiniteSetTheorems, WellFoundedInduction, TLAPS

Asking == {"ready", "asking", "arming", "waiting", "allowed"}

\* A prompt that is being accepted has no task yet.
CommandOK ==
    command.at \in {"supersede", "spawn"} =>
        command.run \in Runs /\ phase[command.run] = "none"

\* A call is at work only in the batch of its run.
InBatch == \A c \in Calls : call[c] \in Asking => phase[Owner[c]] = "batch"

\* What the user has said of a call, and what its channel has delivered.
Unasked ==
    \A c \in Calls : call[c] \in {"none", "ready", "asking", "arming"} =>
                        said[c] = "unasked" /\ reply[c] = "none"
Open  == \A c \in Calls : said[c] = "open" => call[c] \in {"waiting", "aborted", "fatal"}
Heard == \A c \in Calls : reply[c] # "none" => said[c] = reply[c]

\* The armed request waits for an answer nobody has given.
Shown == slot # None => call[slot] = "waiting" /\ said[slot] = "open" /\ reply[slot] = "none"

\* The policy allows the tool because the user has said so.
Always == policy = "allow" => \E d \in Calls : said[d] = "allow_always"

GateInv == GateTypeOK /\ CommandOK /\ InBatch /\ Unasked /\ Open /\ Heard /\ Shown /\ Always
             /\ AllowedByUser

-----------------------------------------------------------------------------
(* Steps that leave the gate alone                                         *)

Untouched == UNCHANGED <<slot, policy, call, reply, said>>

\* The commands and the run's own steps move a task, or nothing of the gate.
LEMMA Quiet ==
    ASSUME GateInv, Untouched, phase' \in [Tasks -> Labels], CommandOK', InBatch'
    PROVE  GateInv'
<1>1. GateTypeOK'
  BY DEF GateInv, GateTypeOK, Untouched
<1>2. Unasked' /\ Open' /\ Heard' /\ Shown' /\ Always' /\ AllowedByUser'
  BY DEF GateInv, Untouched, Unasked, Open, Heard, Shown, Always, AllowedByUser
<1> QED
  BY <1>1, <1>2 DEF GateInv

\* A task that moves to a label which is no batch, from one that is neither
\* a batch nor the start.
LEMMA Moves ==
    ASSUME GateInv, Untouched, UNCHANGED command, NEW t \in Tasks, NEW label \in Labels,
           Goto(t, label), phase[t] \notin {"none", "batch"}
    PROVE  GateInv'
<1>1. phase' \in [Tasks -> Labels]
  BY DEF GateInv, GateTypeOK, Goto
<1>2. CommandOK'
  BY DEF GateInv, GateTypeOK, CommandOK, Goto, Tasks
<1>3. InBatch'
  BY LocalRunAssumption DEF GateInv, GateTypeOK, InBatch, Goto, Tasks, Untouched
<1> QED
  BY <1>1, <1>2, <1>3, Quiet

\* A step that moves no task.
LEMMA Stays ==
    ASSUME GateInv, Untouched, UNCHANGED phase,
           \/ UNCHANGED command
           \/ command'.at \notin {"supersede", "spawn"}
    PROVE  GateInv'
<1>1. phase' \in [Tasks -> Labels] /\ CommandOK' /\ InBatch'
  BY DEF GateInv, GateTypeOK, CommandOK, InBatch, Untouched
<1> QED
  BY <1>1, Quiet

LEMMA InitGate == Init => GateInv
<1> SUFFICES ASSUME Init PROVE GateInv
  OBVIOUS
<1>1. GateTypeOK
  BY DEF Init, GateTypeOK, Labels, CallLabels, None
<1>2. CommandOK /\ InBatch
  BY DEF Init, CommandOK, InBatch, Asking
<1>3. Unasked /\ Open /\ Heard /\ Shown /\ Always /\ AllowedByUser
  BY DEF Init, Unasked, Open, Heard, Shown, Always, AllowedByUser, None, Answers
<1> QED
  BY <1>1, <1>2, <1>3 DEF GateInv

-----------------------------------------------------------------------------
(* The commands and the tasks                                              *)

LEMMA CommandsKeepGate ==
    ASSUME GateInv, User \/ CommandStep
    PROVE  GateInv'
<1>1. ASSUME NEW r \in Runs, Prompt(r) PROVE GateInv'
  <2>1. CommandOK'
    BY <1>1 DEF Prompt, At, Command, CommandOK
  <2>2. phase' \in [Tasks -> Labels] /\ InBatch' /\ Untouched
    BY <1>1 DEF Prompt, GateInv, GateTypeOK, InBatch, Untouched, session, gate
  <2> QED
    BY <2>1, <2>2, Quiet
<1>2. CASE Supersede \/ Clear
  <2>1. slot' = None /\ UNCHANGED <<phase, policy, call, reply, said>>
    BY <1>2 DEF Supersede, Clear, gate
  <2>2. CommandOK'
    <3>1. CASE Supersede
      BY <3>1, <2>1 DEF Supersede, Command, GateInv, CommandOK
    <3>2. CASE Clear
      BY <3>2, <2>1 DEF Clear, Command, CommandOK
    <3> QED
      BY <1>2, <3>1, <3>2
  <2>3. GateTypeOK' /\ InBatch'
    BY <2>1 DEF GateInv, GateTypeOK, InBatch
  <2>4. Unasked' /\ Open' /\ Heard' /\ Shown' /\ Always' /\ AllowedByUser'
    BY <2>1 DEF GateInv, Unasked, Open, Heard, Shown, Always, AllowedByUser
  <2> QED
    BY <2>2, <2>3, <2>4 DEF GateInv
<1>3. CASE Spawn
  <2>1. command.run \in Runs /\ phase[command.run] = "none"
    BY <1>3 DEF Spawn, GateInv, CommandOK
  <2>2. phase' = [phase EXCEPT ![command.run] = "opening"] /\ command' = [at |-> "idle", run |-> None]
    BY <1>3 DEF Spawn, Goto, Command
  <2>3. Untouched
    BY <1>3 DEF Spawn, Untouched, session, gate
  <2>4. phase' \in [Tasks -> Labels] /\ CommandOK'
    BY <2>2 DEF GateInv, GateTypeOK, CommandOK, Labels
  <2>5. InBatch'
    BY <2>1, <2>2, <2>3, LocalRunAssumption DEF GateInv, GateTypeOK, InBatch, Untouched, Tasks
  <2> QED
    BY <2>3, <2>4, <2>5, Quiet
<1>4. ASSUME NEW t \in Tasks, Cancel(t) PROVE GateInv'
  BY <1>4, Stays DEF Cancel, Command, Untouched, session, gate
<1>5. CASE Close \/ ImplementFresh
  BY <1>5, Stays DEF Close, ImplementFresh, Command, Untouched, session, gate
<1>6. CASE Steer \/ Push
  BY <1>6, Stays DEF Steer, Push, Command, Untouched, session, gate
<1>7. CASE Compact
  <2>1. phase' = [phase EXCEPT ![Compaction] = "reading"] /\ UNCHANGED command /\ Untouched
    BY <1>7 DEF Compact, Goto, Untouched, session, gate
  <2>2. \A r \in Runs : phase'[r] = phase[r]
    BY <2>1, LocalRunAssumption DEF GateInv, GateTypeOK, Tasks, Compaction
  <2>3. phase' \in [Tasks -> Labels] /\ CommandOK' /\ InBatch'
    BY <2>1, <2>2, LocalRunAssumption DEF GateInv, GateTypeOK, Labels, CommandOK, InBatch, Untouched
  <2> QED
    BY <2>1, <2>3, Quiet
<1>8. ASSUME NEW c \in Calls, NEW answer \in Options, Respond(c, answer) PROVE GateInv'
  <2>1. /\ said[c] = "open" /\ said' = [said EXCEPT ![c] = answer]
        /\ UNCHANGED <<command, phase, policy, call>>
    BY <1>8 DEF Respond
  <2>2. \/ slot = c /\ reply' = [reply EXCEPT ![c] = answer] /\ slot' = None
        \/ slot # c /\ UNCHANGED <<reply, slot>>
    BY <1>8 DEF Respond, Resolves
  <2>3. answer \in Answers /\ answer \notin {"unasked", "open", "none"}
    BY LocalRunAssumption DEF Answers
  <2>4. call[c] \in {"waiting", "aborted", "fatal"} /\ reply[c] = "none"
    BY <2>1 DEF GateInv, GateTypeOK, Open, Heard, Answers
  <2>5. GateTypeOK'
    BY <2>1, <2>2, <2>3 DEF GateInv, GateTypeOK
  <2>6. CommandOK' /\ InBatch'
    BY <2>1 DEF GateInv, CommandOK, InBatch
  <2>7. Unasked'
    BY <2>1, <2>2, <2>4 DEF GateInv, GateTypeOK, Unasked
  <2>8. Open'
    BY <2>1, <2>3 DEF GateInv, GateTypeOK, Open
  <2>9. Heard'
    BY <2>1, <2>2, <2>3, <2>4 DEF GateInv, GateTypeOK, Heard
  <2>10. Shown'
    BY <2>1, <2>2 DEF GateInv, GateTypeOK, Shown
  <2>11. Always'
    BY <2>1 DEF GateInv, GateTypeOK, Always
  <2>12. AllowedByUser'
    BY <2>1, <2>4 DEF GateInv, GateTypeOK, AllowedByUser, Answers
  <2> QED
    BY <2>5, <2>6, <2>7, <2>8, <2>9, <2>10, <2>11, <2>12 DEF GateInv
<1> QED
  BY <1>1, <1>2, <1>3, <1>4, <1>5, <1>6, <1>7, <1>8 DEF User, CommandStep

LEMMA TasksKeepGate ==
    ASSUME GateInv, CompactionStep \/ \E r \in Runs : RunStep(r)
    PROVE  GateInv'
<1>1. CASE CompactionReads
  <2>1. Goto(Compaction, "asking") /\ phase[Compaction] = "reading" /\ Untouched /\ UNCHANGED command
    BY <1>1 DEF CompactionReads, At, Untouched, session, gate
  <2> QED
    BY <2>1, Moves DEF Labels, Tasks
<1>2. CASE CompactionEnds
  <2>1. Goto(Compaction, "over") /\ phase[Compaction] = "asking" /\ Untouched /\ UNCHANGED command
    BY <1>2 DEF CompactionEnds, At, Untouched, gate
  <2> QED
    BY <2>1, Moves DEF Labels, Tasks
<1>3. ASSUME NEW r \in Runs, Opens(r) PROVE GateInv'
  <2>1. /\ Goto(r, "finishing") \/ Goto(r, "driving")
        /\ phase[r] = "opening" /\ Untouched /\ UNCHANGED command
    BY <1>3 DEF Opens, At, Untouched, session, gate
  <2> QED
    BY <2>1, Moves DEF Labels, Tasks
<1>4. ASSUME NEW r \in Runs, Attempt(r) PROVE GateInv'
  <2>1. Goto(r, "call") /\ phase[r] \in {"driving", "attempt"} /\ Untouched /\ UNCHANGED command
    BY <1>4 DEF Attempt, Untouched, gate
  <2> QED
    BY <2>1, Moves DEF Labels, Tasks
<1>5. ASSUME NEW r \in Runs, NEW o \in BOOLEAN, Transform(r, o) PROVE GateInv'
  BY <1>5, Stays DEF Transform, Untouched, session, gate
<1>6. ASSUME NEW r \in Runs, Inject(r) PROVE GateInv'
  BY <1>6, Stays DEF Inject, Untouched, session, gate
<1>7. ASSUME NEW r \in Runs, Answered(r) \/ StreamFails(r) PROVE GateInv'
  <2>1. /\ Goto(r, "attempt") \/ Goto(r, "recovering") \/ Goto(r, "ended")
        /\ phase[r] = "call" /\ Untouched /\ UNCHANGED command
    BY <1>7 DEF Answered, StreamFails, Ends, At, Untouched, session, gate
  <2> QED
    BY <2>1, Moves DEF Labels, Tasks
<1>8. ASSUME NEW r \in Runs, Recovers(r) \/ Leaves(r) \/ Finishes(r) PROVE GateInv'
  <2>1. /\ Goto(r, "attempt") \/ Goto(r, "finishing") \/ Goto(r, "over")
        /\ phase[r] \in {"recovering", "ended", "finishing"} /\ Untouched /\ UNCHANGED command
    BY <1>8 DEF Recovers, Leaves, Finishes, At, Untouched, session, gate
  <2> QED
    BY <2>1, Moves DEF Labels, Tasks
<1>9. ASSUME NEW r \in Runs, BatchEnds(r) PROVE GateInv'
  <2>1. /\ Goto(r, "call") \/ Goto(r, "ended")
        /\ \A c \in Calls : Owner[c] = r => call[c] \notin Asking
        /\ Untouched /\ UNCHANGED command /\ phase[r] = "batch"
    BY <1>9 DEF BatchEnds, Ends, CallsOf, Asking, At, Untouched, session, gate
  <2>2. phase' \in [Tasks -> Labels]
    BY <2>1 DEF GateInv, GateTypeOK, Goto, Labels
  <2>3. CommandOK'
    BY <2>1 DEF GateInv, GateTypeOK, CommandOK, Goto, Tasks
  <2>4. InBatch'
    BY <2>1, LocalRunAssumption DEF GateInv, GateTypeOK, InBatch, Goto, Untouched, Tasks
  <2> QED
    BY <2>1, <2>2, <2>3, <2>4, Quiet
<1>10. ASSUME NEW r \in Runs, CallsTools(r) PROVE GateInv'
  <2>1. /\ phase[r] = "call" /\ phase' = [phase EXCEPT ![r] = "batch"]
        /\ \A c \in Calls : Owner[c] = r => call[c] = "none"
        /\ call' = [c \in Calls |-> IF c \in CallsOf(r) THEN "ready" ELSE call[c]]
        /\ UNCHANGED <<command, slot, policy, reply, said>>
    BY <1>10 DEF CallsTools, CallsOf, At, Goto, session
  <2>2. \A c \in Calls : call'[c] = IF Owner[c] = r THEN "ready" ELSE call[c]
    BY <2>1 DEF CallsOf
  <2>3. GateTypeOK'
    BY <2>1 DEF GateInv, GateTypeOK, Labels, CallLabels
  <2>4. CommandOK'
    BY <2>1 DEF GateInv, GateTypeOK, CommandOK, Tasks
  <2>5. InBatch'
    BY <2>1, <2>2, LocalRunAssumption DEF GateInv, GateTypeOK, InBatch, Tasks, Asking
  <2>6. Unasked' /\ Open' /\ Heard' /\ Always'
    BY <2>1, <2>2 DEF GateInv, GateTypeOK, Unasked, Open, Heard, Always
  <2>7. Shown'
    BY <2>1, <2>2 DEF GateInv, GateTypeOK, Shown, None
  <2>8. AllowedByUser'
    BY <2>1, <2>2 DEF GateInv, GateTypeOK, AllowedByUser
  <2> QED
    BY <2>3, <2>4, <2>5, <2>6, <2>7, <2>8 DEF GateInv
<1> QED
  BY <1>1, <1>2, <1>3, <1>4, <1>5, <1>6, <1>7, <1>8, <1>9, <1>10 DEF CompactionStep, RunStep

-----------------------------------------------------------------------------
(* The gate                                                                *)

\* A call that goes on, or leaves the gate, with what the user has said of it
\* and the armed request as they were.
LEMMA GoesOn ==
    ASSUME GateInv, NEW c \in Calls, NEW label \in CallLabels,
           call[c] \in Asking, CallGoes(c, label),
           UNCHANGED <<command, phase, slot, policy, reply, said>>,
           slot # c,
           label # "none",
           label \in {"ready", "asking", "arming"} => call[c] \in {"ready", "asking"},
           said[c] = "open" => label \in {"waiting", "aborted", "fatal"},
           label \in {"allowed", "ran"} =>
               IF said[c] \in Answers THEN said[c] \in Allowing
               ELSE \E d \in Calls : said[d] = "allow_always"
    PROVE  GateInv'
<1>1. call' = [call EXCEPT ![c] = label]
  BY DEF CallGoes
<1>2. GateTypeOK' /\ CommandOK'
  BY <1>1 DEF GateInv, GateTypeOK, CommandOK
<1>3. InBatch'
  BY <1>1 DEF GateInv, GateTypeOK, InBatch
<1>4. Unasked' /\ Open'
  BY <1>1 DEF GateInv, GateTypeOK, Unasked, Open
<1>5. Heard' /\ Shown' /\ Always'
  BY <1>1 DEF GateInv, GateTypeOK, Heard, Shown, Always
<1>6. AllowedByUser'
  BY <1>1 DEF GateInv, GateTypeOK, AllowedByUser
<1> QED
  BY <1>2, <1>3, <1>4, <1>5, <1>6 DEF GateInv

LEMMA GateKeepsGate ==
    ASSUME GateInv, NEW c \in Calls, CallStep(c)
    PROVE  GateInv'
<1> USE DEF GateOnly
<1>1. slot = c => call[c] = "waiting" /\ said[c] = "open" /\ reply[c] = "none" /\ c # None
  BY LocalRunAssumption DEF GateInv, Shown, None
<1>2. call[c] \in {"ready", "asking"} => slot # c /\ said[c] = "unasked"
  BY <1>1 DEF GateInv, Unasked
<1>3. CASE Starts(c)
  <2>1. /\ call[c] = "ready" /\ UNCHANGED <<command, phase, slot, policy, reply, said>>
        /\ \/ CallGoes(c, "asking") \/ CallGoes(c, "denied")
           \/ policy = "allow" /\ CallGoes(c, "allowed")
    BY <1>3 DEF Starts
  <2> QED
    BY <2>1, <1>2, GoesOn DEF Asking, CallLabels, GateInv, Always, Answers
<1>4. CASE GivesUp(c)
  <2>1. /\ call[c] = "asking" /\ CallGoes(c, "aborted")
        /\ UNCHANGED <<command, phase, slot, policy, reply, said>>
    BY <1>4 DEF GivesUp
  <2> QED
    BY <2>1, <1>2, GoesOn DEF Asking, CallLabels
<1>5. CASE Acquires(c)
  <2>1. /\ call[c] = "asking" /\ UNCHANGED <<command, phase, slot, policy, reply, said>>
        /\ \/ CallGoes(c, "arming") \/ CallGoes(c, "denied")
           \/ policy = "allow" /\ CallGoes(c, "allowed")
    BY <1>5 DEF Acquires
  <2> QED
    BY <2>1, <1>2, GoesOn DEF Asking, CallLabels, GateInv, Always, Answers
<1>6. CASE Arms(c)
  <2>1. call[c] = "arming" /\ said[c] = "unasked" /\ reply[c] = "none" /\ slot # c
    BY <1>6, <1>1 DEF Arms, GateInv, Unasked
  <2>2. UNCHANGED <<command, phase, policy, reply>>
    BY <1>6 DEF Arms
  <2>3. CASE CallGoes(c, "fatal") /\ UNCHANGED <<slot, said>>
    BY <2>1, <2>2, <2>3, GoesOn DEF Asking, CallLabels
  <2>4. CASE /\ slot = None /\ slot' = c /\ CallGoes(c, "waiting")
             /\ said' = [said EXCEPT ![c] = "open"]
    <3>1. call' = [call EXCEPT ![c] = "waiting"] /\ slot' = c /\ said' = [said EXCEPT ![c] = "open"]
      BY <2>4 DEF CallGoes
    <3>2. GateTypeOK' /\ CommandOK'
      BY <2>2, <3>1 DEF GateInv, GateTypeOK, CommandOK, CallLabels
    <3>3. InBatch'
      BY <2>1, <2>2, <3>1 DEF GateInv, GateTypeOK, InBatch, Asking
    <3>4. Unasked' /\ Open'
      BY <2>2, <3>1 DEF GateInv, GateTypeOK, Unasked, Open
    <3>5. Heard' /\ Shown'
      BY <2>1, <2>2, <3>1 DEF GateInv, GateTypeOK, Heard, Shown
    <3>6. Always'
      BY <2>1, <2>2, <3>1 DEF GateInv, GateTypeOK, Always
    <3>7. AllowedByUser'
      BY <2>1, <3>1 DEF GateInv, GateTypeOK, AllowedByUser, Answers
    <3> QED
      BY <3>2, <3>3, <3>4, <3>5, <3>6, <3>7 DEF GateInv
  <2> QED
    BY <1>6, <2>3, <2>4 DEF Arms
<1>7. CASE Hears(c)
  <2>1. call[c] = "waiting" /\ reply[c] # "none" /\ UNCHANGED <<command, phase, slot, reply, said>>
    BY <1>7 DEF Hears
  <2>2. said[c] = reply[c] /\ reply[c] \in Answers /\ slot # c
    BY <2>1, <1>1 DEF GateInv, GateTypeOK, Heard
  <2>3. CASE CallGoes(c, "fatal") /\ UNCHANGED policy
    BY <2>1, <2>2, <2>3, GoesOn DEF Asking, CallLabels
  <2>4. CASE /\ policy' = CASE reply[c] = "allow_always" -> "allow"
                             [] reply[c] = "reject_always" -> "deny"
                             [] OTHER -> policy
             /\ \/ reply[c] \in Allowing /\ CallGoes(c, "allowed")
                \/ CallGoes(c, "denied")
    <3>1. /\ call' = [call EXCEPT ![c] = "allowed"] /\ reply[c] \in Allowing
          \/ call' = [call EXCEPT ![c] = "denied"]
      BY <2>4 DEF CallGoes
    <3>2. policy' \in {"ask", "allow", "deny"} /\ (policy' = "allow" => policy = "allow" \/ reply[c] = "allow_always")
      BY <2>4 DEF GateInv, GateTypeOK
    <3>3. GateTypeOK' /\ CommandOK'
      BY <2>1, <3>1, <3>2 DEF GateInv, GateTypeOK, CommandOK, CallLabels
    <3>4. InBatch'
      BY <2>1, <3>1 DEF GateInv, GateTypeOK, InBatch, Asking
    <3>5. Unasked'
      BY <2>1, <3>1 DEF GateInv, GateTypeOK, Unasked
    <3>6. Open'
      BY <2>1, <2>2, <3>1 DEF GateInv, GateTypeOK, Open, Answers
    <3>7. Heard' /\ Shown'
      BY <2>1, <2>2, <3>1 DEF GateInv, GateTypeOK, Heard, Shown
    <3>8. Always'
      BY <2>1, <2>2, <3>2 DEF GateInv, Always
    <3>9. AllowedByUser'
      BY <2>1, <2>2, <3>1 DEF GateInv, GateTypeOK, AllowedByUser
    <3> QED
      BY <3>3, <3>4, <3>5, <3>6, <3>7, <3>8, <3>9 DEF GateInv
  <2> QED
    BY <1>7, <2>3, <2>4 DEF Hears
<1>8. CASE Withdraws(c)
  <2>1. /\ call[c] = "waiting" /\ UNCHANGED <<command, phase, policy, reply, said>>
        /\ CallGoes(c, "aborted") \/ CallGoes(c, "fatal")
        /\ slot' = IF slot = c THEN None ELSE slot
    BY <1>8 DEF Withdraws, ClearIf
  <2>2. call' = [call EXCEPT ![c] = "aborted"] \/ call' = [call EXCEPT ![c] = "fatal"]
    BY <2>1 DEF CallGoes
  <2>3. GateTypeOK' /\ CommandOK'
    BY <2>1, <2>2 DEF GateInv, GateTypeOK, CommandOK, CallLabels
  <2>4. InBatch'
    BY <2>1, <2>2 DEF GateInv, GateTypeOK, InBatch, Asking
  <2>5. Unasked' /\ Open' /\ Heard' /\ Always'
    BY <2>1, <2>2 DEF GateInv, GateTypeOK, Unasked, Open, Heard, Always
  <2>6. Shown'
    BY <2>1, <2>2 DEF GateInv, GateTypeOK, Shown
  <2>7. AllowedByUser'
    BY <2>1, <2>2 DEF GateInv, GateTypeOK, AllowedByUser
  <2> QED
    BY <2>3, <2>4, <2>5, <2>6, <2>7 DEF GateInv
<1>9. CASE Executes(c)
  <2>1. /\ call[c] = "allowed" /\ UNCHANGED <<command, phase, slot, policy, reply, said>>
        /\ CallGoes(c, "aborted") \/ CallGoes(c, "ran")
    BY <1>9 DEF Executes
  <2>2. slot # c /\ said[c] # "open"
    BY <2>1, <1>1 DEF GateInv, Open
  <2>3. IF said[c] \in Answers THEN said[c] \in Allowing
        ELSE \E d \in Calls : said[d] = "allow_always"
    BY <2>1 DEF GateInv, AllowedByUser
  <2> QED
    BY <2>1, <2>2, <2>3, GoesOn DEF Asking, CallLabels
<1> QED
  BY <1>3, <1>4, <1>5, <1>6, <1>7, <1>8, <1>9 DEF CallStep

\* Every step keeps the gate.
LEMMA StepKeepsGate == GateInv /\ [Next]_vars => GateInv'
<1> SUFFICES ASSUME GateInv, [Next]_vars PROVE GateInv'
  OBVIOUS
<1>1. CASE User \/ CommandStep
  BY <1>1, CommandsKeepGate
<1>2. CASE CompactionStep \/ \E r \in Runs : RunStep(r)
  BY <1>2, TasksKeepGate
<1>3. ASSUME NEW c \in Calls, CallStep(c) PROVE GateInv'
  BY <1>3, GateKeepsGate
<1>4. CASE UNCHANGED vars
  BY <1>4, Stays DEF vars, session, gate, Untouched
<1> QED
  BY <1>1, <1>2, <1>3, <1>4 DEF Next

-----------------------------------------------------------------------------
LEMMA GateAlways == Spec => []GateInv
<1> QED
  BY InitGate, StepKeepsGate, PTL DEF Spec

\* No tool runs that the user has not allowed, whatever runs overlap, however
\* many calls a batch makes, and whenever an answer arrives.
THEOREM GateFollowsUser == Spec => []AllowedByUser
<1>1. GateInv => AllowedByUser
  BY DEF GateInv
<1> QED
  BY <1>1, GateAlways, PTL

\* The request the user can see has a waiter in the batch of a run that has
\* not ended.
THEOREM RequestHasWaiter == Spec => []RequestOwned
<1>1. GateInv => RequestOwned
  BY DEF GateInv, GateTypeOK, Shown, InBatch, RequestOwned, At, Asking
<1> QED
  BY <1>1, GateAlways, PTL

-----------------------------------------------------------------------------
(* The ledger of a run                                                     *)

Working == {"Running", "AwaitingInput"}

Outcomes == {"none", "Completed", "Failed", "Cancelled"}

LedgerInv ==
    /\ ledger \in [Runs -> Ledger!Ledgers(Calls)] /\ result \in [Runs -> Outcomes]
    /\ \A r \in Runs :
        /\ phase[r] = "none" => ledger[r].state = "Queued"
        /\ phase[r] \notin {"none", "over"} => ledger[r].state \in Working
        /\ phase[r] \in {"ended", "finishing"} => result[r] # "none"
        /\ phase[r] = "over" => ledger[r].state = result[r] /\ ledger[r].active = {}

\* What the gate and a recovery write leaves a working ledger working.
LEMMA StaysWorking ==
    ASSUME NEW l \in Ledger!Ledgers(Calls), l.state \in Working, NEW c \in Calls
    PROVE  \A m \in {Ledger!ToolStarted(l, c), Ledger!ToolFinished(l, c),
                      Ledger!Transition(l, "AwaitingInput"), Ledger!Transition(l, "Running")} :
               m \in Ledger!Ledgers(Calls) /\ m.state \in Working
<1>1. /\ Ledger!ToolStarted(l, c) \in Ledger!Ledgers(Calls)
      /\ Ledger!ToolStarted(l, c).state \in Working
  BY DEF Ledger!Ledgers, Ledger!ToolStarted, Working
<1>2. /\ Ledger!ToolFinished(l, c) \in Ledger!Ledgers(Calls)
      /\ Ledger!ToolFinished(l, c).state \in Working
  BY DEF Ledger!Ledgers, Ledger!ToolFinished, Working
<1>3. /\ Ledger!Transition(l, "AwaitingInput") \in Ledger!Ledgers(Calls)
      /\ Ledger!Transition(l, "AwaitingInput").state \in Working
  BY DEF Ledger!Ledgers, Ledger!Transition, Ledger!States, Working
<1>4. /\ Ledger!Transition(l, "Running") \in Ledger!Ledgers(Calls)
      /\ Ledger!Transition(l, "Running").state \in Working
  BY DEF Ledger!Ledgers, Ledger!Transition, Ledger!States, Working
<1> QED
  BY <1>1, <1>2, <1>3, <1>4

LEMMA StartsWorking ==
    ASSUME NEW l \in Ledger!Ledgers(Calls), l.state \in {"Queued", "Recovering"}
    PROVE  /\ Ledger!StartAttempt(l) \in Ledger!Ledgers(Calls)
           /\ Ledger!StartAttempt(l).state = "Running"
<1>1. Ledger!StartAttempt(l) = [l EXCEPT !.state = "Running", !.attempts = l.attempts + 1]
  BY DEF Ledger!StartAttempt
<1>2. /\ l.state \in Ledger!States /\ l.attempts \in Nat /\ l.recoveries \in Nat
      /\ l.active \in SUBSET Calls /\ l.tools \in SUBSET Calls
      /\ l = [state |-> l.state, attempts |-> l.attempts, recoveries |-> l.recoveries,
              active |-> l.active, tools |-> l.tools]
  BY DEF Ledger!Ledgers
<1>3. Ledger!StartAttempt(l) = [state |-> "Running", attempts |-> l.attempts + 1,
                                recoveries |-> l.recoveries, active |-> l.active, tools |-> l.tools]
  BY <1>1, <1>2
<1> QED
  BY <1>2, <1>3 DEF Ledger!Ledgers, Ledger!States

LEMMA RecoversWorking ==
    ASSUME NEW l \in Ledger!Ledgers(Calls), Ledger!CanRecover(l)
    PROVE  /\ Ledger!ScheduleRecovery(l) \in Ledger!Ledgers(Calls)
           /\ Ledger!ScheduleRecovery(l).state = "Running"
<1> DEFINE n == [l EXCEPT !.state = "Recovering"]
           m == [n EXCEPT !.recoveries = @ + 1]
<1>1. n \in Ledger!Ledgers(Calls) /\ n.state = "Recovering"
  BY DEF Ledger!Ledgers, Ledger!States
<1>2. m \in Ledger!Ledgers(Calls) /\ m.state = "Recovering"
  <2> HIDE DEF n
  <2> QED
    BY <1>1 DEF Ledger!Ledgers
<1>3. [l EXCEPT !.state = "Recovering", !.recoveries = @ + 1] = m
  BY DEF Ledger!Ledgers
<1>4. Ledger!ScheduleRecovery(l) = Ledger!StartAttempt(m)
  BY <1>3 DEF Ledger!ScheduleRecovery
<1> HIDE DEF m
<1> QED
  BY <1>2, <1>4, StartsWorking

\* A working ledger is finalized to any terminal state a run can have.
LEMMA FinalizedSettles ==
    ASSUME NEW l \in Ledger!Ledgers(Calls), l.state \in Working,
           NEW terminal \in {"Completed", "Failed", "Cancelled"}
    PROVE  /\ Ledger!Finalized(l, terminal) \in Ledger!Ledgers(Calls)
           /\ Ledger!Finalized(l, terminal).state = terminal
           /\ Ledger!Finalized(l, terminal).active = {}
<1> DEFINE k == Ledger!Closed(l)
           m == Ledger!Resumed(k)
           n == Ledger!Verified(m)
<1>1. k \in Ledger!Ledgers(Calls) /\ k.state \in Working /\ k.active = {}
  BY DEF Ledger!Closed, Ledger!Ledgers, Working
<1>2. m \in Ledger!Ledgers(Calls) /\ m.state = "Running" /\ m.active = {}
  <2> HIDE DEF k
  <2> QED
    BY <1>1 DEF Ledger!Resumed, Ledger!Transition, Ledger!ValidTransition, Ledger!Ledgers,
                Ledger!States, Working
<1>3. n \in Ledger!Ledgers(Calls) /\ n.state = "Verifying" /\ n.active = {}
  <2> HIDE DEF m
  <2> QED
    BY <1>2 DEF Ledger!Verified, Ledger!Transition, Ledger!ValidTransition, Ledger!Ledgers,
                Ledger!States
<1>4. /\ Ledger!Settled(n, terminal) \in Ledger!Ledgers(Calls)
      /\ Ledger!Settled(n, terminal).state = terminal /\ Ledger!Settled(n, terminal).active = {}
  <2> HIDE DEF n
  <2> QED
    BY <1>3 DEF Ledger!Settled, Ledger!Transition, Ledger!ValidTransition, Ledger!Ledgers,
                Ledger!States
<1> QED
  BY <1>4 DEF Ledger!Finalized

LEMMA InitLedger == Init => LedgerInv
<1> SUFFICES ASSUME Init PROVE LedgerInv
  OBVIOUS
<1>1. Ledger!NewRoot \in Ledger!Ledgers(Calls) /\ Ledger!NewRoot.state = "Queued"
  BY DEF Ledger!NewRoot, Ledger!Ledgers, Ledger!States
<1> QED
  BY <1>1, LocalRunAssumption DEF Init, LedgerInv, Outcomes, Tasks

\* A step of one run.
LEMMA RunMoves ==
    ASSUME GateInv, LedgerInv, NEW r \in Runs, NEW label \in Labels, NEW l \in Ledger!Ledgers(Calls),
           NEW outcome \in Outcomes,
           phase' = [phase EXCEPT ![r] = label],
           ledger' = [ledger EXCEPT ![r] = l],
           result' = [result EXCEPT ![r] = outcome],
           label # "none",
           label # "over" => l.state \in Working,
           label \in {"ended", "finishing"} => outcome # "none",
           label = "over" => l.state = outcome /\ l.active = {}
    PROVE  LedgerInv'
<1>1. ledger' \in [Runs -> Ledger!Ledgers(Calls)] /\ result' \in [Runs -> Outcomes]
  BY DEF LedgerInv
<1>2. \A q \in Runs : q # r =>
          phase'[q] = phase[q] /\ ledger'[q] = ledger[q] /\ result'[q] = result[q]
  BY DEF GateInv, GateTypeOK, LedgerInv, Tasks
<1>3. phase'[r] = label /\ ledger'[r] = l /\ result'[r] = outcome
  BY DEF GateInv, GateTypeOK, LedgerInv, Tasks
<1> QED
  BY <1>1, <1>2, <1>3 DEF LedgerInv

\* A run that goes on, or ends, with its ledger as it was.
LEMMA RunGoes ==
    ASSUME GateInv, LedgerInv, NEW r \in Runs, NEW label \in Labels, NEW outcome \in Outcomes,
           Goto(r, label), UNCHANGED ledger,
           result' = [result EXCEPT ![r] = outcome],
           phase[r] \notin {"none", "over"}, label \notin {"none", "over"},
           label \in {"ended", "finishing"} => outcome # "none"
    PROVE  LedgerInv'
<1>1. ledger[r] \in Ledger!Ledgers(Calls) /\ ledger[r].state \in Working
  BY DEF LedgerInv
<1>2. ledger' = [ledger EXCEPT ![r] = ledger[r]]
  BY DEF LedgerInv
<1> QED
  BY <1>1, <1>2, RunMoves DEF Goto

LEMMA LedgerUntouched ==
    ASSUME LedgerInv, UNCHANGED <<ledger, result>>, \A r \in Runs : phase'[r] = phase[r]
    PROVE  LedgerInv'
BY DEF LedgerInv

LEMMA CommandsKeepLedger ==
    ASSUME GateInv, LedgerInv, User \/ CommandStep \/ CompactionStep
    PROVE  LedgerInv'
<1>1. CASE Spawn
  <2>1. command.run \in Runs /\ phase[command.run] = "none"
    BY <1>1 DEF Spawn, GateInv, CommandOK
  <2> DEFINE r == command.run
             l == Ledger!StartAttempt(ledger[r])
  <2>2. ledger[r] \in Ledger!Ledgers(Calls) /\ ledger[r].state = "Queued" /\ result[r] \in Outcomes
    BY <2>1 DEF LedgerInv
  <2>3. l \in Ledger!Ledgers(Calls) /\ l.state \in Working
    BY <2>2, StartsWorking DEF Working
  <2>4. phase' = [phase EXCEPT ![r] = "opening"] /\ ledger' = [ledger EXCEPT ![r] = l] /\ UNCHANGED result
    BY <1>1 DEF Spawn, Goto
  <2>5. result' = [result EXCEPT ![r] = result[r]]
    BY <2>4 DEF LedgerInv
  <2> HIDE DEF l
  <2> QED
    BY <2>1, <2>2, <2>3, <2>4, <2>5, RunMoves DEF Labels
<1>2. CASE Compact \/ CompactionReads \/ CompactionEnds
  <2>1. UNCHANGED <<ledger, result>> /\ \E label \in Labels : phase' = [phase EXCEPT ![Compaction] = label]
    BY <1>2 DEF Compact, CompactionReads, CompactionEnds, Goto, engine, Labels
  <2>2. \A r \in Runs : phase'[r] = phase[r]
    BY <2>1, LocalRunAssumption DEF GateInv, GateTypeOK, Tasks, Compaction
  <2> QED
    BY <2>1, <2>2, LedgerUntouched
<1>3. ASSUME NEW r \in Runs, Prompt(r) PROVE LedgerInv'
  BY <1>3, LedgerUntouched DEF Prompt, engine
<1>4. ASSUME NEW t \in Tasks, Cancel(t) PROVE LedgerInv'
  BY <1>4, LedgerUntouched DEF Cancel, engine
<1>5. ASSUME NEW c \in Calls, NEW answer \in Options, Respond(c, answer) PROVE LedgerInv'
  BY <1>5, LedgerUntouched DEF Respond, engine
<1>6. CASE Close \/ ImplementFresh \/ Steer \/ Supersede \/ Clear \/ Push
  BY <1>6, LedgerUntouched DEF Close, ImplementFresh, Steer, Supersede, Clear, Push, engine
<1> QED
  BY <1>1, <1>2, <1>3, <1>4, <1>5, <1>6 DEF User, CommandStep, CompactionStep

LEMMA RunsKeepLedger ==
    ASSUME GateInv, LedgerInv, NEW r \in Runs, RunStep(r)
    PROVE  LedgerInv'
<1>0. /\ result \in [Runs -> Outcomes] /\ result[r] \in Outcomes
      /\ UNCHANGED result => result' = [result EXCEPT ![r] = result[r]]
  BY DEF LedgerInv
<1>1. CASE Opens(r)
  <2>1. phase[r] = "opening" /\ UNCHANGED ledger
    BY <1>1 DEF Opens, At
  <2>2. \/ Goto(r, "finishing") /\ result' = [result EXCEPT ![r] = "Cancelled"]
        \/ Goto(r, "driving") /\ UNCHANGED result
    BY <1>1 DEF Opens
  <2> QED
    BY <2>1, <2>2, <1>0, RunGoes DEF Labels, Outcomes
<1>2. CASE Attempt(r)
  <2>1. phase[r] \in {"driving", "attempt"} /\ Goto(r, "call") /\ UNCHANGED <<ledger, result>>
    BY <1>2 DEF Attempt
  <2> QED
    BY <2>1, <1>0, RunGoes DEF Labels
<1>3. CASE Inject(r) \/ \E o \in BOOLEAN : Transform(r, o)
  BY <1>3, LedgerUntouched DEF Inject, Transform
<1>4. CASE Answered(r)
  <2>1. phase[r] = "call" /\ UNCHANGED ledger
    BY <1>4 DEF Answered, At
  <2>2. \/ Goto(r, "attempt") /\ UNCHANGED result
        \/ Goto(r, "ended") /\ result' = [result EXCEPT ![r] = "Completed"]
    BY <1>4 DEF Answered, Ends
  <2> QED
    BY <2>1, <2>2, <1>0, RunGoes DEF Labels, Outcomes
<1>5. CASE CallsTools(r)
  <2>1. phase[r] = "call" /\ Goto(r, "batch") /\ UNCHANGED <<ledger, result>>
    BY <1>5 DEF CallsTools, At
  <2> QED
    BY <2>1, <1>0, RunGoes DEF Labels
<1>6. CASE BatchEnds(r)
  <2>1. phase[r] = "batch" /\ UNCHANGED ledger
    BY <1>6 DEF BatchEnds, At
  <2>2. \/ Goto(r, "call") /\ UNCHANGED result
        \/ \E t \in {"Failed", "Cancelled"} : Goto(r, "ended") /\ result' = [result EXCEPT ![r] = t]
    BY <1>6 DEF BatchEnds, Ends
  <2> QED
    BY <2>1, <2>2, <1>0, RunGoes DEF Labels, Outcomes
<1>7. CASE StreamFails(r)
  <2>1. phase[r] = "call"
    BY <1>7 DEF StreamFails, At
  <2>2. CASE UNCHANGED ledger /\ \E t \in {"Failed", "Cancelled"} : Ends(r, t)
    BY <2>1, <2>2, RunGoes DEF Labels, Outcomes, Ends
  <2>3. CASE /\ Ledger!CanRecover(ledger[r]) /\ Goto(r, "recovering") /\ UNCHANGED result
             /\ ledger' = [ledger EXCEPT ![r] = Ledger!ScheduleRecovery(@)]
    <3> DEFINE l == Ledger!ScheduleRecovery(ledger[r])
    <3>1. l \in Ledger!Ledgers(Calls) /\ l.state \in Working
      BY <2>3, RecoversWorking DEF LedgerInv, Working
    <3>2. phase' = [phase EXCEPT ![r] = "recovering"] /\ ledger' = [ledger EXCEPT ![r] = l]
      BY <2>3 DEF Goto
    <3> HIDE DEF l
    <3> QED
      BY <2>3, <3>1, <3>2, <1>0, RunMoves, ZenonT(60) DEF Labels
  <2> QED
    BY <1>7, <2>2, <2>3 DEF StreamFails, Recoverable
<1>8. CASE Recovers(r) \/ Leaves(r)
  <2>1. /\ UNCHANGED <<ledger, result>>
        /\ \/ phase[r] = "recovering" /\ Goto(r, "attempt")
           \/ phase[r] = "ended" /\ Goto(r, "finishing")
    BY <1>8 DEF Recovers, Leaves, At
  <2>2. phase[r] = "ended" => result[r] # "none"
    BY DEF LedgerInv
  <2> QED
    BY <2>1, <2>2, <1>0, RunGoes DEF Labels
<1>9. CASE Finishes(r)
  <2> DEFINE l == Ledger!Finalized(ledger[r], result[r])
  <2>1. phase[r] = "finishing" /\ phase' = [phase EXCEPT ![r] = "over"] /\ UNCHANGED result
          /\ ledger' = [ledger EXCEPT ![r] = l]
    BY <1>9 DEF Finishes, At, Goto
  <2>2. /\ ledger[r] \in Ledger!Ledgers(Calls) /\ ledger[r].state \in Working
        /\ result[r] \in {"Completed", "Failed", "Cancelled"}
    BY <2>1 DEF LedgerInv, Outcomes
  <2>3. l \in Ledger!Ledgers(Calls) /\ l.state = result[r] /\ l.active = {}
    BY <2>2, FinalizedSettles
  <2> HIDE DEF l
  <2> QED
    BY <2>1, <2>3, <1>0, RunMoves DEF Labels
<1> QED
  BY <1>1, <1>2, <1>3, <1>4, <1>5, <1>6, <1>7, <1>8, <1>9 DEF RunStep

\* A call writes the ledger of its own run, which is in the batch.
LEMMA CallsKeepLedger ==
    ASSUME GateInv, LedgerInv, NEW c \in Calls, CallStep(c)
    PROVE  LedgerInv'
<1> DEFINE r == Owner[c]
<1>1. r \in Runs /\ UNCHANGED <<phase, result>>
  BY LocalRunAssumption DEF CallStep, GateOnly, Starts, GivesUp, Acquires, Arms, Hears, Withdraws,
                            Executes
<1>2. call[c] \in Asking
  BY DEF CallStep, Asking, Starts, GivesUp, Acquires, Arms, Hears, Withdraws, Executes
<1>3. phase[r] = "batch"
  BY <1>2 DEF GateInv, InBatch
<1>4. ledger[r] \in Ledger!Ledgers(Calls) /\ ledger[r].state \in Working /\ result[r] \in Outcomes
  BY <1>1, <1>3 DEF LedgerInv
<1>5. ASSUME NEW l \in Ledger!Ledgers(Calls), l.state \in Working, ledger' = [ledger EXCEPT ![r] = l]
      PROVE  LedgerInv'
  <2>1. phase' = [phase EXCEPT ![r] = "batch"] /\ result' = [result EXCEPT ![r] = result[r]]
    BY <1>1, <1>3 DEF GateInv, GateTypeOK, LedgerInv
  <2> QED
    BY <1>1, <1>4, <1>5, <2>1, RunMoves DEF Labels
<1>6. CASE UNCHANGED ledger
  BY <1>1, <1>6, LedgerUntouched
<1>7. ASSUME NEW l, Records(c, l), l \in Ledger!Ledgers(Calls) /\ l.state \in Working
      PROVE  LedgerInv'
  BY <1>5, <1>7 DEF Records
<1>8. CASE Starts(c)
  <2> DEFINE m == Ledger!ToolStarted(ledger[r], c)
  <2>1. m \in Ledger!Ledgers(Calls) /\ m.state \in Working
    BY <1>4, StaysWorking
  <2>2. Records(c, m) \/ Records(c, Ledger!ToolFinished(m, c))
    BY <1>8 DEF Starts, Mine
  <2> HIDE DEF m
  <2> QED
    BY <2>1, <2>2, <1>7, StaysWorking
<1>9. CASE Acquires(c)
  <2>1. \/ Records(c, Ledger!Transition(ledger[r], "AwaitingInput"))
        \/ Records(c, Ledger!ToolFinished(ledger[r], c))
        \/ UNCHANGED ledger
    BY <1>9 DEF Acquires, Mine
  <2> QED
    BY <2>1, <1>4, <1>6, <1>7, StaysWorking
<1>10. CASE Hears(c)
  <2> DEFINE m == Ledger!Transition(ledger[r], "Running")
  <2>1. m \in Ledger!Ledgers(Calls) /\ m.state \in Working
    BY <1>4, StaysWorking
  <2>2. Records(c, m) \/ Records(c, Ledger!ToolFinished(m, c)) \/ UNCHANGED ledger
    BY <1>10 DEF Hears, Mine
  <2> HIDE DEF m
  <2> QED
    BY <2>1, <2>2, <1>6, <1>7, StaysWorking
<1>11. CASE Withdraws(c)
  <2>1. Records(c, Ledger!Transition(ledger[r], "Running"))
    BY <1>11 DEF Withdraws, Mine
  <2> QED
    BY <2>1, <1>4, <1>7, StaysWorking
<1>12. CASE Executes(c)
  <2>1. Records(c, Ledger!ToolFinished(ledger[r], c)) \/ UNCHANGED ledger
    BY <1>12 DEF Executes, Mine
  <2> QED
    BY <2>1, <1>4, <1>6, <1>7, StaysWorking
<1>13. CASE GivesUp(c) \/ Arms(c)
  BY <1>13, <1>6 DEF GivesUp, Arms
<1> QED
  BY <1>8, <1>9, <1>10, <1>11, <1>12, <1>13 DEF CallStep

LEMMA StepKeepsLedger ==
    ASSUME GateInv, LedgerInv, [Next]_vars
    PROVE  LedgerInv'
<1>1. CASE UNCHANGED vars
  BY <1>1, LedgerUntouched DEF vars, engine
<1> QED
  BY <1>1, CommandsKeepLedger, RunsKeepLedger, CallsKeepLedger DEF Next

LEMMA LedgerAlways == Spec => []LedgerInv
<1>1. GateInv /\ LedgerInv /\ [Next]_vars => LedgerInv'
  BY StepKeepsLedger
<1> QED
  BY <1>1, InitLedger, GateAlways, PTL DEF Spec

\* A run that has ended has a ledger settled as the outcome that was published,
\* also when it was stopped at a permission wait, and no tool without a receipt.
THEOREM LedgerAgrees == Spec => []LedgerSettled
<1>1. LedgerInv => LedgerSettled
  BY DEF LedgerInv, LedgerSettled, At
<1> QED
  BY <1>1, LedgerAlways, PTL

-----------------------------------------------------------------------------
(* Induction over data, and what a transcript tells                        *)

\* Induction over the numbers; what holds of them is given as a set.
LEMMA NumberInduction ==
    ASSUME NEW Good, 0 \in Good, \A n \in Nat : n \in Good => n + 1 \in Good
    PROVE  Nat \subseteq Good
<1> DEFINE Below == {p \in Nat \X Nat : p[1] < p[2]}
           Bad == Nat \ Good
<1>1. IsWellFoundedOn(Below, Nat)
  <2>1. OpToRel(<, Nat) = Below
    BY DEF OpToRel
  <2> QED
    BY <2>1, NatLessThanWellFounded
<1>2. ASSUME Bad # {} PROVE FALSE
  <2>1. Bad \subseteq Nat
    OBVIOUS
  <2>2. \E n \in Bad : \A k \in Bad : <<k, n>> \notin Below
    <3> HIDE DEF Bad, Below
    <3> QED
      BY <1>1, <1>2, <2>1, WFMin
  <2>3. PICK n \in Bad : \A k \in Bad : <<k, n>> \notin Below
    BY <2>2
  <2>4. n \in Nat /\ n # 0 /\ n \notin Good
    OBVIOUS
  <2>5. n - 1 \in Nat /\ n - 1 < n /\ (n - 1) + 1 = n
    BY <2>4
  <2>6. n - 1 \in Good
    BY <2>3, <2>4, <2>5
  <2> QED
    BY <2>4, <2>5, <2>6
<1> QED
  BY <1>2

LEMMA SequenceInduction ==
    ASSUME NEW S, NEW Good, <<>> \in Good,
           \A s \in Seq(S), e \in S : s \in Good => Append(s, e) \in Good
    PROVE  Seq(S) \subseteq Good
<1> DEFINE Lengths == {n \in Nat : \A s \in Seq(S) : Len(s) = n => s \in Good}
<1>1. 0 \in Lengths
  BY EmptySeq
<1>2. ASSUME NEW n \in Nat, n \in Lengths, NEW s \in Seq(S), Len(s) = n + 1
      PROVE  s \in Good
  <2>1. s # <<>>
    BY <1>2, EmptySeq
  <2>2. PICK t \in Seq(S), e \in S : s = Append(t, e)
    BY <2>1, SequenceEmptyOrAppend
  <2>3. Len(t) = n
    BY <1>2, <2>2
  <2> QED
    BY <1>2, <2>2, <2>3
<1>3. \A n \in Nat : n \in Lengths => n + 1 \in Lengths
  BY <1>2
<1> HIDE DEF Lengths
<1>4. Nat \subseteq Lengths
  BY <1>1, <1>3, NumberInduction
<1> QED
  BY <1>4 DEF Lengths

-----------------------------------------------------------------------------
Flattening(f, s, n) == f = [i \in 1..n |-> IF i = 1 THEN s[i] ELSE f[i - 1] \o s[i]]

LEMMA FlattenDef ==
    ASSUME NEW s, Len(s) # 0
    PROVE  FlattenSeq(s) = (CHOOSE f : Flattening(f, s, Len(s)))[Len(s)]
  BY DEF FlattenSeq, Flattening

LEMMA FlatteningAt ==
    ASSUME NEW s, NEW n \in Nat, NEW f, Flattening(f, s, n)
    PROVE  \A i \in 1..n : f[i] = IF i = 1 THEN s[i] ELSE f[i - 1] \o s[i]
  BY DEF Flattening

LEMMA FlatteningsAgree ==
    ASSUME NEW s, NEW t, NEW n \in Nat, NEW m \in Nat, n <= m, \A i \in 1..n : s[i] = t[i],
           NEW f, Flattening(f, s, n), NEW g, Flattening(g, t, m)
    PROVE  \A i \in 1..n : f[i] = g[i]
<1> DEFINE Good == {k \in Nat : k \in 1..n => f[k] = g[k]}
<1>a. \A i \in 1..n : f[i] = IF i = 1 THEN s[i] ELSE f[i - 1] \o s[i]
  BY FlatteningAt
<1>b. \A i \in 1..m : g[i] = IF i = 1 THEN t[i] ELSE g[i - 1] \o t[i]
  BY FlatteningAt
<1>1. 0 \in Good
  OBVIOUS
<1>2. ASSUME NEW k \in Nat, k \in Good, k + 1 \in 1..n
      PROVE  f[k + 1] = g[k + 1]
  <2>1. k + 1 \in 1..m /\ s[k + 1] = t[k + 1]
    BY <1>2
  <2>2. CASE k = 0
    <3>1. f[1] = s[1] /\ g[1] = t[1] /\ 1 \in 1..n
      BY <1>2, <2>1, <2>2, <1>a, <1>b
    <3> QED
      BY <3>1, <2>1, <2>2
  <2>3. CASE k # 0
    <3>1. k \in 1..n /\ k + 1 # 1 /\ (k + 1) - 1 = k
      BY <1>2, <2>3
    <3>2. f[k + 1] = f[k] \o s[k + 1]
      BY <1>2, <3>1, <1>a
    <3>3. g[k + 1] = g[k] \o t[k + 1]
      BY <2>1, <3>1, <1>b
    <3> QED
      BY <1>2, <2>1, <3>1, <3>2, <3>3
  <2> QED
    BY <2>2, <2>3
<1>3. \A k \in Nat : k \in Good => k + 1 \in Good
  BY <1>2
<1> HIDE DEF Good
<1>4. Nat \subseteq Good
  BY <1>1, <1>3, NumberInduction
<1> QED
  BY <1>4 DEF Good

LEMMA FlatteningExists ==
    ASSUME NEW s, NEW n \in Nat
    PROVE  \E f : Flattening(f, s, n)
<1> DEFINE Good == {k \in Nat : \E f : Flattening(f, s, k)}
<1>1. 0 \in Good
  <2> DEFINE f == [i \in 1..0 |-> s[i]]
  <2>1. Flattening(f, s, 0)
    BY DEF Flattening
  <2> HIDE DEF f
  <2> QED
    BY <2>1
<1>2. ASSUME NEW k \in Nat, NEW f, Flattening(f, s, k)
      PROVE  \E g : Flattening(g, s, k + 1)
  <2> DEFINE g == [i \in 1..(k + 1) |-> IF i <= k THEN f[i]
                                         ELSE IF i = 1 THEN s[i] ELSE f[k] \o s[i]]
             h == [i \in 1..(k + 1) |-> IF i = 1 THEN s[i] ELSE g[i - 1] \o s[i]]
  <2>1. ASSUME NEW i \in 1..(k + 1) PROVE g[i] = h[i]
    <3>1. CASE i <= k
      <4>1. i \in 1..k /\ (i # 1 => i - 1 \in 1..(k + 1) /\ i - 1 <= k)
        BY <3>1
      <4>2. g[i] = f[i] /\ (i # 1 => g[i - 1] = f[i - 1])
        BY <4>1
      <4>3. h[i] = IF i = 1 THEN s[i] ELSE g[i - 1] \o s[i]
        OBVIOUS
      <4>4. f[i] = IF i = 1 THEN s[i] ELSE f[i - 1] \o s[i]
        BY <4>1, <1>2, FlatteningAt
      <4> HIDE DEF g, h
      <4> QED
        BY <4>2, <4>3, <4>4
    <3>2. CASE ~(i <= k)
      <4>1. i = k + 1
        BY <3>2
      <4>2. i # 1 => k \in 1..(k + 1) /\ i - 1 = k /\ g[k] = f[k]
        BY <4>1
      <4>3. h[i] = IF i = 1 THEN s[i] ELSE g[i - 1] \o s[i]
        OBVIOUS
      <4>4. g[i] = IF i = 1 THEN s[i] ELSE f[k] \o s[i]
        BY <3>2
      <4> HIDE DEF g, h
      <4> QED
        BY <4>2, <4>3, <4>4
    <3> QED
      BY <3>1, <3>2
  <2>2. g = [i \in 1..(k + 1) |-> g[i]] /\ h = [i \in 1..(k + 1) |-> h[i]]
    OBVIOUS
  <2>3. g = h
    <3> HIDE DEF g, h
    <3> QED
      BY <2>1, <2>2
  <2>4. Flattening(g, s, k + 1)
    <3> HIDE DEF g
    <3> QED
      BY <2>3 DEF Flattening
  <2> HIDE DEF g
  <2> QED
    BY <2>4
<1>3. \A k \in Nat : k \in Good => k + 1 \in Good
  BY <1>2
<1> HIDE DEF Good
<1>4. Nat \subseteq Good
  BY <1>1, <1>3, NumberInduction
<1> QED
  BY <1>4 DEF Good

-----------------------------------------------------------------------------
LEMMA FlattenEmpty == FlattenSeq(<<>>) = <<>>
  BY DEF FlattenSeq

\* The function of FlattenSeq is one of those that solve its equation.
LEMMA FlattenLast ==
    ASSUME NEW s, NEW n \in Nat \ {0}, Len(s) = n, NEW f, Flattening(f, s, n)
    PROVE  FlattenSeq(s) = f[n]
<1>1. \E g : Flattening(g, s, n)
  OBVIOUS
<1>2. PICK g : Flattening(g, s, n) /\ FlattenSeq(s) = g[n]
  BY <1>1, FlattenDef
<1>3. \A i \in 1..n : g[i] = f[i]
  BY <1>2, FlatteningsAgree
<1> QED
  BY <1>2, <1>3

LEMMA FlattenOne ==
    ASSUME NEW t, Len(t) = 1
    PROVE  FlattenSeq(t) = t[1]
<1>1. PICK g : Flattening(g, t, 1)
  BY FlatteningExists
<1>2. FlattenSeq(t) = g[1]
  <2>1. 1 \in Nat \ {0}
    OBVIOUS
  <2> QED
    BY <1>1, <2>1, FlattenLast, Zenon
<1>3. \A i \in 1..1 : g[i] = IF i = 1 THEN t[i] ELSE g[i - 1] \o t[i]
  BY <1>1, FlatteningAt
<1> QED
  BY <1>2, <1>3

LEMMA FlattenExtends ==
    ASSUME NEW s, NEW t, NEW n \in Nat, n # 0, NEW m \in Nat, m = n + 1,
           Len(s) = n, Len(t) = m, \A i \in 1..n : s[i] = t[i]
    PROVE  FlattenSeq(t) = FlattenSeq(s) \o t[m]
<1>1. PICK f : Flattening(f, s, n)
  BY FlatteningExists
<1>2. PICK g : Flattening(g, t, m)
  BY FlatteningExists
<1>3. n <= m /\ n \in 1..n /\ m - 1 = n /\ m # 1 /\ m \in 1..m
  OBVIOUS
<1>4. \A i \in 1..n : f[i] = g[i]
  <2>1. n \in Nat /\ m \in Nat
    OBVIOUS
  <2> QED
    BY <1>1, <1>2, <1>3, <2>1, FlatteningsAgree, SMTT(30)
<1>5. \A i \in 1..m : g[i] = IF i = 1 THEN t[i] ELSE g[i - 1] \o t[i]
  BY <1>2, FlatteningAt
<1>6. FlattenSeq(s) = f[n] /\ FlattenSeq(t) = g[m]
  BY <1>1, <1>2, FlattenLast
<1> QED
  BY <1>3, <1>4, <1>5, <1>6

\* The elements of the last sequence come last.
LEMMA FlattenAppend ==
    ASSUME NEW M, NEW s \in Seq(Seq(M)), NEW e \in Seq(M), FlattenSeq(s) \in Seq(M)
    PROVE  FlattenSeq(Append(s, e)) = FlattenSeq(s) \o e
<1>1. CASE s = <<>>
  <2>1. FlattenSeq(s) = <<>>
    BY <1>1, FlattenEmpty
  <2>2. Len(Append(s, e)) = 1 /\ Append(s, e)[1] = e
    BY <1>1
  <2>3. FlattenSeq(Append(s, e)) = e
    BY <2>2, FlattenOne
  <2> QED
    BY <2>1, <2>3, ConcatEmptySeq
<1>2. CASE s # <<>>
  <2>1. Len(s) \in Nat \ {0} /\ Len(Append(s, e)) \in Nat \ {0} /\ Len(Append(s, e)) = Len(s) + 1
    BY <1>2, EmptySeq, AppendProperties
  <2>2. Append(s, e)[Len(Append(s, e))] = e /\ \A i \in 1..Len(s) : s[i] = Append(s, e)[i]
    OBVIOUS
  <2>3. FlattenSeq(Append(s, e)) = FlattenSeq(s) \o Append(s, e)[Len(Append(s, e))]
    BY <2>1, <2>2, FlattenExtends
  <2> QED
    BY <2>2, <2>3
<1> QED
  BY <1>1, <1>2

LEMMA FlattenTyped ==
    ASSUME NEW M
    PROVE  \A s \in Seq(Seq(M)) : FlattenSeq(s) \in Seq(M)
<1> DEFINE Good == {s \in Seq(Seq(M)) : FlattenSeq(s) \in Seq(M)}
<1>1. <<>> \in Good
  <2>1. <<>> \in Seq(Seq(M)) /\ <<>> \in Seq(M)
    BY EmptySeq
  <2>2. FlattenSeq(<<>>) \in Seq(M)
    BY <2>1, FlattenEmpty
  <2> QED
    BY <2>1, <2>2
<1>2. ASSUME NEW s \in Seq(Seq(M)), NEW e \in Seq(M), s \in Good
      PROVE  Append(s, e) \in Good
  <2>1. FlattenSeq(Append(s, e)) = FlattenSeq(s) \o e
    BY <1>2, FlattenAppend
  <2>2. FlattenSeq(s) \o e \in Seq(M)
    BY <1>2
  <2>3. Append(s, e) \in Seq(Seq(M)) /\ FlattenSeq(Append(s, e)) \in Seq(M)
    BY <2>1, <2>2, AppendProperties
  <2> QED
    BY <2>3
<1> HIDE DEF Good
<1>3. Seq(Seq(M)) \subseteq Good
  BY <1>1, <1>2, SequenceInduction
<1> QED
  BY <1>3 DEF Good

-----------------------------------------------------------------------------
Entries(M) == [of : Seq(M)]

Ofs(t) == [n \in DOMAIN t |-> t[n].of]

LEMMA OfsTyped ==
    ASSUME NEW M, NEW t \in Seq(Entries(M))
    PROVE  /\ Ofs(t) \in Seq(Seq(M)) /\ Len(Ofs(t)) = Len(t) /\ Len(t) \in Nat
           /\ \A i \in 1..Len(t) : Ofs(t)[i] = t[i].of
<1>1. PICK n \in Nat : n = Len(t) /\ DOMAIN t = 1..n /\ \A i \in 1..n : t[i] \in Entries(M)
  OBVIOUS
<1>2. \A i \in 1..n : t[i].of \in Seq(M)
  BY <1>1 DEF Entries
<1>3. Ofs(t) = [i \in 1..n |-> t[i].of]
  BY <1>1 DEF Ofs
<1>4. Ofs(t) \in [1..n -> Seq(M)]
  BY <1>2, <1>3
<1> QED
  BY <1>1, <1>3, <1>4

LEMMA CoversTyped ==
    ASSUME NEW M, NEW t \in Seq(Entries(M))
    PROVE  Covers(t) \in Seq(M)
<1>1. Ofs(t) \in Seq(Seq(M))
  BY OfsTyped
<1>2. Covers(t) = FlattenSeq(Ofs(t))
  BY DEF Covers, Ofs
<1> QED
  BY <1>1, <1>2, FlattenTyped

LEMMA CoversEmpty == Covers(<<>>) = <<>>
<1>1. [n \in DOMAIN <<>> |-> <<>>[n].of] = <<>>
  OBVIOUS
<1> QED
  BY <1>1, FlattenEmpty DEF Covers

LEMMA CoversAppend ==
    ASSUME NEW M, NEW t \in Seq(Entries(M)), NEW e \in Entries(M)
    PROVE  Covers(Append(t, e)) = Covers(t) \o e.of
<1>1. PICK u \in Seq(Entries(M)) : u = Append(t, e)
  BY AppendProperties
<1>2. /\ Len(u) = Len(t) + 1 /\ Len(t) \in Nat
      /\ \A i \in 1..(Len(t) + 1) : u[i] = IF i <= Len(t) THEN t[i] ELSE e
  BY <1>1
<1>3. e.of \in Seq(M)
  BY DEF Entries
<1>4. Ofs(u) = Append(Ofs(t), e.of)
  <2>1. /\ Ofs(u) \in Seq(Seq(M)) /\ Len(Ofs(u)) = Len(t) + 1
        /\ \A i \in 1..(Len(t) + 1) : Ofs(u)[i] = u[i].of
    BY <1>2, OfsTyped
  <2>2. /\ Ofs(t) \in Seq(Seq(M)) /\ Len(Ofs(t)) = Len(t)
        /\ \A i \in 1..Len(t) : Ofs(t)[i] = t[i].of
    BY OfsTyped
  <2>3. /\ Append(Ofs(t), e.of) \in Seq(Seq(M)) /\ Len(Append(Ofs(t), e.of)) = Len(t) + 1
        /\ \A i \in 1..(Len(t) + 1) :
              Append(Ofs(t), e.of)[i] = IF i <= Len(t) THEN Ofs(t)[i] ELSE e.of
    BY <1>2, <1>3, <2>2
  <2>4. ASSUME NEW i \in 1..(Len(t) + 1)
        PROVE  Ofs(u)[i] = Append(Ofs(t), e.of)[i]
    <3>1. Ofs(u)[i] = u[i].of /\ u[i] = IF i <= Len(t) THEN t[i] ELSE e
      BY <1>2, <2>1
    <3>2. Append(Ofs(t), e.of)[i] = IF i <= Len(t) THEN Ofs(t)[i] ELSE e.of
      BY <2>3
    <3>3. CASE i <= Len(t)
      <4>1. i \in 1..Len(t)
        BY <3>3, <1>2
      <4> QED
        BY <3>1, <3>2, <3>3, <4>1, <2>2, Zenon
    <3>4. CASE ~(i <= Len(t))
      BY <3>1, <3>2, <3>4, Zenon
    <3> QED
      BY <3>3, <3>4
  <2> QED
    BY <2>1, <2>3, <2>4, SeqEqual
<1>5. Ofs(t) \in Seq(Seq(M)) /\ FlattenSeq(Ofs(t)) \in Seq(M)
  BY OfsTyped, FlattenTyped
<1>6. FlattenSeq(Append(Ofs(t), e.of)) = FlattenSeq(Ofs(t)) \o e.of
  BY <1>3, <1>5, FlattenAppend
<1> QED
  BY <1>1, <1>4, <1>6 DEF Covers, Ofs

LEMMA CoversOne ==
    ASSUME NEW M, NEW e \in Entries(M)
    PROVE  Covers(<<e>>) = e.of
<1>1. <<>> \in Seq(Entries(M)) /\ Append(<<>>, e) = <<e>> /\ e.of \in Seq(M)
  BY DEF Entries
<1>2. Covers(Append(<<>>, e)) = Covers(<<>>) \o e.of
  BY <1>1, CoversAppend
<1> QED
  BY <1>1, <1>2, CoversEmpty, ConcatEmptySeq

LEMMA CoversConcat ==
    ASSUME NEW M, NEW s \in Seq(Entries(M)), NEW t \in Seq(Entries(M))
    PROVE  Covers(s \o t) = Covers(s) \o Covers(t)
<1> DEFINE E == Entries(M)
           Good == {u \in Seq(E) : Covers(s \o u) = Covers(s) \o Covers(u)}
<1>0. Covers(s) \in Seq(M) /\ s \in Seq(E) /\ t \in Seq(E)
  BY CoversTyped
<1>1. <<>> \in Good
  <2>1. <<>> \in Seq(E) /\ s \o <<>> = s
    OBVIOUS
  <2>2. Covers(s) \o <<>> = Covers(s)
    BY <1>0
  <2>3. Covers(s \o <<>>) = Covers(s) \o Covers(<<>>)
    BY <2>1, <2>2, CoversEmpty
  <2> QED
    BY <2>1, <2>3
<1>2. ASSUME NEW u \in Seq(E), NEW e \in E, u \in Good
      PROVE  Append(u, e) \in Good
  <2>1. s \o Append(u, e) = Append(s \o u, e) /\ s \o u \in Seq(E) /\ Append(u, e) \in Seq(E)
    BY <1>0
  <2>2. Covers(Append(s \o u, e)) = Covers(s \o u) \o e.of
    BY <2>1, CoversAppend
  <2>3. Covers(Append(u, e)) = Covers(u) \o e.of
    BY CoversAppend
  <2>4. Covers(s \o u) = Covers(s) \o Covers(u)
    BY <1>2
  <2>5. Covers(u) \in Seq(M) /\ e.of \in Seq(M)
    BY CoversTyped DEF Entries
  <2>6. (Covers(s) \o Covers(u)) \o e.of = Covers(s) \o (Covers(u) \o e.of)
    <3>1. \A a, b, c \in Seq(M) : (a \o b) \o c = a \o (b \o c)
      BY ConcatAssociative, SMTT(30)
    <3> QED
      BY <1>0, <2>5, <3>1, Zenon
  <2>7. Covers(s \o Append(u, e)) = Covers(s) \o Covers(Append(u, e))
    BY <2>1, <2>2, <2>3, <2>4, <2>6
  <2> QED
    BY <2>1, <2>7
<1> HIDE DEF Good, E
<1>3. Seq(E) \subseteq Good
  BY <1>1, <1>2, SequenceInduction
<1> QED
  BY <1>0, <1>3 DEF Good

-----------------------------------------------------------------------------
LEMMA ConcatAt ==
    ASSUME NEW M, NEW s \in Seq(M), NEW t \in Seq(M)
    PROVE  /\ s \o t \in Seq(M) /\ Len(s) \in Nat /\ Len(t) \in Nat
           /\ Len(s \o t) = Len(s) + Len(t)
           /\ DOMAIN (s \o t) = 1..(Len(s) + Len(t))
           /\ \A i \in 1..Len(s) : (s \o t)[i] = s[i]
           /\ \A i \in 1..Len(t) : (s \o t)[Len(s) + i] = t[i]
  OBVIOUS

\* A position in the two is one in the first or one in the second.
LEMMA ConcatSplit ==
    ASSUME NEW M, NEW s \in Seq(M), NEW t \in Seq(M), NEW i \in DOMAIN (s \o t)
    PROVE  \/ i \in DOMAIN s /\ (s \o t)[i] = s[i]
           \/ \E j \in DOMAIN t : i = Len(s) + j /\ (s \o t)[i] = t[j]
<1>1. DOMAIN s = 1..Len(s) /\ DOMAIN t = 1..Len(t) /\ Len(s) \in Nat /\ Len(t) \in Nat
  OBVIOUS
<1>2. i \in 1..(Len(s) + Len(t))
  BY ConcatAt
<1>3. CASE i <= Len(s)
  <2>1. i \in 1..Len(s)
    BY <1>1, <1>2, <1>3
  <2> QED
    BY <2>1, <1>1, ConcatAt
<1>4. CASE ~(i <= Len(s))
  <2>1. i - Len(s) \in 1..Len(t) /\ i = Len(s) + (i - Len(s))
    BY <1>1, <1>2, <1>4
  <2>2. PICK j \in 1..Len(t) : i = Len(s) + j
    BY <2>1
  <2>3. (s \o t)[Len(s) + j] = t[j]
    BY ConcatAt
  <2> QED
    BY <1>1, <2>2, <2>3
<1> QED
  BY <1>3, <1>4

LEMMA ElementsConcat ==
    ASSUME NEW M, NEW s \in Seq(M), NEW t \in Seq(M)
    PROVE  ToSet(s \o t) = ToSet(s) \cup ToSet(t)
<1>1. ASSUME NEW m \in ToSet(s \o t) PROVE m \in ToSet(s) \cup ToSet(t)
  <2>1. PICK i \in DOMAIN (s \o t) : m = (s \o t)[i]
    BY DEF ToSet
  <2>2. \/ i \in DOMAIN s /\ (s \o t)[i] = s[i]
        \/ \E j \in DOMAIN t : (s \o t)[i] = t[j]
    BY ConcatSplit
  <2> QED
    BY <2>1, <2>2 DEF ToSet
<1>2. ASSUME NEW m \in ToSet(s) PROVE m \in ToSet(s \o t)
  <2>1. PICK i \in 1..Len(s) : m = s[i]
    BY DEF ToSet
  <2>2. (s \o t)[i] = s[i] /\ i \in DOMAIN (s \o t)
    BY ConcatAt
  <2> QED
    BY <2>1, <2>2 DEF ToSet
<1>3. ASSUME NEW m \in ToSet(t) PROVE m \in ToSet(s \o t)
  <2>1. PICK i \in 1..Len(t) : m = t[i]
    BY DEF ToSet
  <2>2. (s \o t)[Len(s) + i] = t[i] /\ Len(s) + i \in DOMAIN (s \o t)
    BY ConcatAt
  <2> QED
    BY <2>1, <2>2 DEF ToSet
<1> QED
  BY <1>1, <1>2, <1>3

LEMMA InjectiveConcat ==
    ASSUME NEW M, NEW s \in Seq(M), NEW t \in Seq(M), IsInjective(s), IsInjective(t),
           ToSet(s) \cap ToSet(t) = {}
    PROVE  IsInjective(s \o t)
<1>1. SUFFICES ASSUME NEW i \in DOMAIN (s \o t), NEW j \in DOMAIN (s \o t),
                      (s \o t)[i] = (s \o t)[j]
               PROVE  i = j
  BY DEF IsInjective
<1>2. \/ i \in DOMAIN s /\ (s \o t)[i] = s[i]
      \/ \E k \in DOMAIN t : i = Len(s) + k /\ (s \o t)[i] = t[k]
  BY ConcatSplit
<1>3. \/ j \in DOMAIN s /\ (s \o t)[j] = s[j]
      \/ \E k \in DOMAIN t : j = Len(s) + k /\ (s \o t)[j] = t[k]
  BY ConcatSplit
<1>4. \A k \in DOMAIN s, l \in DOMAIN t : s[k] # t[l]
  BY DEF ToSet
<1> QED
  BY <1>1, <1>2, <1>3, <1>4, Zenon DEF IsInjective

LEMMA OrderConcat ==
    ASSUME NEW M, NEW r, NEW s \in Seq(M), NEW t \in Seq(M), InOrder(s, r), InOrder(t, r),
           \A m \in ToSet(s), n \in ToSet(t) : m[1] = r /\ n[1] = r => m[2] < n[2]
    PROVE  InOrder(s \o t, r)
<1> DEFINE u == s \o t
<1>1. SUFFICES ASSUME NEW i \in DOMAIN u, NEW j \in DOMAIN u, i < j, u[i][1] = r, u[j][1] = r
               PROVE  u[i][2] < u[j][2]
  BY DEF InOrder
<1>2. \/ i \in DOMAIN s /\ u[i] = s[i]
      \/ \E k \in DOMAIN t : i = Len(s) + k /\ u[i] = t[k]
  BY ConcatSplit
<1>3. \/ j \in DOMAIN s /\ u[j] = s[j]
      \/ \E k \in DOMAIN t : j = Len(s) + k /\ u[j] = t[k]
  BY ConcatSplit
<1>4. DOMAIN s = 1..Len(s) /\ DOMAIN t = 1..Len(t) /\ Len(s) \in Nat /\ Len(t) \in Nat
  OBVIOUS
<1> HIDE DEF u
<1>5. CASE i \in DOMAIN s /\ u[i] = s[i] /\ j \in DOMAIN s /\ u[j] = s[j]
  BY <1>1, <1>5 DEF InOrder
<1>6. ASSUME i \in DOMAIN s, u[i] = s[i], NEW k \in DOMAIN t, u[j] = t[k]
      PROVE  u[i][2] < u[j][2]
  <2>1. s[i] \in ToSet(s) /\ t[k] \in ToSet(t)
    BY <1>6 DEF ToSet
  <2> QED
    BY <1>1, <1>6, <2>1
<1>7. ASSUME NEW k \in DOMAIN t, i = Len(s) + k, u[i] = t[k], j \in DOMAIN s
      PROVE  FALSE
  BY <1>1, <1>4, <1>7
<1>8. ASSUME NEW k \in DOMAIN t, i = Len(s) + k, u[i] = t[k],
             NEW l \in DOMAIN t, j = Len(s) + l, u[j] = t[l]
      PROVE  u[i][2] < u[j][2]
  <2>1. k < l
    BY <1>1, <1>4, <1>8
  <2> QED
    BY <1>1, <1>8, <2>1 DEF InOrder
<1> QED
  BY <1>2, <1>3, <1>5, <1>6, <1>7, <1>8

LEMMA EmptyTells ==
    /\ ToSet(<<>>) = {} /\ IsInjective(<<>>) /\ \A r : InOrder(<<>>, r)
  BY DEF ToSet, IsInjective, InOrder

LEMMA OneTells ==
    ASSUME NEW m
    PROVE  /\ ToSet(<<m>>) = {m} /\ IsInjective(<<m>>) /\ \A r : InOrder(<<m>>, r)
<1>1. DOMAIN <<m>> = {1} /\ <<m>>[1] = m
  OBVIOUS
<1>2. ToSet(<<m>>) = {m}
  BY <1>1 DEF ToSet
<1>3. IsInjective(<<m>>) /\ \A r : InOrder(<<m>>, r)
  BY <1>1 DEF IsInjective, InOrder
<1> QED
  BY <1>2, <1>3

-----------------------------------------------------------------------------
LEMMA PairTyped ==
    ASSUME NEW S, NEW a \in S, NEW b \in S
    PROVE  <<a>> \in Seq(S) /\ <<a, b>> \in Seq(S) /\ Append(<<a>>, b) = <<a, b>>
<1>1. <<a>> \in Seq(S)
  OBVIOUS
<1>2. PICK s \in Seq(S) : s = Append(<<a>>, b)
  BY <1>1, AppendProperties
<1>3. Len(s) = 2 /\ s[1] = a /\ s[2] = b
  BY <1>1, <1>2
<1>4. <<a, b>> = s
  BY <1>3
<1> QED
  BY <1>1, <1>2, <1>4

\* A summary stands for what it has summarised.
LEMMA CompactedCovers ==
    ASSUME NEW M, NEW t \in Seq(Entries(M))
    PROVE  Compacted(t) \in Seq(Entries(M)) /\ Covers(Compacted(t)) = Covers(t)
<1> DEFINE E == Entries(M)
<1>1. CASE Len(t) < 2
  BY <1>1 DEF Compacted
<1>2. CASE ~(Len(t) < 2)
  <2>1. t # <<>>
    BY <1>2
  <2>2. PICK u \in Seq(E), e \in E : t = Append(u, e)
    BY <2>1, SequenceEmptyOrAppend
  <2>3. Front(t) = u /\ Last(t) = e
    BY <2>2 DEF Front, Last
  <2>4. Covers(u) \in Seq(M) /\ e.of \in Seq(M) /\ Covers(t) = Covers(u) \o e.of
    BY <2>2, CoversTyped, CoversAppend DEF Entries
  <2> DEFINE s == [of |-> Covers(u)]
  <2>5. s \in E /\ s.of = Covers(u)
    BY <2>4 DEF Entries
  <2>6. Compacted(t) = <<s, e>>
    BY <1>2, <2>3 DEF Compacted
  <2> HIDE DEF s, E
  <2>7. <<s>> \in Seq(E) /\ Append(<<s>>, e) = <<s, e>> /\ <<s, e>> \in Seq(E)
    BY <2>2, <2>5, PairTyped
  <2>8. Covers(Append(<<s>>, e)) = Covers(<<s>>) \o e.of /\ Covers(<<s>>) = s.of
    BY <2>2, <2>5, <2>7, CoversAppend, CoversOne DEF E
  <2> QED
    BY <2>4, <2>5, <2>6, <2>7, <2>8 DEF E
<1> QED
  BY <1>1, <1>2

\* At most one checkpoint is known, whose replacement tells what its lineage told.
Faithful(M, known) ==
    /\ \A c \in known : /\ c.source \in Seq(Entries(M)) /\ c.next \in Seq(Entries(M))
                         /\ Covers(c.next) = Covers(c.source)
    /\ \A c, d \in known : c = d

LEMMA PrefixSplits ==
    ASSUME NEW S, NEW s \in Seq(S), NEW t \in Seq(S), IsPrefix(s, t)
    PROVE  SubSeq(t, Len(s) + 1, Len(t)) \in Seq(S) /\ t = s \o SubSeq(t, Len(s) + 1, Len(t))
<1>1. Len(s) <= Len(t) /\ Len(s) \in Nat /\ Len(t) \in Nat
  BY DEF IsPrefix
<1>2. \A i \in 1..Len(s) : s[i] = t[i]
  BY <1>1 DEF IsPrefix
<1> DEFINE u == SubSeq(t, Len(s) + 1, Len(t))
<1>3. u \in Seq(S) /\ Len(u) = Len(t) - Len(s) /\ \A i \in 1..Len(u) : u[i] = t[Len(s) + i]
  BY <1>1
<1> HIDE DEF u
<1>4. /\ s \o u \in Seq(S) /\ Len(s \o u) = Len(t)
      /\ \A i \in 1..Len(s) : (s \o u)[i] = s[i]
      /\ \A i \in 1..Len(u) : (s \o u)[Len(s) + i] = u[i]
  BY <1>1, <1>3, ConcatAt
<1>5. ASSUME NEW i \in 1..Len(t) PROVE t[i] = (s \o u)[i]
  <2>1. CASE i <= Len(s)
    <3>1. i \in 1..Len(s)
      BY <1>1, <2>1
    <3> QED
      BY <3>1, <1>2, <1>4
  <2>2. CASE ~(i <= Len(s))
    <3>1. i - Len(s) \in 1..Len(u) /\ i = Len(s) + (i - Len(s))
      BY <1>1, <1>3, <2>2
    <3>2. PICK j \in 1..Len(u) : i = Len(s) + j
      BY <3>1
    <3> QED
      BY <3>2, <1>3, <1>4
  <2> QED
    BY <2>1, <2>2
<1>6. t = s \o u
  BY <1>4, <1>5, SeqEqual
<1> QED
  BY <1>3, <1>6 DEF u

LEMMA ProjectedCovers ==
    ASSUME NEW M, NEW known, Faithful(M, known), NEW t \in Seq(Entries(M))
    PROVE  Projected(known, t) \in Seq(Entries(M)) /\ Covers(Projected(known, t)) = Covers(t)
<1>1. CASE Applicable(known, t) = {}
  BY <1>1 DEF Projected
<1>2. CASE Applicable(known, t) # {}
  <2>1. PICK c \in known : IsPrefix(c.source, t)
    BY <1>2 DEF Applicable
  <2>2. (CHOOSE d \in known : TRUE) = c
    BY DEF Faithful
  <2> DEFINE u == SubSeq(t, Len(c.source) + 1, Len(t))
             E == Entries(M)
  <2>3. Projected(known, t) = c.next \o u
    BY <1>2, <2>2 DEF Projected
  <2>4. /\ c.source \in Seq(E) /\ c.next \in Seq(E) /\ t \in Seq(E)
        /\ Covers(c.next) = Covers(c.source)
    BY DEF Faithful
  <2>5. u \in Seq(E) /\ t = c.source \o u
    <3> HIDE DEF E
    <3> QED
      BY <2>1, <2>4, PrefixSplits
  <2> HIDE DEF u
  <2>6. Covers(t) = Covers(c.source) \o Covers(u) /\ Covers(c.next \o u) = Covers(c.next) \o Covers(u)
    BY <2>4, <2>5, CoversConcat
  <2>7. c.next \o u \in Seq(E)
    BY <2>4, <2>5, ConcatProperties
  <2> QED
    BY <2>3, <2>4, <2>6, <2>7
<1> QED
  BY <1>1, <1>2

-----------------------------------------------------------------------------
(* The books of a session: where each message is.  A message is told by    *)
(* the transcript, done and not committed, queued, or put aside; none is   *)
(* in two places, and none is lost.                                        *)

Messages == Tasks \X Nat

BooksTyped(told, d, q, aside, counts, acc) ==
    /\ told \in Seq(Messages) /\ d \in [Runs -> Seq(Messages)] /\ q \in [Runs -> Seq(Messages)]
    /\ aside \subseteq Messages /\ counts \in [Runs -> Nat]
    /\ acc \subseteq Runs \X Messages /\ IsFiniteSet(acc)

Once(told, d, q, aside) ==
    /\ IsInjective(told) /\ ToSet(told) \cap aside = {}
    /\ \A r \in Runs :
          /\ IsInjective(d[r]) /\ ToSet(d[r]) \cap ToSet(told) = {} /\ ToSet(d[r]) \cap aside = {}
          /\ IsInjective(q[r]) /\ ToSet(q[r]) \cap ToSet(told) = {} /\ ToSet(q[r]) \cap aside = {}
    /\ \A r, p \in Runs :
          /\ ToSet(d[r]) \cap ToSet(q[p]) = {}
          /\ r # p => ToSet(d[r]) \cap ToSet(d[p]) = {} /\ ToSet(q[r]) \cap ToSet(q[p]) = {}

Whose(d, q) ==
    \A r \in Runs :
        /\ \A m \in ToSet(d[r]) : m[1] \in {None, r}
        /\ \A m \in ToSet(q[r]) : m[1] = None

Ordered(told, d) ==
    \A r \in Runs :
        /\ InOrder(told, r) /\ InOrder(d[r], r)
        /\ \A m \in ToSet(told), n \in ToSet(d[r]) : m[1] = r /\ n[1] = r => m[2] < n[2]

\* A run numbers its messages, and the session the steers it accepts.
Numbered(told, d, q, aside, counts, acc) ==
    /\ \A r \in Runs :
          /\ \A m \in ToSet(told) \cup aside \cup ToSet(d[r]) : m[1] = r => m[2] <= counts[r]
          /\ \A m \in ToSet(told) \cup aside \cup ToSet(d[r]) \cup ToSet(q[r]) :
                m[1] = None => m[2] <= Cardinality(acc)
    /\ \A s \in acc : s[2][1] = None /\ s[2][2] <= Cardinality(acc)

Whole(told, d, q, aside, counts, acc) ==
    /\ \A r \in Runs : \A i \in 1..counts[r] : <<r, i>> \in ToSet(told) \cup aside \cup ToSet(d[r])
    /\ \A s \in acc : s[2] \in ToSet(told) \cup aside \cup ToSet(d[s[1]]) \cup ToSet(q[s[1]])

Books(told, d, q, aside, counts, acc) ==
    /\ BooksTyped(told, d, q, aside, counts, acc)
    /\ Once(told, d, q, aside) /\ Whose(d, q) /\ Ordered(told, d)
    /\ Numbered(told, d, q, aside, counts, acc) /\ Whole(told, d, q, aside, counts, acc)

\* A run writes its next message.
LEMMA Writes ==
    ASSUME NEW told, NEW d, NEW q, NEW aside, NEW counts, NEW acc,
           Books(told, d, q, aside, counts, acc), NEW r \in Runs
    PROVE  Books(told, [d EXCEPT ![r] = @ \o <<<<r, counts[r] + 1>>>>], q, aside,
                 [counts EXCEPT ![r] = @ + 1], acc)
<1>0. PICK n, m, u, e, k : /\ n = counts[r] + 1 /\ m = <<r, n>> /\ u = <<m>>
                           /\ e = [d EXCEPT ![r] = @ \o u]
                           /\ k = [counts EXCEPT ![r] = @ + 1]
  OBVIOUS
<1>1. /\ d \in [Runs -> Seq(Messages)] /\ counts \in [Runs -> Nat] /\ counts[r] \in Nat
      /\ n \in Nat /\ n = counts[r] + 1 /\ m \in Messages /\ m[1] = r /\ m[2] = n /\ r # None
  BY <1>0, LocalRunAssumption DEF Books, BooksTyped, Messages, Tasks, None
<1>2. u \in Seq(Messages) /\ ToSet(u) = {m} /\ IsInjective(u) /\ InOrder(u, r)
  <2>1. u \in Seq(Messages)
    BY <1>0, <1>1
  <2> QED
    BY <1>0, <2>1, OneTells, Zenon
<1>3. /\ e \in [Runs -> Seq(Messages)] /\ e[r] = d[r] \o u /\ d[r] \in Seq(Messages)
      /\ \A p \in Runs : p # r => e[p] = d[p]
  <2>1. d[r] \o u \in Seq(Messages)
    BY <1>1, <1>2
  <2> QED
    BY <1>0, <1>1, <2>1
<1>4. /\ k \in [Runs -> Nat] /\ k[r] = n /\ \A p \in Runs : p # r => k[p] = counts[p]
  BY <1>0, <1>1
<1>5. ToSet(e[r]) = ToSet(d[r]) \cup {m}
  <2>1. ToSet(d[r] \o u) = ToSet(d[r]) \cup ToSet(u)
    BY <1>2, <1>3, ElementsConcat
  <2> QED
    BY <1>2, <1>3, <2>1
<1>6. \A x \in ToSet(told) \cup aside \cup ToSet(d[r]) : x[1] = r => x[2] <= counts[r]
  BY DEF Books, Numbered
<1>7. m \notin ToSet(told) /\ m \notin aside /\ m \notin ToSet(d[r])
  BY <1>1, <1>6
<1>8. \A p \in Runs : m \notin ToSet(q[p]) /\ (p # r => m \notin ToSet(d[p]))
  BY <1>1 DEF Books, Whose
<1>9. IsInjective(e[r])
  <2>1. IsInjective(d[r]) /\ ToSet(d[r]) \cap ToSet(u) = {}
    BY <1>2, <1>7 DEF Books, Once
  <2> QED
    BY <1>2, <1>3, <2>1, InjectiveConcat
<1>10. BooksTyped(told, e, q, aside, k, acc)
  BY <1>3, <1>4 DEF Books, BooksTyped
<1>11. Once(told, e, q, aside)
  <2>1. ASSUME NEW p \in Runs
        PROVE  /\ IsInjective(e[p]) /\ ToSet(e[p]) \cap ToSet(told) = {} /\ ToSet(e[p]) \cap aside = {}
               /\ \A o \in Runs : /\ ToSet(e[p]) \cap ToSet(q[o]) = {}
                                  /\ p # o => ToSet(e[p]) \cap ToSet(e[o]) = {}
    <3>1. CASE p = r
      <4>1. /\ ToSet(d[r]) \cap ToSet(told) = {} /\ ToSet(d[r]) \cap aside = {}
            /\ \A o \in Runs : /\ ToSet(d[r]) \cap ToSet(q[o]) = {}
                               /\ r # o => ToSet(d[r]) \cap ToSet(d[o]) = {}
        BY DEF Books, Once
      <4> QED
        BY <3>1, <4>1, <1>3, <1>5, <1>7, <1>8, <1>9
    <3>2. CASE p # r
      <4>1. /\ IsInjective(d[p]) /\ ToSet(d[p]) \cap ToSet(told) = {} /\ ToSet(d[p]) \cap aside = {}
            /\ \A o \in Runs : /\ ToSet(d[p]) \cap ToSet(q[o]) = {}
                               /\ p # o => ToSet(d[p]) \cap ToSet(d[o]) = {}
        BY DEF Books, Once
      <4> QED
        BY <3>2, <4>1, <1>3, <1>5, <1>8
    <3> QED
      BY <3>1, <3>2
  <2> QED
    BY <2>1 DEF Books, Once
<1>12. Whose(e, q)
  <2>1. \A p \in Runs : /\ \A x \in ToSet(d[p]) : x[1] \in {None, p}
                       /\ \A x \in ToSet(q[p]) : x[1] = None
    BY DEF Books, Whose
  <2>2. \A x \in ToSet(e[r]) : x[1] \in {None, r}
    BY <2>1, <1>1, <1>5
  <2> QED
    BY <2>1, <2>2, <1>3 DEF Whose
<1>13. Ordered(told, e)
  <2>1. InOrder(d[r], r) /\ \A x \in ToSet(d[r]), y \in ToSet(u) : x[1] = r /\ y[1] = r => x[2] < y[2]
    <3>1. \A x \in ToSet(d[r]) : x[1] = r => x[2] < n
      <4>1. \A x \in ToSet(d[r]) : x \in Messages
        BY <1>3 DEF ToSet
      <4> QED
        BY <4>1, <1>1, <1>6 DEF Messages
    <3> QED
      BY <3>1, <1>1, <1>2 DEF Books, Ordered
  <2>2. InOrder(e[r], r)
    BY <2>1, <1>2, <1>3, OrderConcat
  <2>3. \A x \in ToSet(told) : x[1] = r => x[2] < n
    <3>1. \A x \in ToSet(told) : x \in Messages
      BY DEF Books, BooksTyped, ToSet
    <3> QED
      BY <3>1, <1>1, <1>6 DEF Messages
  <2> QED
    BY <1>1, <1>3, <1>5, <2>2, <2>3 DEF Books, Ordered
<1>14. Numbered(told, e, q, aside, k, acc)
  <2>1. \A p \in Runs : \A x \in ToSet(told) \cup aside \cup ToSet(e[p]) : x[1] = p => x[2] <= k[p]
    <3>1. \A x \in ToSet(told) \cup aside \cup ToSet(d[r]) : x \in Messages
      BY <1>3 DEF Books, BooksTyped, ToSet
    <3>2. \A x \in ToSet(told) \cup aside \cup ToSet(d[r]) : x[1] = r => x[2] <= n
      BY <3>1, <1>1, <1>6 DEF Messages
    <3> QED
      <4>1. ASSUME NEW p \in Runs, p # r, NEW x \in ToSet(told) \cup aside \cup ToSet(d[p]), x[1] = p
            PROVE  x[2] <= counts[p]
        BY <4>1 DEF Books, Numbered
      <4>2. ASSUME NEW x \in ToSet(told) \cup aside \cup ToSet(e[r]), x[1] = r
            PROVE  x[2] <= n
        BY <1>1, <1>5, <3>2, <4>2
      <4> QED
        BY <1>3, <1>4, <4>1, <4>2
  <2>2. \A p \in Runs : \A x \in ToSet(told) \cup aside \cup ToSet(e[p]) \cup ToSet(q[p]) :
            x[1] = None => x[2] <= Cardinality(acc)
    BY <1>1, <1>3, <1>5 DEF Books, Numbered
  <2> QED
    BY <2>1, <2>2 DEF Books, Numbered
<1>15. Whole(told, e, q, aside, k, acc)
  <2>1. ASSUME NEW i \in 1..k[r] PROVE <<r, i>> \in ToSet(told) \cup aside \cup ToSet(e[r])
    <3>1. CASE i = n
      <4>1. <<r, i>> = m
        BY <3>1, <1>0
      <4> QED
        BY <4>1, <1>5
    <3>2. CASE i # n
      <4>1. i \in 1..counts[r]
        BY <3>2, <1>1, <1>4
      <4> QED
        BY <4>1, <1>5 DEF Books, Whole
    <3> QED
      BY <3>1, <3>2
  <2>2. \A p \in Runs : ToSet(d[p]) \subseteq ToSet(e[p])
    BY <1>3, <1>5
  <2> QED
    BY <1>3, <1>4, <2>1, <2>2 DEF Books, Whole, BooksTyped
<1> QED
  BY <1>0, <1>10, <1>11, <1>12, <1>13, <1>14, <1>15 DEF Books

\* A run takes what is queued for it.
LEMMA Takes ==
    ASSUME NEW told, NEW d, NEW q, NEW aside, NEW counts, NEW acc,
           Books(told, d, q, aside, counts, acc), NEW r \in Runs
    PROVE  Books(told, [d EXCEPT ![r] = @ \o q[r]], [q EXCEPT ![r] = <<>>], aside, counts, acc)
<1>0. PICK e, p : e = [d EXCEPT ![r] = @ \o q[r]] /\ p = [q EXCEPT ![r] = <<>>]
  OBVIOUS
<1>1. /\ d \in [Runs -> Seq(Messages)] /\ q \in [Runs -> Seq(Messages)]
      /\ d[r] \in Seq(Messages) /\ q[r] \in Seq(Messages) /\ <<>> \in Seq(Messages)
  BY DEF Books, BooksTyped
<1>2. /\ e \in [Runs -> Seq(Messages)] /\ e[r] = d[r] \o q[r]
      /\ \A o \in Runs : o # r => e[o] = d[o]
  <2>1. d[r] \o q[r] \in Seq(Messages)
    BY <1>1
  <2> QED
    BY <1>0, <1>1, <2>1
<1>3. /\ p \in [Runs -> Seq(Messages)] /\ p[r] = <<>>
      /\ \A o \in Runs : o # r => p[o] = q[o]
  BY <1>0, <1>1
<1>4. ToSet(e[r]) = ToSet(d[r]) \cup ToSet(q[r])
  BY <1>1, <1>2, ElementsConcat
<1>5. ToSet(p[r]) = {} /\ IsInjective(p[r])
  BY <1>3, EmptyTells
<1>6. /\ IsInjective(told) /\ ToSet(told) \cap aside = {}
      /\ \A o \in Runs :
          /\ IsInjective(d[o]) /\ ToSet(d[o]) \cap ToSet(told) = {} /\ ToSet(d[o]) \cap aside = {}
          /\ IsInjective(q[o]) /\ ToSet(q[o]) \cap ToSet(told) = {} /\ ToSet(q[o]) \cap aside = {}
  BY DEF Books, Once
<1>7. \A o, w \in Runs :
          /\ ToSet(d[o]) \cap ToSet(q[w]) = {}
          /\ o # w => ToSet(d[o]) \cap ToSet(d[w]) = {} /\ ToSet(q[o]) \cap ToSet(q[w]) = {}
  BY DEF Books, Once
<1>8. IsInjective(e[r])
  <2>1. IsInjective(d[r]) /\ IsInjective(q[r]) /\ ToSet(d[r]) \cap ToSet(q[r]) = {}
    BY <1>6, <1>7
  <2> QED
    BY <1>1, <1>2, <2>1, InjectiveConcat
<1>9. \A o \in Runs : /\ \A m \in ToSet(d[o]) : m[1] \in {None, o}
                      /\ \A m \in ToSet(q[o]) : m[1] = None
  BY DEF Books, Whose
<1>10. BooksTyped(told, e, p, aside, counts, acc)
  BY <1>2, <1>3 DEF Books, BooksTyped
<1>11. Once(told, e, p, aside)
  <2>1. ASSUME NEW o \in Runs
        PROVE  /\ IsInjective(e[o]) /\ ToSet(e[o]) \cap ToSet(told) = {} /\ ToSet(e[o]) \cap aside = {}
               /\ IsInjective(p[o]) /\ ToSet(p[o]) \cap ToSet(told) = {} /\ ToSet(p[o]) \cap aside = {}
    BY <1>2, <1>3, <1>4, <1>5, <1>6, <1>8
  <2>2. ASSUME NEW o \in Runs, NEW w \in Runs
        PROVE  /\ ToSet(e[o]) \cap ToSet(p[w]) = {}
               /\ o # w => ToSet(e[o]) \cap ToSet(e[w]) = {} /\ ToSet(p[o]) \cap ToSet(p[w]) = {}
    <3>1. ToSet(e[o]) \cap ToSet(p[w]) = {}
      <4>1. CASE w = r
        BY <4>1, <1>5
      <4>2. CASE w # r /\ o = r
        BY <4>2, <1>3, <1>4, <1>7
      <4>3. CASE w # r /\ o # r
        BY <4>3, <1>2, <1>3, <1>7
      <4> QED
        BY <4>1, <4>2, <4>3
    <3>2. o # w => ToSet(e[o]) \cap ToSet(e[w]) = {}
      <4>1. CASE o = r
        BY <4>1, <1>2, <1>4, <1>7
      <4>2. CASE w = r
        BY <4>2, <1>2, <1>4, <1>7
      <4>3. CASE w # r /\ o # r
        BY <4>3, <1>2, <1>7
      <4> QED
        BY <4>1, <4>2, <4>3
    <3>3. o # w => ToSet(p[o]) \cap ToSet(p[w]) = {}
      BY <1>3, <1>5, <1>7
    <3> QED
      BY <3>1, <3>2, <3>3
  <2> QED
    BY <1>6, <2>1, <2>2 DEF Once
<1>12. Whose(e, p)
  <2>1. \A m \in ToSet(e[r]) : m[1] \in {None, r}
    BY <1>4, <1>9
  <2> QED
    BY <1>2, <1>3, <1>5, <1>9, <2>1 DEF Whose
<1>13. Ordered(told, e)
  <2>1. \A m \in ToSet(q[r]) : m[1] # r
    BY <1>9, LocalRunAssumption DEF None
  <2>2. InOrder(d[r], r)
    BY DEF Books, Ordered
  <2>3. InOrder(q[r], r)
    BY <2>1 DEF InOrder, ToSet
  <2>4. \A m \in ToSet(d[r]), n \in ToSet(q[r]) : m[1] = r /\ n[1] = r => m[2] < n[2]
    BY <2>1
  <2>5. InOrder(e[r], r)
    BY <1>1, <1>2, <2>2, <2>3, <2>4, OrderConcat
  <2>6. \A m \in ToSet(told), n \in ToSet(e[r]) : m[1] = r /\ n[1] = r => m[2] < n[2]
    BY <1>4, <2>1 DEF Books, Ordered
  <2> QED
    BY <1>2, <2>5, <2>6 DEF Books, Ordered
<1>14. Numbered(told, e, p, aside, counts, acc)
  <2>1. \A m \in ToSet(q[r]) : m[1] # r
    BY <1>9, LocalRunAssumption DEF None
  <2>2. ASSUME NEW o \in Runs, NEW m \in ToSet(told) \cup aside \cup ToSet(e[o]), m[1] = o
        PROVE  m[2] <= counts[o]
    <3>1. m \in ToSet(told) \cup aside \cup ToSet(d[o])
      BY <2>1, <2>2, <1>2, <1>4
    <3> QED
      BY <2>2, <3>1 DEF Books, Numbered
  <2>3. ASSUME NEW o \in Runs, NEW m \in ToSet(told) \cup aside \cup ToSet(e[o]) \cup ToSet(p[o]),
               m[1] = None
        PROVE  m[2] <= Cardinality(acc)
    <3>1. m \in ToSet(told) \cup aside \cup ToSet(d[o]) \cup ToSet(q[o])
      BY <2>3, <1>2, <1>3, <1>4, <1>5
    <3> QED
      BY <2>3, <3>1 DEF Books, Numbered
  <2> QED
    BY <2>2, <2>3 DEF Books, Numbered
<1>15. Whole(told, e, p, aside, counts, acc)
  <2>1. \A o \in Runs : ToSet(d[o]) \subseteq ToSet(e[o]) /\ ToSet(q[o]) \subseteq ToSet(e[o]) \cup ToSet(p[o])
    BY <1>2, <1>3, <1>4
  <2>2. \A s \in acc : s[1] \in Runs
    BY DEF Books, BooksTyped
  <2>3. \A o \in Runs : \A i \in 1..counts[o] : <<o, i>> \in ToSet(told) \cup aside \cup ToSet(e[o])
    BY <2>1 DEF Books, Whole
  <2>4. \A s \in acc : s[2] \in ToSet(told) \cup aside \cup ToSet(e[s[1]]) \cup ToSet(p[s[1]])
    BY <2>1, <2>2 DEF Books, Whole
  <2> QED
    BY <2>3, <2>4 DEF Whole
<1> QED
  BY <1>0, <1>10, <1>11, <1>12, <1>13, <1>14, <1>15 DEF Books

\* What a run has done goes to the transcript.
LEMMA Tells ==
    ASSUME NEW told, NEW d, NEW q, NEW aside, NEW counts, NEW acc,
           Books(told, d, q, aside, counts, acc), NEW r \in Runs
    PROVE  Books(told \o d[r], [d EXCEPT ![r] = <<>>], q, aside, counts, acc)
<1>0. PICK t, e : t = told \o d[r] /\ e = [d EXCEPT ![r] = <<>>]
  OBVIOUS
<1>1. /\ told \in Seq(Messages) /\ d \in [Runs -> Seq(Messages)] /\ d[r] \in Seq(Messages)
      /\ <<>> \in Seq(Messages)
  BY DEF Books, BooksTyped
<1>2. t \in Seq(Messages)
  BY <1>0, <1>1
<1>3. /\ e \in [Runs -> Seq(Messages)] /\ e[r] = <<>>
      /\ \A o \in Runs : o # r => e[o] = d[o]
  BY <1>0, <1>1
<1>4. ToSet(t) = ToSet(told) \cup ToSet(d[r])
  BY <1>0, <1>1, ElementsConcat
<1>5. ToSet(e[r]) = {} /\ IsInjective(e[r]) /\ InOrder(e[r], r)
  BY <1>3, EmptyTells
<1>6. /\ IsInjective(told) /\ ToSet(told) \cap aside = {}
      /\ \A o \in Runs :
          /\ IsInjective(d[o]) /\ ToSet(d[o]) \cap ToSet(told) = {} /\ ToSet(d[o]) \cap aside = {}
          /\ IsInjective(q[o]) /\ ToSet(q[o]) \cap ToSet(told) = {} /\ ToSet(q[o]) \cap aside = {}
  BY DEF Books, Once
<1>7. \A o, w \in Runs :
          /\ ToSet(d[o]) \cap ToSet(q[w]) = {}
          /\ o # w => ToSet(d[o]) \cap ToSet(d[w]) = {} /\ ToSet(q[o]) \cap ToSet(q[w]) = {}
  BY DEF Books, Once
<1>8. IsInjective(t) /\ ToSet(t) \cap aside = {}
  <2>1. IsInjective(told) /\ IsInjective(d[r]) /\ ToSet(told) \cap ToSet(d[r]) = {}
    BY <1>6
  <2>2. IsInjective(t)
    BY <1>0, <1>1, <2>1, InjectiveConcat
  <2> QED
    BY <2>2, <1>4, <1>6
<1>9. \A o \in Runs : /\ \A m \in ToSet(d[o]) : m[1] \in {None, o}
                      /\ \A m \in ToSet(q[o]) : m[1] = None
  BY DEF Books, Whose
<1>10. BooksTyped(t, e, q, aside, counts, acc)
  BY <1>2, <1>3 DEF Books, BooksTyped
<1>11. Once(t, e, q, aside)
  <2>1. ASSUME NEW o \in Runs
        PROVE  /\ IsInjective(e[o]) /\ ToSet(e[o]) \cap ToSet(t) = {} /\ ToSet(e[o]) \cap aside = {}
               /\ IsInjective(q[o]) /\ ToSet(q[o]) \cap ToSet(t) = {} /\ ToSet(q[o]) \cap aside = {}
    <3>1. IsInjective(q[o]) /\ ToSet(q[o]) \cap ToSet(t) = {} /\ ToSet(q[o]) \cap aside = {}
      BY <1>4, <1>6, <1>7
    <3>2. CASE o = r
      BY <3>1, <3>2, <1>5
    <3>3. CASE o # r
      BY <3>1, <3>3, <1>3, <1>4, <1>6, <1>7
    <3> QED
      BY <3>2, <3>3
  <2>2. ASSUME NEW o \in Runs, NEW w \in Runs
        PROVE  /\ ToSet(e[o]) \cap ToSet(q[w]) = {}
               /\ o # w => ToSet(e[o]) \cap ToSet(e[w]) = {} /\ ToSet(q[o]) \cap ToSet(q[w]) = {}
    BY <1>3, <1>5, <1>7
  <2> QED
    BY <1>8, <2>1, <2>2 DEF Once
<1>12. Whose(e, q)
  BY <1>3, <1>5, <1>9 DEF Whose
<1>13. Ordered(t, e)
  <2>1. ASSUME NEW o \in Runs PROVE InOrder(t, o)
    <3>1. InOrder(told, o) /\ \A m \in ToSet(told), n \in ToSet(d[o]) :
                                 m[1] = o /\ n[1] = o => m[2] < n[2]
      BY DEF Books, Ordered
    <3>2. CASE o = r
      <4>1. InOrder(d[r], r)
        BY DEF Books, Ordered
      <4> QED
        BY <1>0, <1>1, <3>1, <3>2, <4>1, OrderConcat
    <3>3. CASE o # r
      <4>1. \A m \in ToSet(d[r]) : m[1] # o
        BY <1>9, <3>3, LocalRunAssumption DEF None
      <4>2. InOrder(d[r], o)
        BY <4>1 DEF InOrder, ToSet
      <4>3. \A m \in ToSet(told), n \in ToSet(d[r]) : m[1] = o /\ n[1] = o => m[2] < n[2]
        BY <4>1
      <4> QED
        BY <1>0, <1>1, <3>1, <4>2, <4>3, OrderConcat
    <3> QED
      BY <3>2, <3>3
  <2>2. ASSUME NEW o \in Runs, NEW m \in ToSet(t), NEW n \in ToSet(e[o]), m[1] = o, n[1] = o
        PROVE  m[2] < n[2]
    <3>1. o # r /\ n \in ToSet(d[o])
      BY <1>3, <1>5, <2>2
    <3>2. m \in ToSet(told)
      BY <2>2, <3>1, <1>4, <1>9, LocalRunAssumption DEF None
    <3> QED
      BY <2>2, <3>1, <3>2 DEF Books, Ordered
  <2>3. \A o \in Runs : InOrder(e[o], o)
    BY <1>3, <1>5 DEF Books, Ordered
  <2> QED
    BY <2>1, <2>2, <2>3 DEF Ordered
<1>14. Numbered(t, e, q, aside, counts, acc)
  <2>1. ASSUME NEW o \in Runs, NEW m \in ToSet(t) \cup aside \cup ToSet(e[o]), m[1] = o
        PROVE  m[2] <= counts[o]
    <3>1. m \in ToSet(told) \cup aside \cup ToSet(d[o])
      <4>1. m \in ToSet(d[r]) => o = r
        BY <2>1, <1>9, LocalRunAssumption DEF None
      <4> QED
        BY <4>1, <1>3, <1>4, <1>5
    <3> QED
      BY <2>1, <3>1 DEF Books, Numbered
  <2>2. ASSUME NEW o \in Runs, NEW m \in ToSet(t) \cup aside \cup ToSet(e[o]) \cup ToSet(q[o]),
               m[1] = None
        PROVE  m[2] <= Cardinality(acc)
    <3>1. \E w \in Runs : m \in ToSet(told) \cup aside \cup ToSet(d[w]) \cup ToSet(q[w])
      BY <1>3, <1>4, <1>5
    <3> QED
      BY <2>2, <3>1 DEF Books, Numbered
  <2> QED
    BY <2>1, <2>2 DEF Books, Numbered
<1>15. Whole(t, e, q, aside, counts, acc)
  <2>1. \A o \in Runs : ToSet(told) \cup ToSet(d[o]) \subseteq ToSet(t) \cup ToSet(e[o])
    BY <1>3, <1>4
  <2>2. \A s \in acc : s[1] \in Runs
    BY DEF Books, BooksTyped
  <2>3. \A o \in Runs : \A i \in 1..counts[o] : <<o, i>> \in ToSet(t) \cup aside \cup ToSet(e[o])
    BY <2>1 DEF Books, Whole
  <2>4. \A s \in acc : s[2] \in ToSet(t) \cup aside \cup ToSet(e[s[1]]) \cup ToSet(q[s[1]])
    BY <2>1, <2>2 DEF Books, Whole
  <2> QED
    BY <2>3, <2>4 DEF Whole
<1> QED
  BY <1>0, <1>10, <1>11, <1>12, <1>13, <1>14, <1>15 DEF Books

\* A fresh plan puts aside what the transcript tells.
LEMMA PutsAside ==
    ASSUME NEW told, NEW d, NEW q, NEW aside, NEW counts, NEW acc,
           Books(told, d, q, aside, counts, acc)
    PROVE  Books(<<>>, d, q, aside \cup ToSet(told), counts, acc)
<1>0. PICK t, b : t = <<>> /\ b = aside \cup ToSet(told)
  OBVIOUS
<1>1. t \in Seq(Messages) /\ ToSet(t) = {} /\ IsInjective(t) /\ \A r : InOrder(t, r)
  BY <1>0, EmptyTells
<1>2. ToSet(t) \cup b = ToSet(told) \cup aside /\ b \subseteq Messages
  <2>1. told \in Seq(Messages) /\ aside \subseteq Messages
    BY DEF Books, BooksTyped
  <2>2. ToSet(told) \subseteq Messages
    BY <2>1 DEF ToSet
  <2> QED
    BY <1>0, <1>1, <2>1, <2>2
<1>3. BooksTyped(t, d, q, b, counts, acc)
  BY <1>1, <1>2 DEF Books, BooksTyped
<1>4. Once(t, d, q, b)
  BY <1>0, <1>1 DEF Books, Once
<1>5. Whose(d, q) /\ Ordered(t, d)
  BY <1>1 DEF Books, Ordered
<1>6. Numbered(t, d, q, b, counts, acc)
  BY <1>2 DEF Books, Numbered
<1>7. Whole(t, d, q, b, counts, acc)
  BY <1>2 DEF Books, Whole
<1> QED
  BY <1>0, <1>3, <1>4, <1>5, <1>6, <1>7 DEF Books

\* The session accepts a steer for a run.
LEMMA Accepts ==
    ASSUME NEW told, NEW d, NEW q, NEW aside, NEW counts, NEW acc,
           Books(told, d, q, aside, counts, acc), NEW r \in Runs, NEW s,
           s = <<None, Cardinality(acc) + 1>>
    PROVE  Books(told, d, [q EXCEPT ![r] = @ \o <<s>>], aside, counts, acc \cup {<<r, s>>})
<1>0. PICK u, p, x, b, n : /\ u = <<s>> /\ p = [q EXCEPT ![r] = @ \o u]
                           /\ x = <<r, s>> /\ b = acc \cup {x} /\ n = Cardinality(acc)
  OBVIOUS
<1>1. /\ IsFiniteSet(acc) /\ n \in Nat /\ s \in Messages /\ s[1] = None /\ s[2] = n + 1
      /\ x \in Runs \X Messages /\ x[1] = r /\ x[2] = s
  <2>1. IsFiniteSet(acc) /\ n \in Nat
    BY <1>0, FS_CardinalityType DEF Books, BooksTyped
  <2> QED
    BY <2>1, <1>0 DEF Messages, Tasks, None, Compaction
<1>2. u \in Seq(Messages) /\ ToSet(u) = {s} /\ IsInjective(u)
  <2>1. u \in Seq(Messages)
    BY <1>0, <1>1
  <2> QED
    BY <1>0, <2>1, OneTells, Zenon
<1>3. q \in [Runs -> Seq(Messages)] /\ q[r] \in Seq(Messages)
  BY DEF Books, BooksTyped
<1>4. /\ p \in [Runs -> Seq(Messages)] /\ p[r] = q[r] \o u
      /\ \A o \in Runs : o # r => p[o] = q[o]
  <2>1. q[r] \o u \in Seq(Messages)
    BY <1>2, <1>3
  <2> QED
    BY <1>0, <1>3, <2>1
<1>5. ToSet(p[r]) = ToSet(q[r]) \cup {s}
  <2>1. ToSet(q[r] \o u) = ToSet(q[r]) \cup ToSet(u)
    BY <1>2, <1>3, ElementsConcat
  <2> QED
    BY <1>2, <1>4, <2>1
<1>6. /\ \A o \in Runs : \A m \in ToSet(told) \cup aside \cup ToSet(d[o]) \cup ToSet(q[o]) :
             m[1] = None => m[2] <= n
      /\ \A y \in acc : y[2][1] = None /\ y[2][2] <= n
  BY <1>0 DEF Books, Numbered
<1>7. /\ s \notin ToSet(told) /\ s \notin aside /\ x \notin acc
      /\ \A o \in Runs : s \notin ToSet(d[o]) /\ s \notin ToSet(q[o])
  BY <1>1, <1>6
<1>8. IsFiniteSet(b) /\ Cardinality(b) = n + 1
  BY <1>0, <1>1, <1>7, FS_AddElement
<1>9. IsInjective(p[r])
  <2>1. IsInjective(q[r]) /\ ToSet(q[r]) \cap ToSet(u) = {}
    BY <1>2, <1>7 DEF Books, Once
  <2> QED
    BY <1>2, <1>3, <1>4, <2>1, InjectiveConcat
<1>10. BooksTyped(told, d, p, aside, counts, b)
  BY <1>0, <1>1, <1>4, <1>8 DEF Books, BooksTyped
<1>11. Once(told, d, p, aside)
  <2>1. ASSUME NEW o \in Runs
        PROVE  /\ IsInjective(p[o]) /\ ToSet(p[o]) \cap ToSet(told) = {} /\ ToSet(p[o]) \cap aside = {}
               /\ \A w \in Runs : /\ ToSet(d[w]) \cap ToSet(p[o]) = {}
                                  /\ o # w => ToSet(p[o]) \cap ToSet(p[w]) = {}
    <3>1. /\ IsInjective(q[o]) /\ ToSet(q[o]) \cap ToSet(told) = {} /\ ToSet(q[o]) \cap aside = {}
          /\ \A w \in Runs : /\ ToSet(d[w]) \cap ToSet(q[o]) = {}
                             /\ o # w => ToSet(q[o]) \cap ToSet(q[w]) = {}
      BY DEF Books, Once
    <3>2. CASE o = r
      BY <3>1, <3>2, <1>4, <1>5, <1>7, <1>9
    <3>3. CASE o # r
      BY <3>1, <3>3, <1>4, <1>5, <1>7
    <3> QED
      BY <3>2, <3>3
  <2> QED
    BY <2>1 DEF Books, Once
<1>12. Whose(d, p)
  <2>1. \A o \in Runs : /\ \A m \in ToSet(d[o]) : m[1] \in {None, o}
                        /\ \A m \in ToSet(q[o]) : m[1] = None
    BY DEF Books, Whose
  <2>2. \A m \in ToSet(p[r]) : m[1] = None
    BY <2>1, <1>1, <1>5
  <2> QED
    BY <2>1, <2>2, <1>4 DEF Whose
<1>13. Numbered(told, d, p, aside, counts, b)
  <2>1. ASSUME NEW m \in Messages, m[2] <= n PROVE m[2] <= n + 1
    BY <2>1, <1>1 DEF Messages
  <2>2. ASSUME NEW o \in Runs, NEW m \in ToSet(told) \cup aside \cup ToSet(d[o]) \cup ToSet(p[o]),
               m[1] = None
        PROVE  m[2] <= n + 1
    <3>1. m = s \/ m \in ToSet(told) \cup aside \cup ToSet(d[o]) \cup ToSet(q[o])
      BY <1>4, <1>5
    <3>2. CASE m = s
      BY <3>2, <1>1
    <3>3. CASE m \in ToSet(told) \cup aside \cup ToSet(d[o]) \cup ToSet(q[o])
      <4>1. m[2] <= n
        BY <2>2, <3>3, <1>6
      <4>2. m \in Messages
        BY <3>3 DEF Books, BooksTyped, ToSet
      <4> QED
        BY <4>1, <4>2, <2>1
    <3> QED
      BY <3>1, <3>2, <3>3
  <2>3. ASSUME NEW y \in b PROVE y[2][1] = None /\ y[2][2] <= n + 1
    <3>1. CASE y = x
      BY <3>1, <1>1
    <3>2. CASE y \in acc
      <4>1. y[2] \in Messages
        BY <3>2 DEF Books, BooksTyped
      <4> QED
        BY <3>2, <4>1, <1>6, <2>1
    <3> QED
      BY <3>1, <3>2, <1>0
  <2>4. \A o \in Runs : \A m \in ToSet(told) \cup aside \cup ToSet(d[o]) : m[1] = o => m[2] <= counts[o]
    BY DEF Books, Numbered
  <2> QED
    BY <1>8, <2>2, <2>3, <2>4 DEF Numbered
<1>14. Whole(told, d, p, aside, counts, b)
  <2>1. \A o \in Runs : ToSet(q[o]) \subseteq ToSet(p[o])
    BY <1>4, <1>5
  <2>2. \A y \in acc : y[1] \in Runs
    BY DEF Books, BooksTyped
  <2>3. \A y \in b : y[2] \in ToSet(told) \cup aside \cup ToSet(d[y[1]]) \cup ToSet(p[y[1]])
    <3>1. \A y \in acc : y[2] \in ToSet(told) \cup aside \cup ToSet(d[y[1]]) \cup ToSet(p[y[1]])
      BY <2>1, <2>2 DEF Books, Whole
    <3>2. x[2] \in ToSet(p[x[1]])
      BY <1>1, <1>5
    <3> QED
      BY <1>0, <3>1, <3>2
  <2> QED
    BY <2>3 DEF Books, Whole
<1> QED
  BY <1>0, <1>10, <1>11, <1>12, <1>13, <1>14 DEF Books

\* A run that has nothing uncommitted writes to the transcript itself.
LEMMA Marks ==
    ASSUME NEW told, NEW d, NEW q, NEW aside, NEW counts, NEW acc,
           Books(told, d, q, aside, counts, acc), NEW r \in Runs, d[r] = <<>>
    PROVE  Books(told \o <<<<r, counts[r] + 1>>>>, d, q, aside, [counts EXCEPT ![r] = @ + 1], acc)
<1>0. PICK u, e, f, k : /\ u = <<<<r, counts[r] + 1>>>> /\ e = [d EXCEPT ![r] = @ \o u]
                        /\ k = [counts EXCEPT ![r] = @ + 1] /\ f = [e EXCEPT ![r] = <<>>]
  OBVIOUS
<1>1. d \in [Runs -> Seq(Messages)] /\ u \in Seq(Messages)
  <2>1. <<r, counts[r] + 1>> \in Messages
    BY DEF Books, BooksTyped, Messages, Tasks
  <2> QED
    BY <1>0, <2>1 DEF Books, BooksTyped
<1>2. Books(told, e, q, aside, k, acc)
  BY <1>0, Writes
<1>3. <<>> \o u = u
  BY <1>1
<1>4. e[r] = u /\ f = d
  BY <1>0, <1>1, <1>3
<1>5. Books(told \o e[r], f, q, aside, k, acc)
  <2>1. Books(told \o e[r], [e EXCEPT ![r] = <<>>], q, aside, k, acc)
    BY <1>2, Tells
  <2> QED
    BY <1>0, <2>1
<1> QED
  BY <1>0, <1>4, <1>5

-----------------------------------------------------------------------------
(* The transcript of a session, and what its runs have done                *)

Transcripts == Seq(Entries(Messages))
Checkpoints == {known \in SUBSET [source : Transcripts, next : Transcripts] :
                    Faithful(Messages, known)}

Shapes ==
    /\ transcript \in Transcripts /\ source \in Transcripts
    /\ live \in [Runs -> Transcripts] /\ done \in [Runs -> Transcripts]
    /\ queue \in [Runs -> Transcripts] /\ checkpoint \in [Runs -> Checkpoints]

\* What is queued has not been summarised.
Steered ==
    /\ steering \in Runs \cup {None}
    /\ command.at = "push" => command.run \in Runs
    /\ \A r \in Runs : \A m \in ToSet(Covers(queue[r])) : Raw(m) \in ToSet(queue[r])

\* A run has nothing uncommitted before its loop, after it has been told, and
\* once it has completed.
Settles(r) == \/ phase[r] \in {"none", "opening", "finishing", "over"}
              \/ phase[r] = "ended" /\ result[r] = "Completed"
Emptied == \A r \in Runs : Settles(r) => done[r] = <<>>

Of(f) == [r \in Runs |-> Covers(f[r])]
InBooks == Books(Told, Of(done), Of(queue), cleared, made, accepted)

TranscriptInv == Shapes /\ Steered /\ Emptied /\ InBooks

LEMMA OfAt ==
    ASSUME NEW f \in [Runs -> Transcripts], NEW r \in Runs
    PROVE  /\ Of(f)[r] = Covers(f[r]) /\ Covers(f[r]) \in Seq(Messages)
           /\ Of(f) \in [Runs -> Seq(Messages)]
           /\ \A t : Of([f EXCEPT ![r] = t]) = [Of(f) EXCEPT ![r] = Covers(t)]
<1>1. \A p \in Runs : Covers(f[p]) \in Seq(Messages)
  BY CoversTyped DEF Transcripts
<1>2. ASSUME NEW t PROVE Of([f EXCEPT ![r] = t]) = [Of(f) EXCEPT ![r] = Covers(t)]
  BY DEF Of
<1> QED
  BY <1>1, <1>2 DEF Of

LEMMA ConcatCovers ==
    ASSUME NEW s \in Transcripts, NEW t \in Transcripts
    PROVE  s \o t \in Transcripts /\ Covers(s \o t) = Covers(s) \o Covers(t)
  BY CoversConcat, ConcatProperties DEF Transcripts

LEMMA CommitTells ==
    ASSUME transcript \in Transcripts, NEW known \in Checkpoints, NEW t \in Transcripts
    PROVE  Commit(known, t) \in Transcripts /\ Covers(Commit(known, t)) = Told \o Covers(t)
<1>1. transcript \o t \in Transcripts /\ Covers(transcript \o t) = Told \o Covers(t)
  BY ConcatCovers DEF Told
<1>2. Faithful(Messages, known)
  BY DEF Checkpoints
<1> QED
  BY <1>1, <1>2, ProjectedCovers DEF Commit, Transcripts

LEMMA NextOwn ==
    ASSUME made \in [Runs -> Nat], NEW r \in Runs
    PROVE  /\ Own(r, 1) \in Transcripts /\ Covers(Own(r, 1)) = <<<<r, made[r] + 1>>>>
           /\ Len(Own(r, 1)) = 1
<1> DEFINE m == <<r, made[r] + 1>>
           e == Raw(m)
<1>1. Own(r, 1) = <<e>>
  BY DEF Own
<1>2. <<m>> \in Seq(Messages)
  BY DEF Messages, Tasks
<1>3. e \in Entries(Messages) /\ e.of = <<m>>
  BY <1>2 DEF Raw, Entries
<1> HIDE DEF e
<1>4. <<e>> \in Seq(Entries(Messages)) /\ Len(<<e>>) = 1
  BY <1>3
<1>5. Covers(<<e>>) = e.of
  BY <1>3, CoversOne
<1> QED
  BY <1>1, <1>3, <1>4, <1>5 DEF Transcripts

LEMMA InitTranscript == Init => TranscriptInv
<1> SUFFICES ASSUME Init PROVE TranscriptInv
  OBVIOUS
<1>1. <<>> \in Transcripts /\ {} \in Checkpoints
  BY DEF Transcripts, Checkpoints, Faithful
<1>2. Shapes
  BY <1>1 DEF Init, Shapes, NoCheckpoint
<1>3. Steered /\ Emptied
  BY CoversEmpty, EmptyTells DEF Init, Steered, Emptied
<1> DEFINE d == [r \in Runs |-> <<>>]
           k == [r \in Runs |-> 0]
<1>4. Told = <<>> /\ Of(done) = d /\ Of(queue) = d /\ cleared = {} /\ made = k /\ accepted = {}
  BY CoversEmpty DEF Init, Told, Of
<1>5. /\ <<>> \in Seq(Messages) /\ ToSet(<<>>) = {} /\ IsInjective(<<>>) /\ \A r : InOrder(<<>>, r)
  BY EmptyTells
<1>6. BooksTyped(<<>>, d, d, {}, k, {})
  BY <1>5, FS_EmptySet DEF BooksTyped
<1>7. Once(<<>>, d, d, {}) /\ Whose(d, d) /\ Ordered(<<>>, d)
  BY <1>5 DEF Once, Whose, Ordered
<1>8. Numbered(<<>>, d, d, {}, k, {}) /\ Whole(<<>>, d, d, {}, k, {})
  BY <1>5 DEF Numbered, Whole
<1> HIDE DEF d, k
<1> QED
  BY <1>2, <1>3, <1>4, <1>6, <1>7, <1>8 DEF TranscriptInv, InBooks, Books

-----------------------------------------------------------------------------
\* A step that leaves the books alone.
BooksAlone == UNCHANGED <<transcript, done, queue, made, accepted, cleared>>

LEMMA Rests ==
    ASSUME TranscriptInv, BooksAlone, Shapes', Emptied', steering' \in Runs \cup {None},
           command'.at = "push" => command'.run \in Runs
    PROVE  TranscriptInv'
<1>1. Steered'
  BY DEF TranscriptInv, Steered, BooksAlone
<1>2. InBooks'
  BY DEF TranscriptInv, InBooks, BooksAlone, Told, Of
<1> QED
  BY <1>1, <1>2 DEF TranscriptInv

\* Only one task moves, and only its run can have something new to commit.
LEMMA OthersEmptied ==
    ASSUME GateInv, Emptied, NEW t \in Tasks, NEW label,
           phase' = [phase EXCEPT ![t] = label],
           \A p \in Runs \ {t} : done'[p] = done[p] /\ result'[p] = result[p],
           t \in Runs => (Settles(t)' => done'[t] = <<>>)
    PROVE  Emptied'
<1>1. ASSUME NEW p \in Runs, Settles(p)' PROVE done'[p] = <<>>
  <2>1. CASE p = t
    BY <1>1, <2>1
  <2>2. CASE p # t
    <3>1. phase'[p] = phase[p] /\ done'[p] = done[p] /\ result'[p] = result[p]
      BY <2>2 DEF GateInv, GateTypeOK, Tasks
    <3>2. Settles(p)
      BY <1>1, <3>1 DEF Settles
    <3> QED
      BY <3>1, <3>2 DEF Emptied
  <2> QED
    BY <2>1, <2>2
<1> QED
  BY <1>1 DEF Emptied

LEMMA SameEmptied ==
    ASSUME Emptied, UNCHANGED <<done, result>>, \A r \in Runs : phase'[r] = phase[r]
    PROVE  Emptied'
  BY DEF Emptied, Settles

LEMMA CommandsKeepTranscript ==
    ASSUME GateInv, TranscriptInv, User \/ CommandStep \/ CompactionStep,
           ~ImplementFresh, ~Push, ~CompactionEnds
    PROVE  TranscriptInv'
<1> USE DEF TranscriptInv
<1>1. CASE Spawn
  <2>1. command.run \in Runs /\ phase[command.run] = "none"
    BY <1>1 DEF Spawn, GateInv, CommandOK
  <2>2. /\ phase' = [phase EXCEPT ![command.run] = "opening"] /\ command'.at = "idle"
        /\ UNCHANGED <<steering, live, checkpoint, source, result>> /\ BooksAlone
    BY <1>1 DEF Spawn, Goto, Command, session, BooksAlone
  <2>3. done[command.run] = <<>>
    BY <2>1 DEF Emptied, Settles
  <2>4. Emptied'
    <3>1. \A p \in Runs \ {command.run} : done'[p] = done[p] /\ result'[p] = result[p]
      BY <2>2 DEF BooksAlone
    <3>2. command.run \in Tasks /\ done'[command.run] = <<>>
      BY <2>1, <2>2, <2>3 DEF Tasks, BooksAlone
    <3> QED
      BY <2>2, <3>1, <3>2, OthersEmptied
  <2>5. Shapes'
    BY <2>2 DEF Shapes, BooksAlone
  <2> QED
    BY <2>2, <2>4, <2>5, Rests DEF Steered
<1>2. CASE Compact \/ CompactionReads
  <2>1. /\ \E label \in Labels : phase' = [phase EXCEPT ![Compaction] = label]
        /\ source' \in {source, transcript}
        /\ UNCHANGED <<command, steering, live, checkpoint, result>> /\ BooksAlone
    BY <1>2 DEF Compact, CompactionReads, Goto, session, engine, Labels, BooksAlone
  <2>2. \A r \in Runs : phase'[r] = phase[r]
    BY <2>1, LocalRunAssumption DEF GateInv, GateTypeOK, Tasks, Compaction
  <2>3. Emptied'
    BY <2>1, <2>2, SameEmptied DEF BooksAlone
  <2>4. Shapes'
    BY <2>1 DEF Shapes, BooksAlone
  <2> QED
    BY <2>1, <2>3, <2>4, Rests DEF Steered
<1>3. ASSUME BooksAlone, UNCHANGED <<phase, steering, live, checkpoint, source, result>>,
             command'.at = "push" => command'.run \in Runs
      PROVE  TranscriptInv'
  <2>1. Emptied'
    BY <1>3, SameEmptied DEF BooksAlone
  <2>2. Shapes'
    BY <1>3 DEF Shapes, BooksAlone
  <2> QED
    BY <1>3, <2>1, <2>2, Rests DEF Steered
<1>4. ASSUME NEW r \in Runs, Prompt(r) PROVE TranscriptInv'
  BY <1>4, <1>3 DEF Prompt, Command, session, engine, BooksAlone
<1>5. ASSUME NEW t \in Tasks, Cancel(t) PROVE TranscriptInv'
  BY <1>5, <1>3 DEF Cancel, Command, session, engine, BooksAlone
<1>6. ASSUME NEW c \in Calls, NEW answer \in Options, Respond(c, answer) PROVE TranscriptInv'
  <2>1. /\ UNCHANGED <<command, phase, transcript, steering, engine, source, accepted, cleared>>
    BY <1>6 DEF Respond
  <2> QED
    BY <2>1, <1>3 DEF engine, BooksAlone, Steered
<1>7. CASE Close \/ Supersede \/ Clear
  BY <1>7, <1>3 DEF Close, Supersede, Clear, Command, session, engine, BooksAlone
<1>8. CASE Steer
  <2>1. steering \in Runs
    BY <1>8 DEF Steer, Steered
  <2> QED
    BY <1>8, <2>1, <1>3 DEF Steer, Command, session, engine, BooksAlone
<1> QED
  BY <1>1, <1>2, <1>4, <1>5, <1>6, <1>7, <1>8 DEF User, CommandStep, CompactionStep

\* A summary of the whole transcript tells the same.
LEMMA CompactionKeepsTranscript ==
    ASSUME GateInv, TranscriptInv, CompactionEnds
    PROVE  TranscriptInv'
<1> USE DEF TranscriptInv
<1>1. /\ phase' = [phase EXCEPT ![Compaction] = "over"]
      /\ \/ transcript = source /\ transcript' = Compacted(source)
         \/ UNCHANGED transcript
      /\ UNCHANGED <<command, steering, engine, source, accepted, cleared>>
  BY DEF CompactionEnds, Goto
<1>2. transcript' \in Transcripts /\ Told' = Told
  <2>1. Compacted(transcript) \in Transcripts /\ Covers(Compacted(transcript)) = Covers(transcript)
    BY CompactedCovers DEF Shapes, Transcripts
  <2> QED
    BY <1>1, <2>1 DEF Told, Shapes
<1>3. \A r \in Runs : phase'[r] = phase[r]
  BY <1>1, LocalRunAssumption DEF GateInv, GateTypeOK, Tasks, Compaction
<1>4. Emptied'
  BY <1>1, <1>3, SameEmptied DEF engine
<1>5. Shapes' /\ Steered'
  BY <1>1, <1>2 DEF Shapes, Steered, engine
<1>6. InBooks'
  BY <1>1, <1>2 DEF InBooks, Of, engine
<1> QED
  BY <1>4, <1>5, <1>6

LEMMA FreshKeepsTranscript ==
    ASSUME TranscriptInv, ImplementFresh
    PROVE  TranscriptInv'
<1> USE DEF TranscriptInv
<1>1. /\ transcript' = <<>> /\ cleared' = cleared \cup ToSet(Told)
      /\ UNCHANGED <<command, phase, steering, engine, source, accepted>>
  BY DEF ImplementFresh, Told
<1>2. Books(<<>>, Of(done), Of(queue), cleared', made, accepted)
  BY <1>1, PutsAside DEF InBooks
<1>3. InBooks'
  <2>1. Told' = <<>> /\ Of(done)' = Of(done) /\ Of(queue)' = Of(queue) /\ UNCHANGED <<made, accepted>>
    BY <1>1, CoversEmpty DEF Told, Of, engine
  <2> QED
    BY <1>2, <2>1 DEF InBooks
<1>4. Shapes'
  <2>1. <<>> \in Transcripts
    BY DEF Transcripts
  <2> QED
    BY <1>1, <2>1 DEF Shapes, engine
<1>5. Steered' /\ Emptied'
  BY <1>1 DEF Steered, Emptied, Settles, engine
<1> QED
  BY <1>3, <1>4, <1>5

LEMMA AppendTells ==
    ASSUME NEW t \in Transcripts, NEW e \in Entries(Messages)
    PROVE  /\ Append(t, e) \in Transcripts /\ Covers(Append(t, e)) = Covers(t) \o e.of
           /\ ToSet(Append(t, e)) = ToSet(t) \cup {e}
<1>1. Covers(Append(t, e)) = Covers(t) \o e.of
  BY CoversAppend DEF Transcripts
<1> DEFINE E == Entries(Messages)
<1>2. t \in Seq(E) /\ e \in E
  BY DEF Transcripts
<1> HIDE DEF E
<1>3. Append(t, e) \in Seq(E)
  BY <1>2, AppendProperties
<1>4. Append(t, e) = t \o <<e>> /\ <<e>> \in Seq(E)
  BY <1>2
<1>5. ToSet(t \o <<e>>) = ToSet(t) \cup ToSet(<<e>>)
  BY <1>2, <1>4, ElementsConcat
<1> QED
  BY <1>1, <1>3, <1>4, <1>5, OneTells DEF E, Transcripts

LEMMA PushKeepsTranscript ==
    ASSUME TranscriptInv, Push
    PROVE  TranscriptInv'
<1> USE DEF TranscriptInv
<1>1. PICK r \in Runs : r = command.run
  BY DEF Push, Steered
<1>2. PICK s, e : s = <<None, Cardinality(accepted) + 1>> /\ e = Raw(s)
  OBVIOUS
<1>3. /\ queue' = [queue EXCEPT ![r] = Append(@, e)] /\ accepted' = accepted \cup {<<r, s>>}
      /\ command'.at = "idle"
      /\ UNCHANGED <<phase, transcript, steering, live, done, checkpoint, result, made, source, cleared>>
  BY <1>1, <1>2 DEF Push, Command, session, None
<1>4. e \in Entries(Messages) /\ e.of = <<s>> /\ e = Raw(s)
  <2>1. IsFiniteSet(accepted)
    BY DEF InBooks, Books, BooksTyped
  <2>2. s \in Messages
    BY <1>2, <2>1, FS_CardinalityType DEF Messages, Tasks, None, Compaction
  <2>3. <<s>> \in Seq(Messages)
    BY <2>2
  <2> QED
    BY <1>2, <2>3 DEF Entries, Raw
<1>5. queue[r] \in Transcripts /\ queue \in [Runs -> Transcripts]
  BY DEF Shapes
<1>6. PICK t : t = Append(queue[r], e)
  OBVIOUS
<1>7. t \in Transcripts /\ Covers(t) = Covers(queue[r]) \o <<s>>
  BY <1>4, <1>5, <1>6, AppendTells
<1>8. queue' = [queue EXCEPT ![r] = t] /\ queue' \in [Runs -> Transcripts] /\ queue'[r] = t
      /\ \A p \in Runs : p # r => queue'[p] = queue[p]
  BY <1>3, <1>5, <1>6, <1>7
<1>9. InBooks'
  <2>1. Books(Told, Of(done), [Of(queue) EXCEPT ![r] = @ \o <<s>>], cleared, made, accepted')
    BY <1>2, <1>3, Accepts DEF InBooks
  <2>2. Of(queue)' = [Of(queue) EXCEPT ![r] = Covers(t)] /\ Of(queue)[r] = Covers(queue[r])
    <3>1. Of(queue') = [Of(queue) EXCEPT ![r] = Covers(t)] /\ Of(queue)[r] = Covers(queue[r])
      <4>1. /\ Of(queue)[r] = Covers(queue[r])
            /\ \A x : Of([queue EXCEPT ![r] = x]) = [Of(queue) EXCEPT ![r] = Covers(x)]
        BY <1>5, OfAt
      <4> QED
        BY <4>1, <1>8
    <3> QED
      BY <3>1 DEF Of
  <2>3. Of(queue)' = [Of(queue) EXCEPT ![r] = @ \o <<s>>]
    BY <1>7, <2>2
  <2>4. Told' = Told /\ Of(done)' = Of(done) /\ UNCHANGED <<cleared, made>>
    BY <1>3 DEF Told, Of
  <2> QED
    BY <2>1, <2>3, <2>4 DEF InBooks
<1>10. Shapes' /\ Emptied'
  BY <1>3, <1>8 DEF Shapes, Emptied, Settles
<1>11. Steered'
  <2>1. ToSet(t) = ToSet(queue[r]) \cup {e}
    BY <1>4, <1>5, <1>6, AppendTells
  <2>2. ToSet(Covers(t)) = ToSet(Covers(queue[r])) \cup {s}
    <3>1. Covers(queue[r]) \in Seq(Messages) /\ <<s>> \in Seq(Messages)
      BY <1>4, <1>5, OfAt DEF Entries
    <3>2. ToSet(Covers(t)) = ToSet(Covers(queue[r])) \cup ToSet(<<s>>)
      BY <1>7, <3>1, ElementsConcat
    <3> QED
      BY <3>2, OneTells
  <2>3. \A m \in ToSet(Covers(queue'[r])) : Raw(m) \in ToSet(queue'[r])
    BY <1>4, <1>8, <2>1, <2>2 DEF Steered
  <2> QED
    BY <1>3, <1>8, <2>3 DEF Steered
<1> QED
  BY <1>9, <1>10, <1>11

-----------------------------------------------------------------------------
Replaces(g, f, r, t) ==
    /\ g \in [Runs -> Transcripts] /\ g[r] = t /\ \A p \in Runs \ {r} : g[p] = f[p]
    /\ Of(g) = [Of(f) EXCEPT ![r] = Covers(t)] /\ Of(f)[r] = Covers(f[r])

LEMMA Replaced ==
    ASSUME NEW f \in [Runs -> Transcripts], NEW r \in Runs, NEW t \in Transcripts
    PROVE  Replaces([f EXCEPT ![r] = t], f, r, t)
<1>1. /\ Of(f)[r] = Covers(f[r])
      /\ \A x : Of([f EXCEPT ![r] = x]) = [Of(f) EXCEPT ![r] = Covers(x)]
  BY OfAt
<1> QED
  BY <1>1 DEF Replaces

\* A run finishes or goes on with nothing written.
LEMMA RunRests ==
    ASSUME GateInv, TranscriptInv, NEW r \in Runs, NEW label \in Labels, Goto(r, label),
           BooksAlone, UNCHANGED <<command, steering, source>>,
           live' = live, checkpoint' \in [Runs -> Checkpoints],
           \A p \in Runs \ {r} : result'[p] = result[p],
           Settles(r)' => Settles(r)
    PROVE  TranscriptInv'
<1>1. Emptied'
  <2>1. /\ phase' = [phase EXCEPT ![r] = label] /\ r \in Tasks
        /\ \A p \in Runs \ {r} : done'[p] = done[p] /\ result'[p] = result[p]
    BY DEF Goto, Tasks, BooksAlone
  <2>2. Settles(r)' => done'[r] = <<>>
    BY DEF TranscriptInv, Emptied, BooksAlone
  <2> QED
    BY <2>1, <2>2, OthersEmptied DEF TranscriptInv
<1>2. Shapes'
  BY DEF TranscriptInv, Shapes, BooksAlone
<1> QED
  BY <1>1, <1>2, Rests DEF TranscriptInv, Steered

LEMMA RequestedKnown ==
    ASSUME Shapes, NEW r \in Runs
    PROVE  Requested(r) \in Checkpoints /\ checkpoint[r] \in Checkpoints
<1>1. checkpoint[r] \in Checkpoints
  BY DEF Shapes
<1>2. Requested(r) \subseteq checkpoint[r]
  BY DEF Requested, Applicable
<1>3. Requested(r) \in Checkpoints
  BY <1>1, <1>2 DEF Checkpoints, Faithful
<1> QED
  BY <1>1, <1>3

LEMMA TransformKeepsTranscript ==
    ASSUME TranscriptInv, NEW r \in Runs, NEW o \in BOOLEAN, Transform(r, o)
    PROVE  TranscriptInv'
<1> USE DEF TranscriptInv
<1>1. PICK t, next, k : /\ t = live[r] /\ next = Compacted(Projected(checkpoint[r], t))
                        /\ k = Checkpoint(t, next)
  OBVIOUS
<1>2. /\ checkpoint' = [checkpoint EXCEPT ![r] = k]
      /\ live' = IF o THEN [live EXCEPT ![r] = next] ELSE live
      /\ UNCHANGED <<command, phase, steering, source, result>> /\ BooksAlone
  BY <1>1 DEF Transform, session, BooksAlone
<1>3. t \in Transcripts /\ checkpoint[r] \in Checkpoints
  BY <1>1 DEF Shapes
<1>4. next \in Transcripts /\ Covers(next) = Covers(t)
  <2>1. PICK u : u = Projected(checkpoint[r], t)
    OBVIOUS
  <2>2. u \in Transcripts /\ Covers(u) = Covers(t)
    BY <1>3, <2>1, ProjectedCovers DEF Transcripts, Checkpoints
  <2>3. Compacted(u) \in Transcripts /\ Covers(Compacted(u)) = Covers(u)
    BY <2>2, CompactedCovers DEF Transcripts
  <2> QED
    BY <1>1, <2>1, <2>2, <2>3
<1>5. k \in Checkpoints
  BY <1>1, <1>3, <1>4 DEF Checkpoint, Checkpoints, Faithful, Transcripts
<1>6. Shapes'
  BY <1>2, <1>4, <1>5 DEF Shapes, BooksAlone
<1>7. Emptied'
  BY <1>2, SameEmptied DEF BooksAlone
<1> QED
  BY <1>2, <1>6, <1>7, Rests DEF Steered

\* What the run's own step does to its messages.
LEMMA WritesToDone ==
    ASSUME TranscriptInv, NEW r \in Runs, done' = [done EXCEPT ![r] = @ \o Own(r, 1)], Makes(r, 1),
           UNCHANGED <<transcript, queue, cleared, accepted>>
    PROVE  InBooks' /\ done' \in [Runs -> Transcripts]
<1>1. made \in [Runs -> Nat] /\ done \in [Runs -> Transcripts] /\ done[r] \in Transcripts
  BY DEF TranscriptInv, InBooks, Books, BooksTyped, Shapes
<1>2. PICK t, u, m : t = done[r] \o u /\ u = Own(r, 1) /\ m = <<r, made[r] + 1>>
  OBVIOUS
<1>3. u \in Transcripts /\ Covers(u) = <<m>>
  BY <1>1, <1>2, NextOwn
<1>4. t \in Transcripts /\ Covers(t) = Covers(done[r]) \o <<m>>
  BY <1>1, <1>2, <1>3, ConcatCovers
<1>5. done' = [done EXCEPT ![r] = t] /\ made' = [made EXCEPT ![r] = @ + 1]
  BY <1>2 DEF Makes
<1>6. PICK g : g = done'
  OBVIOUS
<1>7. /\ g \in [Runs -> Transcripts]
      /\ Of(g) = [Of(done) EXCEPT ![r] = Covers(t)] /\ Of(done)[r] = Covers(done[r])
  <2>1. Replaces([done EXCEPT ![r] = t], done, r, t)
    BY <1>1, <1>4, Replaced
  <2> QED
    BY <1>5, <1>6, <2>1 DEF Replaces
<1>8. Of(done)' = [Of(done) EXCEPT ![r] = @ \o <<m>>]
  BY <1>4, <1>6, <1>7 DEF Of
<1>9. Books(Told, [Of(done) EXCEPT ![r] = @ \o <<<<r, made[r] + 1>>>>], Of(queue), cleared,
            [made EXCEPT ![r] = @ + 1], accepted)
  BY Writes DEF TranscriptInv, InBooks
<1>10. Told' = Told /\ Of(queue)' = Of(queue) /\ UNCHANGED <<cleared, accepted>>
  BY DEF Told, Of
<1> QED
  BY <1>2, <1>5, <1>6, <1>7, <1>8, <1>9, <1>10 DEF InBooks

LEMMA AttemptKeepsTranscript ==
    ASSUME GateInv, TranscriptInv, NEW r \in Runs, Attempt(r)
    PROVE  TranscriptInv'
<1> USE DEF TranscriptInv
<1>1. PICK u : u = IF prompted[r] THEN Own(r, 1) ELSE <<>>
  OBVIOUS
<1>2. /\ Goto(r, "call") /\ steering' \in {r, steering}
      /\ live' = [live EXCEPT ![r] = transcript \o u]
      /\ done' = [done EXCEPT ![r] = @ \o u] /\ Makes(r, Len(u))
      /\ UNCHANGED <<command, transcript, checkpoint, queue, source, result, accepted, cleared>>
  BY <1>1 DEF Attempt
<1>3. /\ made \in [Runs -> Nat] /\ done \in [Runs -> Transcripts] /\ done[r] \in Transcripts
      /\ transcript \in Transcripts /\ live \in [Runs -> Transcripts]
  BY DEF InBooks, Books, BooksTyped, Shapes
<1>4. u \in Transcripts
  BY <1>1, <1>3, NextOwn DEF Transcripts
<1>5. transcript \o u \in Transcripts
  BY <1>3, <1>4, ConcatCovers
<1>6. InBooks' /\ done' \in [Runs -> Transcripts]
  <2>1. CASE u = <<>>
    <3>1. done[r] \o u = done[r] /\ Len(u) = 0 /\ made[r] + 0 = made[r]
      BY <1>3, <2>1 DEF Transcripts
    <3>2. done' = done /\ made' = made
      BY <1>2, <1>3, <3>1 DEF Makes
    <3> QED
      BY <1>2, <1>3, <3>2 DEF InBooks, Told, Of
  <2>2. CASE u = Own(r, 1)
    BY <1>2, <1>3, <2>2, NextOwn, WritesToDone
  <2> QED
    BY <1>1, <2>1, <2>2
<1>7. Shapes'
  BY <1>2, <1>3, <1>5, <1>6 DEF Shapes
<1>8. Emptied'
  <2>1. /\ phase' = [phase EXCEPT ![r] = "call"] /\ r \in Tasks
        /\ \A p \in Runs \ {r} : done'[p] = done[p] /\ result'[p] = result[p]
    BY <1>2, <1>3 DEF Goto, Tasks
  <2>2. ~Settles(r)'
    BY <2>1 DEF Settles, GateInv, GateTypeOK
  <2> QED
    BY <2>1, <2>2, OthersEmptied
<1>9. Steered'
  BY <1>2 DEF Steered
<1> QED
  BY <1>6, <1>7, <1>8, <1>9

LEMMA BatchKeepsTranscript ==
    ASSUME GateInv, LedgerInv, TranscriptInv, NEW r \in Runs, BatchEnds(r)
    PROVE  TranscriptInv'
<1> USE DEF TranscriptInv
<1>1. CASE \E terminal \in {"Failed", "Cancelled"} : Ends(r, terminal) /\ UNCHANGED <<live, done, made>>
  <2>1. PICK terminal \in {"Failed", "Cancelled"} : Ends(r, terminal) /\ UNCHANGED <<live, done, made>>
    BY <1>1
  <2>2. /\ Goto(r, "ended") /\ result' = [result EXCEPT ![r] = terminal] /\ BooksAlone
        /\ UNCHANGED <<command, steering, source, checkpoint>> /\ checkpoint \in [Runs -> Checkpoints]
    BY <2>1 DEF BatchEnds, Ends, session, BooksAlone, Shapes
  <2>3. ~Settles(r)'
    BY <2>2 DEF Goto, Settles, GateInv, GateTypeOK, LedgerInv, Tasks
  <2>4. \A p \in Runs \ {r} : result'[p] = result[p]
    BY <2>2 DEF LedgerInv
  <2> QED
    BY <2>1, <2>2, <2>3, <2>4, RunRests DEF Labels
<1>2. CASE /\ Goto(r, "call") /\ Makes(r, 1) /\ UNCHANGED result
           /\ live' = [live EXCEPT ![r] = @ \o Own(r, 1)]
           /\ done' = [done EXCEPT ![r] = @ \o Own(r, 1)]
  <2>1. UNCHANGED <<command, transcript, steering, checkpoint, queue, source, accepted, cleared>>
    BY DEF BatchEnds, session
  <2>2. /\ made \in [Runs -> Nat] /\ done \in [Runs -> Transcripts] /\ live[r] \in Transcripts
        /\ live \in [Runs -> Transcripts]
    BY DEF InBooks, Books, BooksTyped, Shapes
  <2>3. live[r] \o Own(r, 1) \in Transcripts
    BY <2>2, NextOwn, ConcatCovers
  <2>4. InBooks' /\ done' \in [Runs -> Transcripts]
    BY <1>2, <2>1, WritesToDone
  <2>5. Shapes'
    BY <1>2, <2>1, <2>2, <2>3, <2>4 DEF Shapes
  <2>6. Emptied'
    <3>1. /\ phase' = [phase EXCEPT ![r] = "call"] /\ r \in Tasks
          /\ \A p \in Runs \ {r} : done'[p] = done[p] /\ result'[p] = result[p]
      BY <1>2, <2>2 DEF Goto, Tasks
    <3>2. ~Settles(r)'
      BY <3>1 DEF Settles, GateInv, GateTypeOK
    <3> QED
      BY <3>1, <3>2, OthersEmptied
  <2>7. Steered'
    BY <2>1 DEF Steered
  <2> QED
    BY <2>4, <2>5, <2>6, <2>7
<1> QED
  BY <1>1, <1>2 DEF BatchEnds

LEMMA InjectKeepsTranscript ==
    ASSUME GateInv, TranscriptInv, NEW r \in Runs, Inject(r)
    PROVE  TranscriptInv'
<1> USE DEF TranscriptInv
<1>1. /\ live' = [live EXCEPT ![r] = @ \o queue[r]] /\ done' = [done EXCEPT ![r] = @ \o queue[r]]
      /\ queue' = [queue EXCEPT ![r] = <<>>] /\ phase[r] = "call"
      /\ UNCHANGED <<command, phase, transcript, steering, checkpoint, source, result, made,
                     accepted, cleared>>
  BY DEF Inject, session, At
<1>2. /\ done \in [Runs -> Transcripts] /\ queue \in [Runs -> Transcripts]
      /\ live \in [Runs -> Transcripts] /\ done[r] \in Transcripts /\ queue[r] \in Transcripts
      /\ live[r] \in Transcripts /\ <<>> \in Transcripts
  BY DEF Shapes, Transcripts
<1>3. PICK t, g, h : t = done[r] \o queue[r] /\ g = done' /\ h = queue'
  OBVIOUS
<1>4. /\ t \in Transcripts /\ Covers(t) = Covers(done[r]) \o Covers(queue[r])
      /\ live[r] \o queue[r] \in Transcripts
  BY <1>2, <1>3, ConcatCovers
<1>5. g = [done EXCEPT ![r] = t] /\ h = [queue EXCEPT ![r] = <<>>]
  BY <1>1, <1>3
<1>6. /\ g \in [Runs -> Transcripts] /\ \A p \in Runs \ {r} : g[p] = done[p]
      /\ Of(g) = [Of(done) EXCEPT ![r] = Covers(t)] /\ Of(done)[r] = Covers(done[r])
  <2>1. Replaces([done EXCEPT ![r] = t], done, r, t)
    BY <1>2, <1>4, Replaced
  <2> QED
    BY <1>5, <2>1 DEF Replaces
<1>7. /\ h \in [Runs -> Transcripts] /\ h[r] = <<>> /\ \A p \in Runs \ {r} : h[p] = queue[p]
      /\ Of(h) = [Of(queue) EXCEPT ![r] = <<>>] /\ Of(queue)[r] = Covers(queue[r])
  <2>1. Replaces([queue EXCEPT ![r] = <<>>], queue, r, <<>>)
    BY <1>2, Replaced
  <2> QED
    BY <1>5, <2>1, CoversEmpty DEF Replaces
<1>8. Books(Told, [Of(done) EXCEPT ![r] = @ \o Of(queue)[r]], [Of(queue) EXCEPT ![r] = <<>>],
            cleared, made, accepted)
  BY Takes DEF InBooks
<1>9. InBooks'
  <2>1. Of(done)' = Of(g) /\ Of(queue)' = Of(h) /\ Told' = Told /\ UNCHANGED <<cleared, made, accepted>>
    BY <1>1, <1>3 DEF Of, Told
  <2>2. Of(g) = [Of(done) EXCEPT ![r] = @ \o Of(queue)[r]]
    BY <1>4, <1>6, <1>7
  <2> QED
    BY <1>7, <1>8, <2>1, <2>2 DEF InBooks
<1>10. Shapes'
  BY <1>1, <1>2, <1>3, <1>4, <1>6, <1>7 DEF Shapes
<1>11. Steered'
  <2>1. ToSet(Covers(h[r])) = {}
    BY <1>7, CoversEmpty, EmptyTells
  <2> QED
    BY <1>1, <1>3, <1>7, <2>1 DEF Steered
<1>12. Emptied'
  <2>1. \A p \in Runs : Settles(p)' => Settles(p) /\ p # r
    BY <1>1 DEF Settles
  <2> QED
    BY <1>3, <1>6, <2>1 DEF Emptied
<1> QED
  BY <1>9, <1>10, <1>11, <1>12

\* A commit leaves the run with nothing uncommitted and no checkpoint.
LEMMA Commits ==
    ASSUME Shapes, NEW r \in Runs, Committed(r)
    PROVE  /\ checkpoint' \in [Runs -> Checkpoints] /\ done' \in [Runs -> Transcripts]
           /\ done'[r] = <<>> /\ \A p \in Runs \ {r} : done'[p] = done[p]
           /\ Of(done)' = [Of(done) EXCEPT ![r] = <<>>] /\ Of(done)[r] = Covers(done[r])
<1>1. {} \in Checkpoints /\ <<>> \in Transcripts
  BY DEF Checkpoints, Faithful, Transcripts
<1>2. checkpoint' = [checkpoint EXCEPT ![r] = {}] /\ done' = [done EXCEPT ![r] = <<>>]
  BY DEF Committed, NoCheckpoint
<1>3. checkpoint \in [Runs -> Checkpoints] /\ done \in [Runs -> Transcripts]
  BY DEF Shapes
<1>4. Replaces([done EXCEPT ![r] = <<>>], done, r, <<>>)
  BY <1>1, <1>3, Replaced
<1>5. Of(done)' = Of([done EXCEPT ![r] = <<>>])
  BY <1>2 DEF Of
<1> QED
  BY <1>1, <1>2, <1>3, <1>4, <1>5, CoversEmpty DEF Replaces

\* A run that leaves a commit behind has emptied itself.
LEMMA CommitEmpties ==
    ASSUME GateInv, TranscriptInv, NEW r \in Runs, NEW label \in Labels, Goto(r, label), Committed(r),
           \A p \in Runs \ {r} : result'[p] = result[p]
    PROVE  Emptied'
<1>1. done'[r] = <<>> /\ \A p \in Runs \ {r} : done'[p] = done[p]
  BY Commits DEF TranscriptInv
<1>2. phase' = [phase EXCEPT ![r] = label] /\ r \in Tasks
  BY DEF Goto, Tasks
<1>3. \A p \in Runs \ {r} : done'[p] = done[p] /\ result'[p] = result[p]
  BY <1>1
<1> QED
  BY <1>1, <1>2, <1>3, OthersEmptied DEF TranscriptInv

LEMMA RecoversKeepsTranscript ==
    ASSUME GateInv, TranscriptInv, NEW r \in Runs, Recovers(r)
    PROVE  TranscriptInv'
<1> USE DEF TranscriptInv
<1>1. /\ Goto(r, "attempt") /\ Committed(r) /\ Makes(r, 1)
      /\ transcript' = Commit(checkpoint[r], done[r]) \o Own(r, 1)
      /\ UNCHANGED <<command, steering, live, queue, source, result, accepted, cleared>>
  BY DEF Recovers
<1>2. /\ made \in [Runs -> Nat] /\ done[r] \in Transcripts /\ transcript \in Transcripts
      /\ checkpoint[r] \in Checkpoints /\ Told \in Seq(Messages)
  BY DEF InBooks, Books, BooksTyped, Shapes
<1>3. PICK d, m, u : d = [Of(done) EXCEPT ![r] = <<>>] /\ m = <<r, made[r] + 1>>
                     /\ u = Commit(checkpoint[r], done[r])
  OBVIOUS
<1>4. Of(done)' = d /\ Of(done)[r] = Covers(done[r]) /\ d[r] = <<>>
  BY <1>1, <1>3, Commits DEF Of
<1>5. u \in Transcripts /\ Covers(u) = Told \o Covers(done[r])
  BY <1>2, <1>3, CommitTells
<1>6. transcript' \in Transcripts /\ Told' = (Told \o Covers(done[r])) \o <<m>>
  <2>1. Own(r, 1) \in Transcripts /\ Covers(Own(r, 1)) = <<m>>
    BY <1>2, <1>3, NextOwn
  <2>2. u \o Own(r, 1) \in Transcripts /\ Covers(u \o Own(r, 1)) = Covers(u) \o Covers(Own(r, 1))
    BY <1>5, <2>1, ConcatCovers
  <2> QED
    BY <1>1, <1>3, <1>5, <2>1, <2>2 DEF Told
<1>7. Books(Told \o Covers(done[r]), d, Of(queue), cleared, made, accepted)
  <2>1. Books(Told \o Of(done)[r], [Of(done) EXCEPT ![r] = <<>>], Of(queue), cleared, made, accepted)
    BY Tells DEF InBooks
  <2> QED
    BY <1>3, <1>4, <2>1
<1>8. Books((Told \o Covers(done[r])) \o <<m>>, d, Of(queue), cleared, made', accepted)
  <2>1. Books((Told \o Covers(done[r])) \o <<<<r, made[r] + 1>>>>, d, Of(queue), cleared,
              [made EXCEPT ![r] = @ + 1], accepted)
    BY <1>4, <1>7, Marks
  <2> QED
    BY <1>1, <1>3, <2>1 DEF Makes
<1>9. InBooks'
  <2>1. Of(queue)' = Of(queue) /\ UNCHANGED <<cleared, accepted>>
    BY <1>1 DEF Of
  <2> QED
    BY <1>4, <1>6, <1>8, <2>1 DEF InBooks
<1>10. Shapes'
  BY <1>1, <1>6, Commits DEF Shapes
<1>11. Steered' /\ Emptied'
  <2>1. \A p \in Runs \ {r} : result'[p] = result[p]
    BY <1>1
  <2> QED
    BY <1>1, <2>1, CommitEmpties DEF Steered, Labels
<1> QED
  BY <1>9, <1>10, <1>11

LEMMA AnsweredKeepsTranscript ==
    ASSUME GateInv, LedgerInv, TranscriptInv, NEW r \in Runs, Answered(r)
    PROVE  TranscriptInv'
<1> USE DEF TranscriptInv
<1>1. /\ \/ Goto(r, "attempt") /\ UNCHANGED result
         \/ Goto(r, "ended") /\ result' = [result EXCEPT ![r] = "Completed"]
      /\ Committed(r) /\ Makes(r, 1)
      /\ transcript' = Commit(Requested(r), done[r] \o Own(r, 1))
      /\ UNCHANGED <<command, steering, live, queue, source, accepted, cleared>>
  BY DEF Answered, Ends
<1>2. /\ made \in [Runs -> Nat] /\ done[r] \in Transcripts /\ transcript \in Transcripts
      /\ Requested(r) \in Checkpoints /\ Told \in Seq(Messages)
  BY RequestedKnown DEF InBooks, Books, BooksTyped, Shapes
<1>3. PICK d, e, m, u : /\ d = [Of(done) EXCEPT ![r] = <<>>] /\ m = <<r, made[r] + 1>>
                        /\ u = done[r] \o Own(r, 1) /\ e = [Of(done) EXCEPT ![r] = @ \o <<m>>]
  OBVIOUS
<1>4. Of(done)' = d /\ Of(done)[r] = Covers(done[r])
  BY <1>1, <1>3, Commits
<1>5. u \in Transcripts /\ Covers(u) = Covers(done[r]) \o <<m>>
  <2>1. Own(r, 1) \in Transcripts /\ Covers(Own(r, 1)) = <<m>>
    BY <1>2, <1>3, NextOwn
  <2> QED
    BY <1>2, <1>3, <2>1, ConcatCovers
<1>6. transcript' \in Transcripts /\ Told' = Told \o Covers(u)
  BY <1>1, <1>2, <1>3, <1>5, CommitTells DEF Told
<1>7. e[r] = Covers(u) /\ [e EXCEPT ![r] = <<>>] = d
  <2>1. Of(done) = [p \in Runs |-> Covers(done[p])]
    BY DEF Of
  <2>2. PICK f : f = Of(done)
    OBVIOUS
  <2>3. e[r] = f[r] \o <<m>>
    BY <1>3, <2>1, <2>2
  <2>4. [e EXCEPT ![r] = <<>>] = d
    BY <1>3
  <2> QED
    BY <1>4, <1>5, <2>2, <2>3, <2>4
<1>8. Books(Told, e, Of(queue), cleared, made', accepted)
  <2>1. Books(Told, [Of(done) EXCEPT ![r] = @ \o <<<<r, made[r] + 1>>>>], Of(queue), cleared,
              [made EXCEPT ![r] = @ + 1], accepted)
    BY Writes DEF InBooks
  <2> QED
    BY <1>1, <1>3, <2>1 DEF Makes
<1>9. Books(Told \o e[r], [e EXCEPT ![r] = <<>>], Of(queue), cleared, made', accepted)
  BY <1>8, Tells
<1>10. InBooks'
  <2>1. Of(queue)' = Of(queue) /\ UNCHANGED <<cleared, accepted>>
    BY <1>1 DEF Of
  <2> QED
    BY <1>4, <1>6, <1>7, <1>9, <2>1 DEF InBooks
<1>11. Shapes'
  BY <1>1, <1>6, Commits DEF Shapes
<1>12. Steered' /\ Emptied'
  <2>1. \A p \in Runs \ {r} : result'[p] = result[p]
    BY <1>1 DEF LedgerInv
  <2> QED
    BY <1>1, <2>1, CommitEmpties DEF Steered, Labels
<1> QED
  BY <1>10, <1>11, <1>12

\* What is still queued is taken, and told with what the run has not committed.
LEMMA LeavesKeepsTranscript ==
    ASSUME GateInv, LedgerInv, TranscriptInv, NEW r \in Runs, Leaves(r)
    PROVE  TranscriptInv'
<1> USE DEF TranscriptInv
<1>1. /\ Goto(r, "finishing") /\ phase[r] = "ended"
      /\ steering' = None /\ queue' = [queue EXCEPT ![r] = <<>>]
      /\ UNCHANGED <<command, live, source, result, accepted, cleared>>
  BY DEF Leaves, At
<1>2. /\ made \in [Runs -> Nat] /\ done \in [Runs -> Transcripts] /\ queue \in [Runs -> Transcripts]
      /\ done[r] \in Transcripts /\ queue[r] \in Transcripts /\ transcript \in Transcripts
      /\ checkpoint[r] \in Checkpoints /\ Told \in Seq(Messages)
  BY DEF InBooks, Books, BooksTyped, Shapes
<1>3. /\ Of(done) \in [Runs -> Seq(Messages)] /\ Of(done)[r] = Covers(done[r])
      /\ Of(queue)[r] = Covers(queue[r])
      /\ Covers(done[r]) \in Seq(Messages) /\ Covers(queue[r]) \in Seq(Messages)
  BY <1>2, OfAt
<1>4. PICK d, e, h : /\ d = [Of(done) EXCEPT ![r] = <<>>] /\ h = [Of(queue) EXCEPT ![r] = <<>>]
                     /\ e = [Of(done) EXCEPT ![r] = @ \o Of(queue)[r]]
  OBVIOUS
<1>5. e[r] = Covers(done[r]) \o Covers(queue[r]) /\ [e EXCEPT ![r] = <<>>] = d /\ d[r] = <<>>
  <2>1. PICK f, w : f = Of(done) /\ w = Of(queue)[r] /\ f \in [Runs -> Seq(Messages)]
    BY <1>3
  <2>2. e[r] = f[r] \o w /\ [e EXCEPT ![r] = <<>>] = d /\ d[r] = <<>>
    BY <1>4, <2>1
  <2> QED
    BY <1>3, <2>1, <2>2
<1>6. Books(Told \o (Covers(done[r]) \o Covers(queue[r])), d, h, cleared, made, accepted)
  <2>1. Books(Told, e, h, cleared, made, accepted)
    <3>1. Books(Told, [Of(done) EXCEPT ![r] = @ \o Of(queue)[r]], [Of(queue) EXCEPT ![r] = <<>>],
                cleared, made, accepted)
      BY Takes DEF InBooks
    <3> QED
      BY <1>4, <3>1
  <2>2. Books(Told \o e[r], [e EXCEPT ![r] = <<>>], h, cleared, made, accepted)
    BY <2>1, Tells
  <2> QED
    BY <1>5, <2>2
<1>7. /\ queue' \in [Runs -> Transcripts] /\ queue'[r] = <<>> /\ \A p \in Runs \ {r} : queue'[p] = queue[p]
      /\ Of(queue)' = h
  <2>1. <<>> \in Transcripts
    BY DEF Transcripts
  <2>2. Replaces([queue EXCEPT ![r] = <<>>], queue, r, <<>>)
    BY <1>2, <2>1, Replaced
  <2>3. Of(queue)' = Of([queue EXCEPT ![r] = <<>>])
    BY <1>1 DEF Of
  <2> QED
    BY <1>1, <1>4, <2>2, <2>3, CoversEmpty DEF Replaces
<1>8. Steered'
  <2>1. ToSet(Covers(queue'[r])) = {}
    BY <1>7, CoversEmpty, EmptyTells
  <2> QED
    BY <1>1, <1>7, <2>1 DEF Steered
<1>9. CASE result[r] = "Completed"
  <2>1. transcript' = transcript \o queue[r] /\ UNCHANGED <<checkpoint, done, made>>
    BY <1>9 DEF Leaves
  <2>2. done[r] = <<>>
    BY <1>1, <1>9 DEF Emptied, Settles
  <2>3. Covers(done[r]) \o Covers(queue[r]) = Covers(queue[r])
    BY <1>3, <2>2, CoversEmpty
  <2>4. transcript' \in Transcripts /\ Told' = Told \o Covers(queue[r])
    BY <1>2, <2>1, ConcatCovers DEF Told
  <2>5. Of(done)' = d
    <3>1. Of(done)[r] = <<>>
      BY <1>3, <2>2, CoversEmpty
    <3>2. PICK f : f = Of(done) /\ f \in [Runs -> Seq(Messages)]
      BY <1>3
    <3>3. [f EXCEPT ![r] = <<>>] = f
      BY <3>1, <3>2
    <3>4. Of(done)' = Of(done)
      BY <2>1 DEF Of
    <3> QED
      BY <1>4, <3>2, <3>3, <3>4
  <2>6. InBooks'
    BY <1>1, <1>6, <1>7, <2>1, <2>3, <2>4, <2>5 DEF InBooks
  <2>7. Shapes'
    BY <1>1, <1>7, <2>1, <2>4 DEF Shapes
  <2>8. Emptied'
    <3>1. /\ phase' = [phase EXCEPT ![r] = "finishing"] /\ r \in Tasks
          /\ \A p \in Runs \ {r} : done'[p] = done[p] /\ result'[p] = result[p]
      BY <1>1, <2>1 DEF Goto, Tasks
    <3>2. done'[r] = <<>>
      BY <2>1, <2>2
    <3> QED
      BY <3>1, <3>2, OthersEmptied
  <2> QED
    BY <1>8, <2>6, <2>7, <2>8
<1>10. CASE result[r] # "Completed"
  <2>1. PICK n : n = IF result[r] = "Cancelled" THEN Own(r, 1) ELSE <<>>
    OBVIOUS
  <2>2. /\ transcript' = Commit(checkpoint[r], done[r] \o queue[r]) \o n
        /\ Committed(r) /\ Makes(r, Len(n))
    BY <1>10, <2>1 DEF Leaves
  <2>3. Of(done)' = d
    BY <1>4, <2>2, Commits
  <2>4. PICK c, w : /\ c = Commit(checkpoint[r], done[r] \o queue[r])
                    /\ w = Told \o (Covers(done[r]) \o Covers(queue[r]))
    OBVIOUS
  <2>5. c \in Transcripts /\ Covers(c) = w
    <3>1. /\ done[r] \o queue[r] \in Transcripts
          /\ Covers(done[r] \o queue[r]) = Covers(done[r]) \o Covers(queue[r])
      BY <1>2, ConcatCovers
    <3> QED
      BY <1>2, <2>4, <3>1, CommitTells
  <2>6. InBooks' /\ transcript' \in Transcripts
    <3>1. Of(queue)' = h /\ Of(done)' = d /\ UNCHANGED <<cleared, accepted>>
      BY <1>1, <1>7, <2>3
    <3>2. CASE n = <<>>
      <4>1. c \o n = c /\ Len(n) = 0 /\ made[r] + 0 = made[r]
        BY <1>2, <2>5, <3>2 DEF Transcripts
      <4>2. transcript' = c /\ made' = made
        BY <1>2, <2>2, <2>4, <4>1 DEF Makes
      <4>3. Told' = w
        BY <2>5, <4>2 DEF Told
      <4> QED
        BY <1>6, <2>4, <2>5, <3>1, <4>2, <4>3 DEF InBooks
    <3>3. CASE n = Own(r, 1)
      <4>1. PICK m : m = <<r, made[r] + 1>>
        OBVIOUS
      <4>2. n \in Transcripts /\ Covers(n) = <<m>> /\ Len(n) = 1
        BY <1>2, <3>3, <4>1, NextOwn
      <4>3. c \o n \in Transcripts /\ Covers(c \o n) = w \o <<m>>
        BY <2>5, <4>2, ConcatCovers
      <4>4. transcript' \in Transcripts /\ Told' = w \o <<m>>
        BY <2>2, <2>4, <4>3 DEF Told
      <4>5. Books(w \o <<m>>, d, h, cleared, [made EXCEPT ![r] = @ + 1], accepted)
        <5>1. Books(w, d, h, cleared, made, accepted) /\ d[r] = <<>>
          BY <1>5, <1>6, <2>4
        <5>2. Books(w \o <<<<r, made[r] + 1>>>>, d, h, cleared, [made EXCEPT ![r] = @ + 1], accepted)
          BY <5>1, Marks
        <5> QED
          BY <4>1, <5>2
      <4>6. made' = [made EXCEPT ![r] = @ + 1]
        BY <2>2, <4>2 DEF Makes
      <4> QED
        BY <3>1, <4>4, <4>5, <4>6 DEF InBooks
    <3> QED
      BY <2>1, <3>2, <3>3
  <2>7. Shapes'
    BY <1>1, <1>7, <2>2, <2>6, Commits DEF Shapes
  <2>8. Emptied'
    <3>1. \A p \in Runs \ {r} : result'[p] = result[p]
      BY <1>1
    <3> QED
      BY <1>1, <2>2, <3>1, CommitEmpties DEF Labels
  <2> QED
    BY <1>8, <2>6, <2>7, <2>8
<1> QED
  BY <1>9, <1>10

-----------------------------------------------------------------------------
LEMMA RunsKeepTranscript ==
    ASSUME GateInv, LedgerInv, TranscriptInv, NEW r \in Runs, RunStep(r)
    PROVE  TranscriptInv'
<1>1. checkpoint \in [Runs -> Checkpoints] /\ Requested(r) \in Checkpoints /\ result \in [Runs -> Outcomes]
  BY RequestedKnown DEF TranscriptInv, Shapes, LedgerInv
<1>2. CASE Opens(r)
  <2>1. /\ phase[r] = "opening" /\ BooksAlone
        /\ UNCHANGED <<command, steering, source, live, checkpoint>>
        /\ \/ Goto(r, "finishing") /\ result' = [result EXCEPT ![r] = "Cancelled"]
           \/ Goto(r, "driving") /\ UNCHANGED result
    BY <1>2 DEF Opens, At, session, BooksAlone
  <2>2. Settles(r) /\ \A p \in Runs \ {r} : result'[p] = result[p]
    BY <1>1, <2>1 DEF Settles
  <2> QED
    BY <1>1, <2>1, <2>2, RunRests DEF Labels
<1>3. CASE CallsTools(r)
  <2>1. /\ Goto(r, "batch") /\ BooksAlone /\ UNCHANGED <<command, steering, source, live, result>>
        /\ checkpoint' = [checkpoint EXCEPT ![r] = Requested(r)]
    BY <1>3 DEF CallsTools, session, BooksAlone
  <2>2. ~Settles(r)'
    BY <2>1 DEF Goto, Settles, GateInv, GateTypeOK, Tasks
  <2> QED
    BY <1>1, <2>1, <2>2, RunRests DEF Labels
<1>4. CASE StreamFails(r)
  <2>1. /\ BooksAlone /\ UNCHANGED <<command, steering, source, live>>
        /\ checkpoint' = [checkpoint EXCEPT ![r] = Requested(r)]
        /\ \/ Goto(r, "recovering") /\ UNCHANGED result
           \/ \E t \in {"Failed", "Cancelled"} : Goto(r, "ended") /\ result' = [result EXCEPT ![r] = t]
    BY <1>4 DEF StreamFails, Ends, session, BooksAlone
  <2>2. ~Settles(r)'
    BY <1>1, <2>1 DEF Goto, Settles, GateInv, GateTypeOK, Tasks
  <2>3. \A p \in Runs \ {r} : result'[p] = result[p]
    BY <1>1, <2>1
  <2> QED
    BY <1>1, <2>1, <2>2, <2>3, RunRests DEF Labels
<1>5. CASE Finishes(r)
  <2>1. /\ phase[r] = "finishing" /\ Goto(r, "over") /\ BooksAlone
        /\ UNCHANGED <<command, steering, source, live, checkpoint, result>>
    BY <1>5 DEF Finishes, At, session, BooksAlone
  <2>2. Settles(r)
    BY <2>1 DEF Settles
  <2> QED
    BY <1>1, <2>1, <2>2, RunRests DEF Labels
<1> QED
  BY <1>2, <1>3, <1>4, <1>5, AttemptKeepsTranscript, TransformKeepsTranscript,
     InjectKeepsTranscript, AnsweredKeepsTranscript, BatchKeepsTranscript,
     RecoversKeepsTranscript, LeavesKeepsTranscript DEF RunStep

\* The gate has no part in the transcript.
LEMMA GateKeepsTranscript ==
    ASSUME TranscriptInv, NEW c \in Calls, CallStep(c)
    PROVE  TranscriptInv'
<1>1. GateOnly
  BY DEF CallStep, Starts, GivesUp, Acquires, Arms, Hears, Withdraws, Executes
<1>2. Shapes' /\ Steered' /\ Emptied'
  BY <1>1 DEF GateOnly, TranscriptInv, Shapes, Steered, Emptied, Settles
<1>3. InBooks'
  BY <1>1 DEF GateOnly, TranscriptInv, InBooks, Told, Of
<1> QED
  BY <1>2, <1>3 DEF TranscriptInv

LEMMA StepKeepsTranscript ==
    ASSUME GateInv, LedgerInv, TranscriptInv, [Next]_vars
    PROVE  TranscriptInv'
<1>1. CASE User \/ CommandStep \/ CompactionStep
  BY <1>1, CommandsKeepTranscript, PushKeepsTranscript, FreshKeepsTranscript, CompactionKeepsTranscript
<1>2. ASSUME NEW r \in Runs, RunStep(r) PROVE TranscriptInv'
  BY <1>2, RunsKeepTranscript
<1>3. ASSUME NEW c \in Calls, CallStep(c) PROVE TranscriptInv'
  BY <1>3, GateKeepsTranscript
<1>4. CASE UNCHANGED vars
  <2>1. Shapes' /\ Steered' /\ Emptied'
    BY <1>4 DEF vars, session, engine, TranscriptInv, Shapes, Steered, Emptied, Settles
  <2>2. InBooks'
    BY <1>4 DEF vars, session, engine, TranscriptInv, InBooks, Told, Of
  <2> QED
    BY <2>1, <2>2 DEF TranscriptInv
<1> QED
  BY <1>1, <1>2, <1>3, <1>4 DEF Next

LEMMA TranscriptFollows == TranscriptInv => TranscriptExact
<1> SUFFICES ASSUME TranscriptInv PROVE TranscriptExact
  OBVIOUS
<1>1. IsInjective(Told) /\ ToSet(Told) \cap cleared = {}
  BY DEF TranscriptInv, InBooks, Books, Once
<1>2. ASSUME NEW r \in Runs PROVE InOrder(Told, r)
  BY DEF TranscriptInv, InBooks, Books, Ordered
<1>3. ASSUME NEW r \in Runs, At(r, "over")
      PROVE  /\ \A i \in 1..made[r] : Kept(<<r, i>>)
             /\ \A s \in accepted : s[1] = r => Kept(s[2]) \/ Raw(s[2]) \in ToSet(queue[r])
  <2>1. ToSet(Of(done)[r]) = {}
    BY <1>3, CoversEmpty, EmptyTells DEF At, TranscriptInv, Emptied, Settles, Of
  <2>2. Of(queue)[r] = Covers(queue[r])
    BY DEF Of
  <2>3. \A i \in 1..made[r] : Kept(<<r, i>>)
    BY <2>1 DEF TranscriptInv, InBooks, Books, Whole, Kept
  <2>4. ASSUME NEW s \in accepted, s[1] = r
        PROVE  Kept(s[2]) \/ Raw(s[2]) \in ToSet(queue[r])
    <3>1. s[2] \in ToSet(Told) \cup cleared \cup ToSet(Of(done)[r]) \cup ToSet(Of(queue)[r])
      BY <2>4 DEF TranscriptInv, InBooks, Books, Whole
    <3> QED
      BY <3>1, <2>1, <2>2 DEF Kept, TranscriptInv, Steered
  <2> QED
    BY <2>3, <2>4
<1> QED
  BY <1>1, <1>2, <1>3 DEF TranscriptExact

\* The transcript says everything once and in order, whatever runs overlap,
\* retry, checkpoint or are compacted: each message of a run that has ended and
\* each steer it accepted is there, unless a fresh plan has put it aside.
THEOREM TranscriptSaysOnce == Spec => []TranscriptExact
<1>1. GateInv /\ LedgerInv /\ TranscriptInv /\ [Next]_vars => TranscriptInv'
  BY StepKeepsTranscript
<1> QED
  BY <1>1, InitTranscript, GateAlways, LedgerAlways, TranscriptFollows, PTL DEF Spec
=============================================================================
