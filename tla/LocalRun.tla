------------------------------- MODULE LocalRun -------------------------------
(***************************************************************************)
(* The runs of one session of the local provider                           *)
(* (src/crates/provider-local/src): the commands of provider.rs, the task  *)
(* engine.rs spawns for a prompt, the permission gate of its tool calls    *)
(* (permissions.rs, loop_state.rs) and an explicit compaction              *)
(* (compaction.rs).  A prompt supersedes the runs before it, but does not  *)
(* wait for them: their tasks go on beside the new one until they notice,  *)
(* and share the transcript, the permission slot, the policy and the       *)
(* steering handle of the session.  The commands take the provider         *)
(* exclusively, so there is one at a time.                                 *)
(*                                                                         *)
(* The agent loop itself is a library: it requests the model, hands a      *)
(* batch of tool calls to the gate, drains the steering queue between      *)
(* them, and returns when its token is cancelled.                          *)
(***************************************************************************)
EXTENDS ModelTranscript, FiniteSets

CONSTANTS Runs,       \* the prompts, numbered in the order they are given
          Calls,      \* the tool calls that need the user's permission
          Owner,      \* per call: the run that makes it
          Options,    \* the answers a request offers
          MaxWork     \* bound on the batches of tool calls, retries, goal turns, checkpoints,
                      \* steers, cancels, fresh plans, compactions and closes,
                      \* all together

Answers  == {"allow_once", "allow_always", "reject_once", "reject_always"}
Allowing == {"allow_once", "allow_always"}

ASSUME LocalRunAssumption ==
    /\ Runs \subseteq Nat \ {0}
    /\ 0 \notin Calls /\ Owner \in [Calls -> Runs]
    /\ Options \subseteq Answers /\ MaxWork \in Nat

Ledger == INSTANCE ExecutionLedger

None == 0
Compaction == 0   \* the id an explicit compaction registers
Tasks == Runs \cup {Compaction}
CallsOf(r) == {c \in Calls : Owner[c] = r}

VARIABLES
    command,     \* the command that holds the provider, and its run
    phase,       \* per task: where it is
    cancelled,   \* the tasks whose token is cancelled
    transcript,  \* session.transcript
    steering,    \* session.steering: the run whose queue it is, or None
    slot,        \* RunControl.pending: the request the user sees, or None
    policy,      \* session.policy of the tool
    live,        \* per run: the messages its agent loop works on
    done,        \* per run: CompletedRunTranscript, what it has not committed
    checkpoint,  \* per run: the compactor's checkpoint
    prompted,    \* per run: it has messages to begin its next attempt with
    queue,       \* per run: EngineSteering
    ledger,      \* per run: its execution ledger
    result,      \* per run: the terminal state of its outcome
    call,        \* per call: where it is
    reply,       \* per call: what came down its response channel
    source,      \* what the compaction has read
    \* history
    made, work, accepted, cleared, said

session == <<transcript, steering, slot, policy>>
engine  == <<live, done, checkpoint, prompted, queue, ledger, result, made>>
gate    == <<call, reply>>
vars    == <<command, phase, cancelled, session, engine, gate, source, work, accepted,
             cleared, said>>

Init ==
    /\ command = [at |-> "idle", run |-> None]
    /\ phase = [t \in Tasks |-> "none"] /\ cancelled = {}
    /\ transcript = <<>> /\ steering = None /\ slot = None /\ policy = "ask"
    /\ live = [r \in Runs |-> <<>>] /\ done = [r \in Runs |-> <<>>]
    /\ checkpoint = [r \in Runs |-> NoCheckpoint]
    /\ prompted = [r \in Runs |-> TRUE]
    /\ queue = [r \in Runs |-> <<>>]
    /\ ledger = [r \in Runs |-> Ledger!NewRoot]
    /\ result = [r \in Runs |-> "none"]
    /\ call = [c \in Calls |-> "none"] /\ reply = [c \in Calls |-> "none"]
    /\ source = <<>>
    /\ made = [r \in Runs |-> 0]
    /\ work = 0 /\ accepted = {} /\ cleared = {}
    /\ said = [c \in Calls |-> "unasked"]

\* RunCancellationRegistry: from the prompt to the end of the task.
Registered == {t \in Tasks : phase[t] \notin {"none", "over"}}
Compacting == Compaction \in Registered

At(t, label) == phase[t] = label
Goto(t, label) == phase' = [phase EXCEPT ![t] = label]
Idle == command.at = "idle"
Command(label, r) == command' = [at |-> label, run |-> r]
Works == work < MaxWork /\ work' = work + 1

-----------------------------------------------------------------------------
(* The commands                                                            *)

\* prompt: no compaction is running; every token of the registry is cancelled.
Prompt(r) ==
    /\ Idle /\ At(r, "none") /\ \A q \in Runs : q < r => ~At(q, "none")
    /\ ~Compacting
    /\ cancelled' = cancelled \cup Registered
    /\ Command("supersede", r)
    /\ UNCHANGED <<phase, session, engine, gate, source, work, accepted, cleared, said>>

\* The second half of supersede_parked_runs drops the armed request.
Supersede ==
    /\ command.at = "supersede"
    /\ slot' = None /\ Command("spawn", command.run)
    /\ UNCHANGED <<phase, cancelled, transcript, steering, policy, engine, gate, source,
                   work, accepted, cleared, said>>

Spawn ==
    /\ command.at = "spawn"
    /\ Goto(command.run, "opening") /\ Command("idle", None)
    /\ ledger' = [ledger EXCEPT ![command.run] = Ledger!StartAttempt(@)]
    /\ UNCHANGED <<cancelled, session, live, done, checkpoint, prompted, queue, result,
                   made, gate, source, work, accepted, cleared, said>>

\* cancel: the token of one task, and then whichever request is armed.
Cancel(t) ==
    /\ Idle /\ t \in Registered /\ Works
    /\ cancelled' = cancelled \cup {t} /\ Command("clear", t)
    /\ UNCHANGED <<phase, session, engine, gate, source, accepted, cleared, said>>

\* close_session cancels every task, and is the session's last command.
Close ==
    /\ Idle /\ Works
    /\ cancelled' = cancelled \cup Registered /\ Command("close", None)
    /\ UNCHANGED <<phase, session, engine, gate, source, accepted, cleared, said>>

Clear ==
    /\ command.at \in {"clear", "close"}
    /\ slot' = None
    /\ Command(IF command.at = "clear" THEN "idle" ELSE "closed", None)
    /\ UNCHANGED <<phase, cancelled, transcript, steering, policy, engine, gate, source,
                   work, accepted, cleared, said>>

\* Mutated form: an answer is for whatever request is armed.
ResolvesAny(c) == slot # None
\* RunControl::resolve: an answer is for the request it names.
Resolves(c) == slot = c

\* respond, with the user's answer to a request that has been shown.  An answer
\* that comes too late matters only while another request is armed.
Respond(c, answer) ==
    /\ Idle /\ said[c] = "open" /\ slot # None
    /\ said' = [said EXCEPT ![c] = answer]
    /\ IF Resolves(c)
       THEN reply' = [reply EXCEPT ![slot] = answer] /\ slot' = None
       ELSE UNCHANGED <<reply, slot>>
    /\ UNCHANGED <<command, phase, cancelled, transcript, steering, policy, engine, call,
                   source, work, accepted, cleared>>

\* respond, with a plan to be carried out in a fresh context.
ImplementFresh ==
    /\ Idle /\ Works /\ transcript # <<>>
    /\ transcript' = <<>> /\ cleared' = cleared \cup ToSet(Covers(transcript))
    /\ UNCHANGED <<command, phase, cancelled, steering, slot, policy, engine, gate, source,
                   accepted, said>>

\* steer takes the queue under the session lock and pushes after releasing it.
Steer ==
    /\ Idle /\ Works /\ steering # None
    /\ Command("push", steering)
    /\ UNCHANGED <<phase, cancelled, session, engine, gate, source, accepted, cleared, said>>

Push ==
    /\ command.at = "push" /\ Command("idle", None)
    /\ LET s == <<0, Cardinality(accepted) + 1>>
       IN /\ queue' = [queue EXCEPT ![command.run] = Append(@, Raw(s))]
          /\ accepted' = accepted \cup {<<command.run, s>>}
    /\ UNCHANGED <<phase, cancelled, session, live, done, checkpoint, prompted, ledger,
                   result, made, gate, source, work, cleared, said>>

Compact ==
    /\ Idle /\ Works /\ At(Compaction, "none") /\ Registered = {} /\ transcript # <<>>
    /\ Goto(Compaction, "reading")
    /\ UNCHANGED <<command, cancelled, session, engine, gate, source, accepted, cleared, said>>

-----------------------------------------------------------------------------
(* run_manual_compaction                                                   *)

CompactionReads ==
    /\ At(Compaction, "reading") /\ Goto(Compaction, "asking")
    /\ source' = transcript
    /\ UNCHANGED <<command, cancelled, session, engine, gate, work, accepted, cleared, said>>

\* The summary replaces the transcript it was made from, and no other; or
\* there is none.
CompactionEnds ==
    /\ At(Compaction, "asking") /\ Goto(Compaction, "over")
    /\ \/ transcript = source /\ transcript' = Compacted(source)
       \/ UNCHANGED transcript
    /\ UNCHANGED <<command, cancelled, steering, slot, policy, engine, gate, source, work,
                   accepted, cleared, said>>

-----------------------------------------------------------------------------
(* run_turn                                                                *)

\* The next n messages of the run.
Own(r, n) == [i \in 1..n |-> Raw(<<r, made[r] + i>>)]
Makes(r, n) == made' = [made EXCEPT ![r] = @ + n]

\* A run cancelled before its loop begins ends without a word in the
\* transcript.
Opens(r) ==
    /\ At(r, "opening")
    /\ IF r \in cancelled
       THEN Goto(r, "finishing") /\ result' = [result EXCEPT ![r] = "Cancelled"]
       ELSE Goto(r, "driving") /\ UNCHANGED result
    /\ UNCHANGED <<command, cancelled, session, live, done, checkpoint, prompted, queue,
                   ledger, made, gate, source, work, accepted, cleared, said>>

\* The loop: the queue is offered to steer before the first attempt, and each
\* attempt starts from the session's transcript, with prompts or without.
Attempt(r) ==
    /\ phase[r] \in {"driving", "attempt"} /\ Goto(r, "call")
    /\ steering' = IF At(r, "driving") THEN r ELSE steering
    /\ LET prompt == IF prompted[r] THEN Own(r, 1) ELSE <<>>
       IN /\ live' = [live EXCEPT ![r] = transcript \o prompt]
          /\ done' = [done EXCEPT ![r] = @ \o prompt]
          /\ Makes(r, Len(prompt))
    /\ prompted' = [prompted EXCEPT ![r] = FALSE]
    /\ UNCHANGED <<command, cancelled, transcript, slot, policy, checkpoint, queue, ledger,
                   result, gate, source, work, accepted, cleared, said>>

\* Before a request: the checkpoint is projected, or dropped if it is not for
\* this lineage, and a new one is made when the request would be too long.
\* After an overflow the loop itself goes on with what the pass returned.
Transform(r, overflow) ==
    /\ At(r, "call") /\ Works /\ Len(live[r]) > 1
    /\ LET next == Compacted(Projected(checkpoint[r], live[r]))
       IN /\ checkpoint' = [checkpoint EXCEPT ![r] = Checkpoint(live[r], next)]
          /\ live' = IF overflow THEN [live EXCEPT ![r] = next] ELSE live
    /\ UNCHANGED <<command, phase, cancelled, session, done, prompted, queue, ledger,
                   result, made, gate, source, accepted, cleared, said>>

\* EngineSteering, which the loop drains between two requests.
Inject(r) ==
    /\ At(r, "call") /\ queue[r] # <<>>
    /\ live' = [live EXCEPT ![r] = @ \o queue[r]]
    /\ done' = [done EXCEPT ![r] = @ \o queue[r]]
    /\ queue' = [queue EXCEPT ![r] = <<>>]
    /\ UNCHANGED <<command, phase, cancelled, session, checkpoint, prompted, ledger, result,
                   made, gate, source, work, accepted, cleared, said>>

\* One request of the model: should_run has dropped a checkpoint that does not
\* apply.
Requested(r) == Applicable(checkpoint[r], live[r])

CallsTools(r) ==
    /\ At(r, "call") /\ Goto(r, "batch")
    /\ CallsOf(r) # {} /\ \A c \in CallsOf(r) : call[c] = "none"
    /\ Works
    /\ checkpoint' = [checkpoint EXCEPT ![r] = Requested(r)]
    /\ call' = [c \in Calls |-> IF c \in CallsOf(r) THEN "ready" ELSE call[c]]
    /\ UNCHANGED <<command, cancelled, session, live, done, prompted, queue, ledger, result,
                   made, reply, source, accepted, cleared, said>>

Ends(r, terminal) == Goto(r, "ended") /\ result' = [result EXCEPT ![r] = terminal]

\* A batch whose calls have all returned is a turn, unless one was fatal or
\* aborted.
BatchEnds(r) ==
    /\ At(r, "batch") /\ \A c \in CallsOf(r) : call[c] \in {"ran", "denied", "aborted", "fatal"}
    /\ LET outcomes == {call[c] : c \in CallsOf(r)}
       IN IF outcomes \cap {"aborted", "fatal"} # {}
          THEN /\ Ends(r, IF "fatal" \in outcomes THEN "Failed" ELSE "Cancelled")
               /\ UNCHANGED <<live, done, made>>
          ELSE /\ Goto(r, "call") /\ Makes(r, 1) /\ UNCHANGED result
               /\ live' = [live EXCEPT ![r] = @ \o Own(r, 1)]
               /\ done' = [done EXCEPT ![r] = @ \o Own(r, 1)]
    /\ UNCHANGED <<command, cancelled, session, checkpoint, prompted, queue, ledger,
                   gate, source, work, accepted, cleared, said>>

\* A transient failure is recovered at a boundary the ledger has proved, when
\* nothing is asked of the user; any other ends the run.
Recoverable(r) ==
    /\ r \notin cancelled /\ slot = None /\ Ledger!CanRecover(ledger[r])

StreamFails(r) ==
    /\ At(r, "call")
    /\ checkpoint' = [checkpoint EXCEPT ![r] = Requested(r)]
    /\ \/ /\ Recoverable(r) /\ Works /\ Goto(r, "recovering") /\ UNCHANGED result
          /\ ledger' = [ledger EXCEPT ![r] = Ledger!ScheduleRecovery(@)]
       \/ Ends(r, "Failed") /\ UNCHANGED <<ledger, work>>
       \/ r \in cancelled /\ Ends(r, "Cancelled") /\ UNCHANGED <<ledger, work>>
    /\ UNCHANGED <<command, cancelled, session, live, done, prompted, queue, made,
                   gate, source, accepted, cleared, said>>

\* commit_appended: what the run has completed, with the checkpoint applied.
Commit(known, messages) == Projected(known, transcript \o messages)
Committed(r) == /\ checkpoint' = [checkpoint EXCEPT ![r] = NoCheckpoint]
                /\ done' = [done EXCEPT ![r] = <<>>]

\* After the wait for background work: commit, and a marker for the model.
Recovers(r) ==
    /\ At(r, "recovering") /\ Goto(r, "attempt")
    /\ transcript' = Commit(checkpoint[r], done[r]) \o Own(r, 1)
    /\ Committed(r) /\ Makes(r, 1)
    /\ UNCHANGED <<command, cancelled, steering, slot, policy, live, prompted, queue, ledger,
                   result, gate, source, work, accepted, cleared, said>>

\* The model answers without tools and the attempt has succeeded: its messages
\* are committed, and an active goal continues with a prompt of its own.
Answered(r) ==
    /\ At(r, "call")
    /\ transcript' = Commit(Requested(r), done[r] \o Own(r, 1))
    /\ Committed(r) /\ Makes(r, 1)
    /\ \/ /\ r \notin cancelled /\ Works
          /\ prompted' = [prompted EXCEPT ![r] = TRUE]
          /\ Goto(r, "attempt") /\ UNCHANGED result
       \/ Ends(r, "Completed") /\ UNCHANGED <<prompted, work>>
    /\ UNCHANGED <<command, cancelled, steering, slot, policy, live, queue, ledger, gate,
                   source, accepted, cleared, said>>

\* The queue is closed and what is left in it folded into the transcript; a run
\* that was stopped leaves a note.
Leaves(r) ==
    /\ At(r, "ended") /\ Goto(r, "finishing")
    /\ steering' = None /\ queue' = [queue EXCEPT ![r] = <<>>]
    /\ LET note == IF result[r] = "Cancelled" THEN Own(r, 1) ELSE <<>>
       IN IF result[r] = "Completed"
          THEN transcript' = transcript \o queue[r] /\ UNCHANGED <<checkpoint, done, made>>
          ELSE /\ transcript' = Commit(checkpoint[r], done[r] \o queue[r]) \o note
               /\ Committed(r) /\ Makes(r, Len(note))
    /\ UNCHANGED <<command, cancelled, slot, policy, live, prompted, ledger, result,
                   gate, source, work, accepted, cleared, said>>

\* finish_root, and the registration is dropped with the task.
Finishes(r) ==
    /\ At(r, "finishing") /\ Goto(r, "over")
    /\ ledger' = [ledger EXCEPT ![r] = Ledger!Finalized(@, result[r])]
    /\ UNCHANGED <<command, cancelled, session, live, done, checkpoint, prompted, queue,
                   result, made, gate, source, work, accepted, cleared, said>>

-----------------------------------------------------------------------------
(* PermissionGate, for one call                                            *)

Stopped(c) == Owner[c] \in cancelled
CallGoes(c, label) == call' = [call EXCEPT ![c] = label]
Records(c, l) == ledger' = [ledger EXCEPT ![Owner[c]] = l]
Mine(c) == ledger[Owner[c]]
GateOnly == UNCHANGED <<command, phase, cancelled, transcript, steering, live, done,
                        checkpoint, prompted, queue, result, made, source, work,
                        accepted, cleared>>

\* The call is recorded as started, and check reads the policy.
Starts(c) ==
    /\ call[c] = "ready"
    /\ LET started == Ledger!ToolStarted(Mine(c), c)
       IN \/ policy = "ask" /\ CallGoes(c, "asking") /\ Records(c, started)
          \/ policy = "allow" /\ CallGoes(c, "allowed") /\ Records(c, started)
          \/ policy = "deny" /\ CallGoes(c, "denied") /\ Records(c, Ledger!ToolFinished(started, c))
    /\ GateOnly /\ UNCHANGED <<slot, policy, reply, said>>

\* permission_queue: one call of a run asks at a time.
QueueFree(c) == \A d \in CallsOf(Owner[c]) : call[d] \notin {"arming", "waiting"}

GivesUp(c) ==
    /\ call[c] = "asking" /\ Stopped(c) /\ CallGoes(c, "aborted")
    /\ GateOnly /\ UNCHANGED <<slot, policy, reply, said, ledger>>

\* An earlier request of the batch may have changed the policy meanwhile.
Acquires(c) ==
    /\ call[c] = "asking" /\ ~Stopped(c) /\ QueueFree(c)
    /\ \/ /\ policy = "ask" /\ CallGoes(c, "arming")
          /\ Records(c, Ledger!Transition(Mine(c), "AwaitingInput"))
       \/ policy = "allow" /\ CallGoes(c, "allowed") /\ UNCHANGED ledger
       \/ policy = "deny" /\ CallGoes(c, "denied") /\ Records(c, Ledger!ToolFinished(Mine(c), c))
    /\ GateOnly /\ UNCHANGED <<slot, policy, reply, said>>

\* arm refuses while another request is shown; an event nobody can receive
\* takes the request out again.
Arms(c) ==
    /\ call[c] = "arming"
    /\ \/ /\ slot = None /\ slot' = c /\ CallGoes(c, "waiting")
          /\ said' = [said EXCEPT ![c] = "open"]
       \/ CallGoes(c, "fatal") /\ UNCHANGED <<slot, said>>
    /\ GateOnly /\ UNCHANGED <<policy, reply, ledger>>

\* A resolved wait: the tool may refuse the decision; the policy is applied
\* while the call still has the queue.
Hears(c) ==
    /\ call[c] = "waiting" /\ ~Stopped(c) /\ reply[c] # "none"
    /\ \/ CallGoes(c, "fatal") /\ UNCHANGED <<policy, ledger>>
       \/ LET running == Ledger!Transition(Mine(c), "Running")
          IN /\ policy' = CASE reply[c] = "allow_always" -> "allow"
                            [] reply[c] = "reject_always" -> "deny"
                            [] OTHER -> policy
             /\ IF reply[c] \in Allowing
                THEN CallGoes(c, "allowed") /\ Records(c, running)
                ELSE CallGoes(c, "denied") /\ Records(c, Ledger!ToolFinished(running, c))
    /\ GateOnly /\ UNCHANGED <<slot, reply, said>>

\* Mutated form: the request is left behind.
KeepsSlot(c) == UNCHANGED slot
\* clear_if: only the waiter's own request is taken out.
ClearIf(c) == slot' = IF slot = c THEN None ELSE slot

\* Mutated form: only the channel ends the wait.
WithdrawsClosed(c) ==
    /\ call[c] = "waiting" /\ slot # c /\ reply[c] = "none"
    /\ CallGoes(c, IF Stopped(c) THEN "aborted" ELSE "fatal")
    /\ Records(c, Ledger!Transition(Mine(c), "Running"))
    /\ GateOnly /\ UNCHANGED <<slot, policy, reply, said>>

\* The wait ends without an answer: the run is cancelled, which is looked at
\* first, or the channel is closed.
Withdraws(c) ==
    /\ call[c] = "waiting"
    /\ \/ Stopped(c) /\ CallGoes(c, "aborted")
       \/ ~Stopped(c) /\ slot # c /\ reply[c] = "none" /\ CallGoes(c, "fatal")
    /\ Records(c, Ledger!Transition(Mine(c), "Running"))
    /\ ClearIf(c)
    /\ GateOnly /\ UNCHANGED <<policy, reply, said>>

\* The tool runs, unless the run has been cancelled meanwhile.
Executes(c) ==
    /\ call[c] = "allowed"
    /\ IF Stopped(c) THEN CallGoes(c, "aborted") /\ UNCHANGED ledger
       ELSE CallGoes(c, "ran") /\ Records(c, Ledger!ToolFinished(Mine(c), c))
    /\ GateOnly /\ UNCHANGED <<slot, policy, reply, said>>

-----------------------------------------------------------------------------
CommandStep == Supersede \/ Spawn \/ Clear \/ Push
CompactionStep == CompactionReads \/ CompactionEnds
RunStep(r) ==
    \/ Opens(r) \/ Attempt(r) \/ (\E o \in BOOLEAN : Transform(r, o))
    \/ Inject(r) \/ Answered(r) \/ CallsTools(r) \/ BatchEnds(r) \/ StreamFails(r)
    \/ Recovers(r) \/ Leaves(r) \/ Finishes(r)
CallStep(c) ==
    \/ Starts(c) \/ GivesUp(c) \/ Acquires(c) \/ Arms(c) \/ Hears(c) \/ Withdraws(c)
    \/ Executes(c)
User ==
    \/ \E r \in Runs : Prompt(r)
    \/ \E t \in Tasks : Cancel(t)
    \/ \E c \in Calls, answer \in Options : Respond(c, answer)
    \/ Close \/ ImplementFresh \/ Steer \/ Compact

Next == \/ User \/ CommandStep \/ CompactionStep
        \/ \E r \in Runs : RunStep(r)
        \/ \E c \in Calls : CallStep(c)

Spec == Init /\ [][Next]_vars

\* What is assumed of a task only once its token is cancelled: the loop and the
\* model request return then.  That the user answers is never assumed.
Fairness ==
    /\ WF_vars(CommandStep)
    /\ WF_vars(Compaction \in cancelled /\ CompactionStep)
    /\ \A r \in Runs : WF_vars(r \in cancelled /\ RunStep(r))
    /\ \A c \in Calls : WF_vars(Stopped(c) /\ CallStep(c))
FairSpec == Spec /\ Fairness

-----------------------------------------------------------------------------
(* Properties                                                              *)

Labels == {"none", "opening", "driving", "attempt", "call", "batch", "recovering", "ended",
           "finishing", "reading", "asking", "over"}
CallLabels == {"none", "ready", "asking", "arming", "waiting", "allowed", "denied", "aborted",
               "fatal", "ran"}

GateTypeOK ==
    /\ phase \in [Tasks -> Labels]
    /\ slot \in Calls \cup {None} /\ policy \in {"ask", "allow", "deny"}
    /\ call \in [Calls -> CallLabels] /\ reply \in [Calls -> Answers \cup {"none"}]
    /\ said \in [Calls -> Answers \cup {"unasked", "open"}]

TypeOK ==
    /\ GateTypeOK
    /\ command \in [at : {"idle", "supersede", "spawn", "clear", "close", "closed", "push"},
                    run : Tasks]
    /\ cancelled \subseteq Tasks /\ steering \in Runs \cup {None}
    /\ ledger \in [Runs -> Ledger!Ledgers(Calls)]

\* No tool runs that the user has not allowed: the answer reached the very call
\* it names, or the call was covered by an "always" the user has given, and no
\* rejected call ever runs.
AllowedByUser ==
    \A c \in Calls : call[c] \in {"allowed", "ran"} =>
        IF said[c] \in Answers THEN said[c] \in Allowing
        ELSE \E d \in Calls : said[d] = "allow_always"

\* The one request the user can see always has a live waiter behind it, in the
\* batch of a run that has not ended: a dead one would refuse every later
\* request of the session (supersede_parked_runs, RunControl::clear_if).
RequestOwned ==
    slot # None => call[slot] = "waiting" /\ At(Owner[slot], "batch")

Told == Covers(transcript)
InOrder(messages, r) ==
    \A i, j \in DOMAIN messages :
        i < j /\ messages[i][1] = r /\ messages[j][1] = r => messages[i][2] < messages[j][2]
Kept(message) == message \in ToSet(Told) \cup cleared

\* The transcript the next prompt starts from says everything once: whatever
\* runs overlap, retry, checkpoint or are compacted, a run that has ended has
\* left all its messages there, in order and once, with every message it was
\* steered with before it closed its queue, and nothing a fresh plan has put
\* aside comes back out of a checkpoint or a summary.
TranscriptExact ==
    /\ IsInjective(Told)
    /\ ToSet(Told) \cap cleared = {}
    /\ \A r \in Runs :
          /\ InOrder(Told, r)
          /\ At(r, "over") =>
                /\ \A i \in 1..made[r] : Kept(<<r, i>>)
                /\ \A s \in accepted : s[1] = r => Kept(s[2]) \/ Raw(s[2]) \in ToSet(queue[r])

\* A run that has ended has a settled ledger: its state is the outcome that was
\* published, also when the run was stopped at a permission wait, and no tool
\* is left without a receipt.
LedgerSettled ==
    \A r \in Runs : At(r, "over") => ledger[r].state = result[r] /\ ledger[r].active = {}

\* A cancelled task ends, even if its request is armed only after the cancel
\* has cleared the slot, and nobody ever answers it.
CancelledEnds == []<>(\A t \in cancelled : At(t, "over"))
=============================================================================
