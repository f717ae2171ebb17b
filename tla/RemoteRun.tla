------------------------------- MODULE RemoteRun -------------------------------
(***************************************************************************)
(* The runs of one conversation whose agent lives in a remote worker: the  *)
(* desktop's adapter (src/crates/provider-remote-worker/src/lib.rs), the   *)
(* worker's stdin loop (src/crates/code-worker/src/stdio.rs), the host's   *)
(* table of active invocations (src/crates/code-host/src/host.rs) and the  *)
(* coding plugin (src/crates/code-worker/src/coding.rs).                   *)
(*                                                                         *)
(* The frames of a prompt are a stream that RemoteTransport keeps in order *)
(* and that may fail at any moment.  A line the desktop writes becomes a   *)
(* task of the worker at once: its delay on the way is that of the task.   *)
(***************************************************************************)
EXTENDS Integers, Sequences, FiniteSets

CONSTANTS Prompts,    \* the prompts of the conversation, numbered in order
          Permits,    \* max_concurrent_requests of the worker
          UiBuffer,   \* the bound of the public event channel
          MaxWork     \* per prompt: a bound on the events of its run between
                      \* its start and its end

ASSUME RunBounds ==
    /\ Prompts \subseteq Nat /\ MaxWork \in [Prompts -> Nat]
    /\ Permits \in Nat \ {0} /\ UiBuffer \in Nat \ {0}

VARIABLES
    link,       \* the connection is up or down
    inbox,      \* per prompt: the frames on their way to the desktop
    relay,      \* per prompt: where its relay task is
    finished,   \* prompts whose relay has seen a RunFinished
    terminal,   \* prompts whose relay has seen the worker's answer
    toUi,       \* per prompt: the public events not yet shown
    ui,         \* per prompt: what the conversation shows
    shown,      \* per prompt: the work it has shown
    task,       \* per prompt: the worker's task that serves it
    cancelling, \* the tasks that serve a cancel of a prompt
    cancels,    \* prompts whose invocation token is cancelled
    known,      \* prompts whose RunStarted the plugin has read
    run,        \* per prompt: the provider's run
    stopAsked,  \* runs whose provider token is cancelled
    events,     \* per prompt: the run's events nobody has read
    worked      \* per prompt: work events of the run

relays  == <<relay, finished, terminal>>
screen  == <<toUi, ui, shown>>
serving == <<task, cancelling, cancels, known>>
agent   == <<run, stopAsked, events, worked>>
vars    == <<link, inbox, relays, screen, serving, agent>>

Progress(e) == [kind |-> "progress", body |-> e]
Answer(e) == [kind |-> "terminal", body |-> e]
Broken == [kind |-> "error", body |-> "transport"]
Ends == {"done", "failed", "cancelled"}

\* The adapter's active runs: every relay removes its own when it ends.
Active == {p \in Prompts : relay[p] \notin {"idle", "over"}}

\* The invocations a cancel can find.
HostActive == {p \in Prompts : task[p] \in {"begun", "prompting", "streaming"}}

Live == {p \in Prompts : run[p] \in {"new", "running", "parked"}} \ stopAsked

Init ==
    /\ link = "up" /\ inbox = [p \in Prompts |-> <<>>]
    /\ finished = {} /\ terminal = {}
    /\ relay = [p \in Prompts |-> "idle"]
    /\ toUi = [p \in Prompts |-> <<>>]
    /\ ui = [p \in Prompts |-> "none"]
    /\ shown = [p \in Prompts |-> 0]
    /\ task = [p \in Prompts |-> "none"]
    /\ cancelling = {} /\ cancels = {} /\ known = {}
    /\ run = [p \in Prompts |-> "none"]
    /\ stopAsked = {} /\ events = [p \in Prompts |-> <<>>]
    /\ worked = [p \in Prompts |-> 0]

-----------------------------------------------------------------------------
(* The connection                                                          *)

\* What is written for a request that has ended, or been answered, is dropped.
Listening(p) ==
    /\ relay[p] = "next"
    /\ \A i \in 1..Len(inbox[p]) : inbox[p][i].kind = "progress"

Send(p, f) ==
    inbox' = IF link = "up" /\ Listening(p)
             THEN [inbox EXCEPT ![p] = Append(@, f)] ELSE inbox

\* A deadline, backpressure or a lost connection.
StreamFails(p) ==
    /\ Listening(p)
    /\ inbox' = [inbox EXCEPT ![p] = Append(@, Broken)]
    /\ UNCHANGED <<link, relays, screen, serving, agent>>

TimesOut(p) == inbox[p] = <<>> /\ StreamFails(p)

LinkLost ==
    /\ link = "up" /\ link' = "down"
    /\ UNCHANGED <<inbox, relays, screen, serving, agent>>

\* disconnect: the worker cancels what is active before its input ends.
Disconnect ==
    /\ link = "up" /\ link' = "down"
    /\ cancels' = cancels \cup HostActive
    /\ UNCHANGED <<inbox, relays, screen, task, cancelling, known, agent>>

-----------------------------------------------------------------------------
(* serve_stdio: a line becomes a task, or is refused without a permit      *)

Busy == {p \in Prompts : task[p] \notin {"none", "over"}}

Permitted == Cardinality(Busy) + Cardinality(cancelling) < Permits

\* One line per caller: a stop of the user's, and that of the relay.
WriteCancel(p, by) ==
    cancelling' = IF link = "up" /\ Permitted
                  THEN cancelling \cup {<<p, by>>} ELSE cancelling

\* host.rs Cancel: the token of the invocation, if it is active by now.
ServeCancel(p, by) ==
    /\ <<p, by>> \in cancelling
    /\ cancelling' = cancelling \ {<<p, by>>}
    /\ cancels' = cancels \cup (HostActive \cap {p})
    /\ UNCHANGED <<link, inbox, relays, screen, task, known, agent>>

-----------------------------------------------------------------------------
(* The adapter                                                             *)

\* prompt: one run at a time; RunStarted is public before the worker says so.
Prompt(p) ==
    /\ relay[p] = "idle" /\ Active = {}
    /\ \A q \in Prompts : q < p => relay[q] # "idle"
    /\ relay' = [relay EXCEPT ![p] = "next"]
    /\ ui' = [ui EXCEPT ![p] = "open"]
    /\ \/ /\ link = "up" /\ Permitted
          /\ task' = [task EXCEPT ![p] = "spawned"] /\ UNCHANGED inbox
       \/ /\ link = "up" /\ ~Permitted
          /\ inbox' = [inbox EXCEPT ![p] = <<Answer("error")>>] /\ UNCHANGED task
       \/ link = "down" /\ UNCHANGED <<inbox, task>>
    /\ UNCHANGED <<link, finished, terminal, toUi, shown, cancelling, cancels,
                   known, agent>>

Watched(p) == ui[p] = "open"

\* tx.send waits for room; a conversation that looks elsewhere takes nothing.
Publish(p, e) ==
    /\ Len(toUi[p]) < UiBuffer
    /\ toUi' = [toUi EXCEPT ![p] = Append(@, e)]

Emit(p, e) ==
    IF e # "none" /\ Watched(p) THEN Publish(p, e) ELSE UNCHANGED toUi

\* A frame stays at the head of its stream until its event is sent.
TakeFrame(p, f, to) ==
    /\ relay[p] = "next" /\ inbox[p] # <<>> /\ f = Head(inbox[p])
    /\ relay' = [relay EXCEPT ![p] = to]
    /\ inbox' = [inbox EXCEPT ![p] = IF to = "next" THEN Tail(@) ELSE <<>>]
    /\ UNCHANGED <<link, ui, shown, serving, agent>>

\* The worker's own RunStarted is swallowed.
SkipStarted(p, f) ==
    /\ TakeFrame(p, f, "next") /\ f = Progress("started")
    /\ UNCHANGED <<finished, terminal, toUi>>

RelayEvent(p, f) ==
    /\ f.kind = "progress" /\ f.body # "started"
    /\ Watched(p) /\ TakeFrame(p, f, "next") /\ Publish(p, f.body)
    /\ finished' = IF f.body \in Ends THEN finished \cup {p} ELSE finished
    /\ UNCHANGED terminal

\* An event for a conversation that has stopped looking ends the relay.
RelayStops(p, f) ==
    /\ f.kind = "progress" /\ f.body # "started"
    /\ ~Watched(p) /\ TakeFrame(p, f, "abandon")
    /\ UNCHANGED <<finished, terminal, toUi>>

\* The event that ends the public run when the worker answers first: none
\* after a result that followed a RunFinished, one for every other answer.
EndAfter(p, body) ==
    CASE body = "cancelled" -> "cancelled"
      [] body = "result" /\ p \in finished -> "none"
      [] OTHER -> "failed"

RelayAnswer(p, f) ==
    /\ f.kind = "terminal" /\ TakeFrame(p, f, "over") /\ Emit(p, EndAfter(p, f.body))
    /\ terminal' = terminal \cup {p}
    /\ finished' = finished \ {p}

\* An error of the stream, a timeout of next() among them.
RelayFails(p, f) ==
    /\ f = Broken /\ TakeFrame(p, f, "abandon") /\ Emit(p, "failed")
    /\ UNCHANGED <<finished, terminal>>

\* abandon_run: the cancel of a request nobody reads any more, best effort.
Abandon(p) ==
    /\ relay[p] = "abandon"
    /\ WriteCancel(p, "relay")
    /\ relay' = [relay EXCEPT ![p] = "cancelling"]
    /\ UNCHANGED <<link, inbox, finished, terminal, screen, task, cancels,
                   known, agent>>

\* Mutant of Abandoned: the cancel is waited for without a deadline.
AbandonedServed(p) ==
    /\ relay[p] = "cancelling" /\ <<p, "relay">> \notin cancelling
    /\ relay' = [relay EXCEPT ![p] = "over"]
    /\ finished' = finished \ {p}
    /\ UNCHANGED <<link, inbox, terminal, screen, serving, agent>>

\* It is answered, refused, or times out.
Abandoned(p) ==
    /\ relay[p] = "cancelling"
    /\ relay' = [relay EXCEPT ![p] = "over"]
    /\ finished' = finished \ {p}
    /\ UNCHANGED <<link, inbox, terminal, screen, serving, agent>>

\* cancel: a call of its own.
Stop(p) ==
    /\ p \in Active /\ <<p, "user">> \notin cancelling
    /\ WriteCancel(p, "user")
    /\ UNCHANGED <<link, inbox, relays, screen, task, cancels, known, agent>>

-----------------------------------------------------------------------------
(* The conversation (provider_stream.rs): it shows events in order, stops  *)
(* at the first end, and may be closed or replaced at any time             *)

UiShows(p) ==
    /\ Watched(p) /\ toUi[p] # <<>>
    /\ LET e == Head(toUi[p]) IN
       /\ ui' = IF e \in Ends THEN [ui EXCEPT ![p] = e] ELSE ui
       /\ shown' = IF e \in Ends THEN shown ELSE [shown EXCEPT ![p] = @ + 1]
       /\ toUi' = [toUi EXCEPT ![p] = IF e \in Ends THEN <<>> ELSE Tail(@)]
    /\ UNCHANGED <<link, inbox, relays, serving, agent>>

UiGone(p) ==
    /\ Watched(p)
    /\ ui' = [ui EXCEPT ![p] = "gone"]
    /\ toUi' = [toUi EXCEPT ![p] = <<>>]
    /\ UNCHANGED <<link, inbox, relays, shown, serving, agent>>

-----------------------------------------------------------------------------
(* The coding plugin                                                       *)

\* The session's lock is held for the whole of the provider's prompt.
SessionFree == \A p \in Prompts : task[p] # "prompting"

\* The provider's token of a run: it ends as cancelled.
Cancelling(S) == stopAsked' = stopAsked \cup {p \in S : run[p] \notin {"none", "ended"}}

\* The plugin returns: its token and its stream of events are dropped.
Leave(p, to) ==
    /\ task' = [task EXCEPT ![p] = to]
    /\ events' = [events EXCEPT ![p] = <<>>]
    /\ cancels' = cancels \ {p} /\ known' = known \ {p}
    /\ UNCHANGED <<link, relays, screen, cancelling, run, worked>>

Return(p, f) == Leave(p, "over") /\ Send(p, f)

\* The invocation becomes active; reserving its receipt may refuse it.
BeginInvoke(p) ==
    /\ task[p] = "spawned"
    /\ task' = [task EXCEPT ![p] = "begun"]
    /\ UNCHANGED <<link, inbox, relays, screen, cancelling, cancels, known, agent>>

InvokeRefused(p) ==
    /\ task[p] = "begun"
    /\ Return(p, Answer("error")) /\ UNCHANGED stopAsked

\* Mutant of Supersede: only what is parked right now.
SupersedeParked == Cancelling({p \in Prompts : run[p] = "parked"})

\* supersede_parked_runs: a new turn cancels whatever the session still runs.
Supersede == Cancelling(Prompts)

PromptStarts(p) ==
    /\ task[p] = "begun" /\ p \notin cancels /\ SessionFree
    /\ task' = [task EXCEPT ![p] = "prompting"]
    /\ Supersede
    /\ UNCHANGED <<link, inbox, relays, screen, cancelling, cancels, known, run,
                   events, worked>>

PromptCancelled(p) ==
    /\ task[p] = "begun" /\ p \in cancels /\ SessionFree
    /\ Return(p, Answer("cancelled")) /\ UNCHANGED stopAsked

\* The end of the preflight; no cancellation is looked at on the way.
PromptReady(p) ==
    /\ task[p] = "prompting"
    /\ task' = [task EXCEPT ![p] = "streaming"]
    /\ run' = [run EXCEPT ![p] = "new"]
    /\ UNCHANGED <<link, inbox, relays, screen, cancelling, cancels, known,
                   stopAsked, events, worked>>

PromptFails(p) ==
    /\ task[p] = "prompting"
    /\ Return(p, Answer("error")) /\ UNCHANGED stopAsked

\* select!: either side may win.  A run that has not yet announced itself is
\* not cancelled with its request.
LoopCancelled(p) ==
    /\ task[p] = "streaming" /\ p \in cancels
    /\ p \in known => SessionFree
    /\ Cancelling({p} \cap known)
    /\ Return(p, Answer("cancelled"))

\* Mutant of Lines: a line that is too long is cut to one the relay ignores.
LinesCut(e) == {Progress(e)} \cup (IF e = "work" THEN {Progress("started")} ELSE {})

\* An event crosses as progress; past max_response_bytes its line is replaced
\* by an error, which the desktop takes for the answer.
Lines(e) == {Progress(e)} \cup (IF e = "work" THEN {Answer("error")} ELSE {})

LoopEvent(p) ==
    /\ task[p] = "streaming" /\ events[p] # <<>> /\ SessionFree
    /\ LET e == Head(events[p]) IN
       /\ \E f \in Lines(e) : Send(p, f)
       /\ \/ (e \in Ends \/ link = "down") /\ Leave(p, "replying")
          \/ /\ e \notin Ends /\ link = "up"
             /\ known' = IF e = "started" THEN known \cup {p} ELSE known
             /\ events' = [events EXCEPT ![p] = Tail(@)]
             /\ UNCHANGED <<link, relays, screen, task, cancelling, cancels,
                            run, worked>>
    /\ UNCHANGED stopAsked

\* The run's task died without a terminal event.
LoopEof(p) ==
    /\ task[p] = "streaming" /\ events[p] = <<>> /\ run[p] = "ended"
    /\ Return(p, Answer("error")) /\ UNCHANGED stopAsked

\* The finish record or the receipt may fail after the run has ended.
Reply(p) ==
    /\ task[p] = "replying"
    /\ \E e \in {"result", "error"} : Return(p, Answer(e))
    /\ UNCHANGED stopAsked

\* session.respond: an answer needs a permit and the session's lock.
Respond(p) ==
    /\ link = "up" /\ Permitted /\ SessionFree /\ run[p] = "parked"
    /\ run' = [run EXCEPT ![p] = "running"]
    /\ UNCHANGED <<link, inbox, relays, screen, serving, stopAsked, events, worked>>

\* The process ends once its input has ended and its tasks are done.
WorkerExits ==
    /\ link = "down" /\ Busy = {} /\ cancelling = {}
    /\ \E p \in Prompts : run[p] \notin {"none", "ended"}
    /\ run' = [p \in Prompts |-> IF run[p] = "none" THEN "none" ELSE "ended"]
    /\ stopAsked' = {}
    /\ UNCHANGED <<link, inbox, relays, screen, serving, events, worked>>

-----------------------------------------------------------------------------
(* A run of the worker's provider; once the plugin has returned, its       *)
(* events go nowhere                                                       *)

RunStep(p, from, to, e) ==
    /\ run[p] \in from
    /\ run' = [run EXCEPT ![p] = to]
    /\ events' = IF task[p] = "streaming" THEN [events EXCEPT ![p] = @ \o e] ELSE events
    /\ stopAsked' = IF to = "ended" THEN stopAsked \ {p} ELSE stopAsked
    /\ UNCHANGED <<link, inbox, relays, screen, serving>>

RunStarts(p) == RunStep(p, {"new"}, "running", <<"started">>) /\ UNCHANGED worked

RunWorks(p) ==
    /\ worked[p] < MaxWork[p]
    /\ worked' = [worked EXCEPT ![p] = @ + 1]
    /\ RunStep(p, {"running"}, "running", <<"work">>)

\* A permission prompt: the run waits for an answer or for its token.
RunParks(p) ==
    /\ p \notin stopAsked
    /\ RunStep(p, {"running"}, "parked", <<>>) /\ UNCHANGED worked

RunEnds(p) ==
    /\ \E e \in {"done", "failed"} : RunStep(p, {"running"}, "ended", <<e>>)
    /\ UNCHANGED worked

RunStops(p) ==
    /\ p \in stopAsked
    /\ RunStep(p, {"running", "parked"}, "ended", <<"cancelled">>)
    /\ UNCHANGED worked

RunDies(p) == RunStep(p, {"running"}, "ended", <<>>) /\ UNCHANGED worked

-----------------------------------------------------------------------------
RelayReads(p) ==
    inbox[p] # <<>> /\ LET f == Head(inbox[p]) IN
        \/ SkipStarted(p, f) \/ RelayEvent(p, f) \/ RelayStops(p, f)
        \/ RelayAnswer(p, f) \/ RelayFails(p, f)

RelayMoves(p) == RelayReads(p) \/ Abandon(p) \/ Abandoned(p)

PluginMoves(p) ==
    \/ BeginInvoke(p) \/ InvokeRefused(p) \/ PromptStarts(p) \/ PromptCancelled(p)
    \/ PromptReady(p) \/ PromptFails(p) \/ LoopCancelled(p) \/ LoopEvent(p)
    \/ LoopEof(p) \/ Reply(p) \/ Respond(p)

RunMoves(p) ==
    \/ RunStarts(p) \/ RunWorks(p) \/ RunParks(p) \/ RunEnds(p) \/ RunStops(p)
    \/ RunDies(p)

Next ==
    \/ LinkLost \/ Disconnect \/ WorkerExits
    \/ \E p \in Prompts :
          \/ StreamFails(p) \/ RelayMoves(p) \/ UiShows(p) \/ PluginMoves(p)
          \/ RunMoves(p) \/ Prompt(p) \/ Stop(p) \/ UiGone(p)
          \/ \E by \in {"user", "relay"} : ServeCancel(p, by)

Spec == Init /\ [][Next]_vars

\* The relay and the conversation are tasks of the desktop; a frame that never
\* comes is an error at its deadline.  Nothing is assumed of the worker.
Fairness == \A p \in Prompts :
    WF_vars(RelayMoves(p)) /\ WF_vars(UiShows(p)) /\ WF_vars(TimesOut(p))

FairSpec == Spec /\ Fairness

-----------------------------------------------------------------------------
(* Properties                                                              *)

Public == INSTANCE PublicRun WITH
    ended <- {p \in Prompts : run[p] = "ended"}, outcome <- ui

\* A run that the conversation shows as done was shown completely and is over,
\* whatever the connection, the worker and the user did on the way; a run ends
\* once (prompt of RemoteWorkerProvider against CodingPlugin::prompt).
RunsArePublished == Public!Spec

\* A conversation never has two runs that may change its checkout: a new turn
\* cancels what an abandoned one left behind (supersede_parked_runs).
OneLiveRun == Cardinality(Live) <= 1

\* A prompt ends for the adapter, also when the worker never answers it or
\* never answers its cancel: the conversation can be prompted again.
RunSettles == \A p \in Prompts : p \in Active ~> p \notin Active

=============================================================================
