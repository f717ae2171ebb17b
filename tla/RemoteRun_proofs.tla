---------------------------- MODULE RemoteRun_proofs ----------------------------
(***************************************************************************)
(* What holds of the runs of a remote conversation for any number of       *)
(* prompts, permits and buffered events: only one run at a time may change *)
(* the checkout, and the public run is shown faithfully.                   *)
(*                                                                         *)
(* The work of a run is on its way through three queues: its own events,   *)
(* the frames of the request and the public events.  As long as nothing    *)
(* has been lost, what is shown and what is queued add up to what was      *)
(* reported; an end is put behind all of it.                               *)
(***************************************************************************)
EXTENDS RemoteRun, FiniteSetTheorems, SequenceTheorems, TLAPS

-----------------------------------------------------------------------------
(* The inductive invariant                                                 *)

Bodies == {"started", "work"} \cup Ends
Frame ==
    {f \in [kind : {"progress", "terminal", "error"},
            body : Bodies \cup {"result", "error", "transport"}] :
        f.kind = "progress" => f.body \in Bodies}

TypeInv ==
    /\ link \in {"up", "down"}
    /\ inbox \in [Prompts -> Seq(Frame)]
    /\ relay \in [Prompts -> {"idle", "next", "abandon", "cancelling", "over"}]
    /\ toUi \in [Prompts -> Seq({"work"} \cup Ends)]
    /\ ui \in [Prompts -> {"none", "open", "gone"} \cup Ends]
    /\ shown \in [Prompts -> Nat] /\ worked \in [Prompts -> Nat]
    /\ task \in [Prompts -> {"none", "spawned", "begun", "prompting", "streaming",
                             "replying", "over"}]
    /\ run \in [Prompts -> {"none", "new", "running", "parked", "ended"}]
    /\ known \subseteq Prompts /\ stopAsked \subseteq Prompts
    /\ events \in [Prompts -> Seq(Bodies)]

\* The turn that is being prepared has cancelled every run of the session.
TurnInv ==
    /\ \A p, q \in Live : p = q
    /\ \A p \in Prompts : task[p] = "prompting" =>
          Live = {} /\ \A q \in Prompts : task[q] = "prompting" => q = p

\* Which steps of a prompt go together.
StageInv(p) ==
    /\ relay[p] = "idle" => ui[p] = "none" /\ task[p] = "none" /\ toUi[p] = <<>>
    /\ relay[p] # "next" => inbox[p] = <<>>
    /\ task[p] \in {"none", "spawned", "begun", "prompting"} =>
          run[p] = "none" /\ p \notin known
    /\ run[p] = "none" => worked[p] = 0 /\ events[p] = <<>>
    /\ task[p] = "streaming" => run[p] # "none"
    /\ task[p] # "streaming" => events[p] = <<>>
    /\ shown[p] <= worked[p]

\* A run announces itself first and ends last.
EventsInv(p) ==
    /\ \A i \in 1..Len(events[p]) :
          /\ events[p][i] = "started" <=> i = 1 /\ p \notin known
          /\ events[p][i] \in Ends => i = Len(events[p]) /\ run[p] = "ended"
    /\ run[p] = "new" => events[p] = <<>> /\ p \notin known
    /\ task[p] = "streaming" /\ p \notin known /\ run[p] # "new" => events[p] # <<>>

AllWork(s) == \A i \in 1..Len(s) : s[i] = "work"

\* Frame i of the prompt carries e.
Carries(p, i, e) == inbox[p][i].kind = "progress" /\ inbox[p][i].body = e

\* The frames and the events that are not shown: 1 or 0.
StartsFrames(p) == IF inbox[p] # <<>> /\ Carries(p, 1, "started") THEN 1 ELSE 0
StartsEvents(p) == IF events[p] # <<>> /\ p \notin known THEN 1 ELSE 0
EndsEvents(p) == IF events[p] # <<>> /\ events[p][Len(events[p])] \in Ends THEN 1 ELSE 0

\* The pieces of work shown or queued for the screen, and those in frames too.
Public1(p) == shown[p] + Len(toUi[p])
Public2(p) == Public1(p) + Len(inbox[p]) - StartsFrames(p)

UiInv(p) == \A i \in 1..Len(toUi[p]) :
    /\ toUi[p][i] = "work" => shown[p] + i <= worked[p]
    /\ toUi[p][i] = "done" => shown[p] + i - 1 = worked[p] /\ run[p] = "ended"
    /\ toUi[p][i] \in {"work", "done"} => \A j \in 1..(i - 1) : toUi[p][j] = "work"

InboxInv(p) == \A i \in 1..Len(inbox[p]) :
    /\ Carries(p, i, "started") => i = 1
    /\ Carries(p, i, "work") => Public1(p) + i - StartsFrames(p) <= worked[p]
    /\ Carries(p, i, "done") =>
          Public1(p) + i - 1 - StartsFrames(p) = worked[p] /\ run[p] = "ended"
    /\ Carries(p, i, "work") \/ Carries(p, i, "done") =>
          /\ AllWork(toUi[p])
          /\ \A j \in 1..(i - 1) : Carries(p, j, "work") \/ Carries(p, j, "started")

\* Nothing has been lost.
Intact(p) == link = "up" /\ Listening(p) /\ Watched(p)

IntactInv(p) == Intact(p) =>
    /\ task[p] \in {"none", "spawned", "begun", "prompting", "streaming"} /\ p \notin known =>
          inbox[p] = <<>> /\ toUi[p] = <<>>
    /\ task[p] = "streaming" =>
          /\ AllWork(toUi[p])
          /\ \A i \in 1..Len(inbox[p]) : Carries(p, i, "work") \/ Carries(p, i, "started")
          /\ Public2(p) + Len(events[p]) - StartsEvents(p) - EndsEvents(p) = worked[p]

ChainInv(p) ==
    /\ StageInv(p) /\ EventsInv(p)
    /\ Watched(p) => UiInv(p) /\ InboxInv(p)
    /\ IntactInv(p)

Chain == \A p \in Prompts : ChainInv(p)

-----------------------------------------------------------------------------
(* Every variable keeps its type                                           *)

LEMMA FrameKinds ==
  /\ \A e \in Bodies : Progress(e) \in Frame
  /\ \A e \in {"result", "error", "cancelled"} : Answer(e) \in Frame
  /\ Broken \in Frame
BY DEF Progress, Answer, Broken, Frame, Bodies, Ends

LEMMA Empty == \A S : <<>> \in Seq(S) /\ Len(<<>>) = 0
BY EmptySeq

LEMMA InitTyped == Init => TypeInv
<1> SUFFICES ASSUME Init PROVE TypeInv
  OBVIOUS
<1>1. <<>> \in Seq(Frame) /\ <<>> \in Seq({"work"} \cup Ends) /\ <<>> \in Seq(Bodies)
  BY Empty
<1> QED
  BY <1>1 DEF Init, TypeInv

LEMMA SendTyped ==
  ASSUME TypeInv, NEW p \in Prompts, NEW f \in Frame, Send(p, f)
  PROVE  inbox' \in [Prompts -> Seq(Frame)]
<1>1. Append(inbox[p], f) \in Seq(Frame)
  BY AppendProperties DEF TypeInv
<1> QED
  BY <1>1 DEF Send, TypeInv

LEMMA PublishTyped ==
  ASSUME TypeInv, NEW p \in Prompts, NEW e \in {"work"} \cup Ends, Publish(p, e)
  PROVE  toUi' \in [Prompts -> Seq({"work"} \cup Ends)]
<1>1. Append(toUi[p], e) \in Seq({"work"} \cup Ends)
  BY AppendProperties DEF TypeInv
<1> QED
  BY <1>1 DEF Publish, TypeInv

LEMMA ReturnTyped ==
  ASSUME TypeInv, NEW p \in Prompts, NEW e \in {"result", "error", "cancelled"},
         Return(p, Answer(e)), stopAsked' \subseteq Prompts
  PROVE  TypeInv'
<1>1. inbox' \in [Prompts -> Seq(Frame)]
  BY FrameKinds, SendTyped DEF Return
<1>2. <<>> \in Seq(Bodies)
  BY Empty
<1> QED
  BY <1>1, <1>2 DEF Return, Leave, relays, screen, TypeInv

LEMMA TakeTyped ==
  ASSUME TypeInv, NEW p \in Prompts, NEW f, NEW to \in {"next", "abandon", "over"},
         TakeFrame(p, f, to)
  PROVE  /\ f \in Frame
         /\ toUi' \in [Prompts -> Seq({"work"} \cup Ends)] => TypeInv'
<1>1. inbox[p] \in Seq(Frame) /\ inbox[p] # <<>>
  BY DEF TakeFrame, TypeInv
<1>2. Head(inbox[p]) \in Frame /\ Tail(inbox[p]) \in Seq(Frame)
  BY <1>1, HeadTailProperties
<1>3. <<>> \in Seq(Frame)
  BY Empty
<1>4. inbox' \in [Prompts -> Seq(Frame)]
  BY <1>2, <1>3 DEF TakeFrame, TypeInv
<1> QED
  BY <1>2, <1>4 DEF TakeFrame, TypeInv, serving, agent

LEMMA RelayTyped ==
  ASSUME TypeInv, NEW p \in Prompts, RelayMoves(p)
  PROVE  TypeInv'
<1>1. CASE RelayReads(p)
  <2> DEFINE f == Head(inbox[p])
  <2>1. CASE SkipStarted(p, f)
    BY <2>1, TakeTyped DEF SkipStarted, TypeInv
  <2>2. CASE RelayEvent(p, f)
    <3>1. f \in Frame
      BY <2>2, TakeTyped DEF RelayEvent
    <3>2. f.body \in {"work"} \cup Ends
      BY <2>2, <3>1 DEF RelayEvent, Frame, Bodies
    <3> QED
      BY <2>2, <3>2, TakeTyped, PublishTyped DEF RelayEvent
  <2>3. CASE RelayStops(p, f)
    BY <2>3, TakeTyped DEF RelayStops, TypeInv
  <2>4. CASE RelayAnswer(p, f)
    <3>1. EndAfter(p, f.body) \in {"none", "cancelled", "failed"}
      BY DEF EndAfter
    <3>2. toUi' \in [Prompts -> Seq({"work"} \cup Ends)]
      BY <2>4, <3>1, PublishTyped DEF RelayAnswer, Emit, TypeInv, Ends
    <3> QED
      BY <2>4, <3>2, TakeTyped DEF RelayAnswer
  <2>5. CASE RelayFails(p, f)
    <3>1. toUi' \in [Prompts -> Seq({"work"} \cup Ends)]
      BY <2>5, PublishTyped DEF RelayFails, Emit, TypeInv, Ends
    <3> QED
      BY <2>5, <3>1, TakeTyped DEF RelayFails
  <2> QED
    BY <1>1, <2>1, <2>2, <2>3, <2>4, <2>5 DEF RelayReads
<1>2. CASE Abandon(p)
  BY <1>2 DEF Abandon, TypeInv, screen, agent
<1>3. CASE Abandoned(p)
  BY <1>3 DEF Abandoned, TypeInv, screen, serving, agent
<1> QED
  BY <1>1, <1>2, <1>3 DEF RelayMoves

LEMMA PluginTyped ==
  ASSUME TypeInv, NEW p \in Prompts, PluginMoves(p)
  PROVE  TypeInv'
<1>1. stopAsked' \subseteq Prompts
  BY DEF PluginMoves, BeginInvoke, InvokeRefused, PromptStarts, PromptCancelled,
         PromptReady, PromptFails, LoopCancelled, LoopEvent, LoopEof, Reply, Respond,
         Supersede, Cancelling, agent, TypeInv
<1>2. CASE InvokeRefused(p) \/ PromptCancelled(p) \/ PromptFails(p) \/ LoopCancelled(p)
           \/ LoopEof(p) \/ Reply(p)
  BY <1>1, <1>2, ReturnTyped
  DEF InvokeRefused, PromptCancelled, PromptFails, LoopCancelled, LoopEof, Reply
<1>3. CASE BeginInvoke(p)
  BY <1>3 DEF BeginInvoke, TypeInv, relays, screen, agent
<1>4. CASE PromptStarts(p)
  BY <1>1, <1>4 DEF PromptStarts, TypeInv, relays, screen
<1>5. CASE PromptReady(p)
  BY <1>1, <1>5 DEF PromptReady, TypeInv, relays, screen
<1>6. CASE Respond(p)
  BY <1>1, <1>6 DEF Respond, TypeInv, relays, screen, serving
<1>7. CASE LoopEvent(p)
  <2> DEFINE e == Head(events[p])
  <2>1. e \in Bodies /\ Tail(events[p]) \in Seq(Bodies) /\ <<>> \in Seq(Bodies)
    BY <1>7, HeadTailProperties, Empty DEF LoopEvent, TypeInv
  <2>2. \A f \in Lines(e) : f \in Frame
    BY <2>1, FrameKinds DEF Lines
  <2>3. inbox' \in [Prompts -> Seq(Frame)]
    BY <1>7, <2>2, SendTyped DEF LoopEvent
  <2>4. CASE Leave(p, "replying")
    BY <1>1, <2>1, <2>3, <2>4 DEF Leave, TypeInv, relays, screen
  <2>5. CASE ~Leave(p, "replying")
    <3>1. /\ known' \in {known, known \cup {p}} /\ events' = [events EXCEPT ![p] = Tail(@)]
          /\ UNCHANGED <<link, relays, screen, task, cancelling, cancels, run, worked>>
      BY <1>7, <2>5 DEF LoopEvent
    <3> QED
      BY <1>1, <2>1, <2>3, <3>1 DEF TypeInv, relays, screen
  <2> QED
    BY <2>4, <2>5
<1> QED
  BY <1>2, <1>3, <1>4, <1>5, <1>6, <1>7 DEF PluginMoves

LEMMA RunTyped ==
  ASSUME TypeInv, NEW p \in Prompts, RunMoves(p)
  PROVE  TypeInv'
<1>1. ASSUME NEW from, NEW to \in {"running", "parked", "ended"}, NEW e \in Seq(Bodies),
             RunStep(p, from, to, e), worked' \in [Prompts -> Nat]
      PROVE  TypeInv'
  <2>1. events[p] \o e \in Seq(Bodies)
    BY <1>1, ConcatProperties DEF TypeInv
  <2>2. events' \in [Prompts -> Seq(Bodies)]
    BY <1>1, <2>1 DEF RunStep, TypeInv
  <2> QED
    BY <1>1, <2>2 DEF RunStep, TypeInv, relays, screen, serving
<1>2. /\ <<>> \in Seq(Bodies)
      /\ \A e \in Bodies : <<e>> \in Seq(Bodies)
  OBVIOUS
<1>3. worked' \in [Prompts -> Nat]
  <2>1. worked \in [Prompts -> Nat]
    BY DEF TypeInv
  <2>2. worked' = worked \/ worked' = [worked EXCEPT ![p] = @ + 1]
    BY DEF RunMoves, RunStarts, RunWorks, RunParks, RunEnds, RunStops, RunDies
  <2> QED
    BY <2>1, <2>2
<1>4. {"started", "work", "done", "failed", "cancelled"} \subseteq Bodies
  BY DEF Bodies, Ends
<1>5. CASE RunStarts(p)
  BY <1>1, <1>2, <1>3, <1>4, <1>5 DEF RunStarts
<1>6. CASE RunWorks(p)
  BY <1>1, <1>2, <1>3, <1>4, <1>6 DEF RunWorks
<1>7. CASE RunParks(p) \/ RunDies(p)
  BY <1>1, <1>2, <1>3, <1>7 DEF RunParks, RunDies
<1>8. CASE RunEnds(p)
  <2>1. PICK e \in {"done", "failed"} : RunStep(p, {"running"}, "ended", <<e>>)
    BY <1>8 DEF RunEnds
  <2>2. <<e>> \in Seq(Bodies)
    BY <1>2, <1>4
  <2> QED
    BY <1>1, <1>3, <2>1, <2>2
<1>9. CASE RunStops(p)
  BY <1>1, <1>2, <1>3, <1>4, <1>9 DEF RunStops
<1> QED
  BY <1>5, <1>6, <1>7, <1>8, <1>9 DEF RunMoves

LEMMA PromptTyped ==
  ASSUME TypeInv, NEW p \in Prompts, Prompt(p)
  PROVE  TypeInv'
<1>1. <<Answer("error")>> \in Seq(Frame)
  BY FrameKinds
<1>2. inbox' \in [Prompts -> Seq(Frame)]
  BY <1>1 DEF Prompt, TypeInv
<1> QED
  BY <1>2 DEF Prompt, TypeInv, agent

LEMMA ScreenTyped ==
  ASSUME TypeInv, NEW p \in Prompts, UiShows(p) \/ UiGone(p)
  PROVE  TypeInv'
<1>1. <<>> \in Seq({"work"} \cup Ends)
  BY Empty
<1>2. CASE UiGone(p)
  BY <1>1, <1>2 DEF UiGone, TypeInv, relays, serving, agent
<1>3. CASE UiShows(p)
  <2>1. Head(toUi[p]) \in {"work"} \cup Ends /\ Tail(toUi[p]) \in Seq({"work"} \cup Ends)
    BY <1>3, HeadTailProperties DEF UiShows, TypeInv
  <2> QED
    BY <1>1, <1>3, <2>1, SMTT(30) DEF UiShows, TypeInv, relays, serving, agent
<1> QED
  BY <1>2, <1>3

LEMMA OthersTyped ==
  ASSUME TypeInv,
         \/ LinkLost \/ Disconnect \/ WorkerExits
         \/ \E p \in Prompts : \/ StreamFails(p) \/ Stop(p)
                               \/ \E by \in {"user", "relay"} : ServeCancel(p, by)
  PROVE  TypeInv'
<1>1. CASE LinkLost \/ Disconnect \/ WorkerExits
  BY <1>1 DEF LinkLost, Disconnect, WorkerExits, TypeInv, relays, screen, serving, agent
<1>2. ASSUME NEW p \in Prompts, StreamFails(p) PROVE TypeInv'
  <2>1. Append(inbox[p], Broken) \in Seq(Frame)
    BY FrameKinds, AppendProperties DEF TypeInv
  <2> QED
    BY <1>2, <2>1 DEF StreamFails, TypeInv, relays, screen, serving, agent
<1>3. ASSUME NEW p \in Prompts, Stop(p) PROVE TypeInv'
  BY <1>3 DEF Stop, TypeInv, relays, screen, agent
<1>4. ASSUME NEW p \in Prompts, NEW by, ServeCancel(p, by) PROVE TypeInv'
  BY <1>4 DEF ServeCancel, TypeInv, relays, screen, agent
<1> QED
  BY <1>1, <1>2, <1>3, <1>4

LEMMA StepTyped == TypeInv /\ [Next]_vars => TypeInv'
<1> SUFFICES ASSUME TypeInv, [Next]_vars PROVE TypeInv'
  OBVIOUS
<1>1. CASE Next
  BY <1>1, RelayTyped, PluginTyped, RunTyped, PromptTyped, ScreenTyped, OthersTyped DEF Next
<1>2. CASE UNCHANGED vars
  BY <1>2 DEF vars, relays, screen, serving, agent, TypeInv
<1> QED
  BY <1>1, <1>2

-----------------------------------------------------------------------------
(* One live run at a time                                                  *)

LEMMA TurnKept ==
  ASSUME TurnInv, Live' \subseteq Live,
         \A q \in Prompts : task'[q] = "prompting" => task[q] = "prompting"
  PROVE  TurnInv'
BY DEF TurnInv

\* Only PromptReady adds a run, and only PromptStarts prepares a turn.
LEMMA TurnOfPlugin ==
  ASSUME TypeInv, TurnInv, NEW p \in Prompts, PluginMoves(p)
  PROVE  TurnInv'
<1> USE DEF TypeInv
<1>1. CASE PromptStarts(p)
  <2>1. Live' = {}
    BY <1>1 DEF PromptStarts, Supersede, Cancelling, Live
  <2>2. \A q \in Prompts : task'[q] = "prompting" => q = p
    BY <1>1 DEF PromptStarts, SessionFree
  <2> QED
    BY <2>1, <2>2 DEF TurnInv
<1>2. CASE PromptReady(p)
  <2>1. Live = {} /\ \A q \in Prompts : task[q] = "prompting" => q = p
    BY <1>2 DEF PromptReady, TurnInv
  <2>2. Live' \subseteq {p}
    BY <1>2, <2>1 DEF PromptReady, Live
  <2>3. \A q \in Prompts : task'[q] # "prompting"
    BY <1>2, <2>1 DEF PromptReady
  <2> QED
    BY <2>2, <2>3 DEF TurnInv
<1>3. ASSUME NEW f, Return(p, f), stopAsked \subseteq stopAsked' PROVE TurnInv'
  <2>1. Live' \subseteq Live /\ \A q \in Prompts : task'[q] = "prompting" => task[q] = "prompting"
    BY <1>3 DEF Return, Leave, Live
  <2> QED
    BY <2>1, TurnKept
<1>4. CASE InvokeRefused(p) \/ PromptCancelled(p) \/ PromptFails(p) \/ LoopCancelled(p)
           \/ LoopEof(p) \/ Reply(p)
  BY <1>3, <1>4 DEF InvokeRefused, PromptCancelled, PromptFails, LoopCancelled, LoopEof,
                    Reply, Cancelling
<1>5. CASE BeginInvoke(p) \/ LoopEvent(p) \/ Respond(p)
  <2>1. Live' \subseteq Live
    BY <1>5 DEF BeginInvoke, LoopEvent, Respond, Leave, agent, Live
  <2>2. \A q \in Prompts : task'[q] = "prompting" => task[q] = "prompting"
    BY <1>5 DEF BeginInvoke, LoopEvent, Respond, Leave, serving
  <2> QED
    BY <2>1, <2>2, TurnKept
<1> QED
  BY <1>1, <1>2, <1>4, <1>5 DEF PluginMoves

LEMMA TurnOfRun ==
  ASSUME TypeInv, TurnInv, NEW p \in Prompts, RunMoves(p)
  PROVE  TurnInv'
<1>1. ASSUME NEW from \in SUBSET {"new", "running", "parked"},
             NEW to \in {"running", "parked", "ended"}, NEW e, RunStep(p, from, to, e)
      PROVE  TurnInv'
  <2>1. Live' \subseteq Live
    BY <1>1 DEF RunStep, TypeInv, Live
  <2> QED
    BY <1>1, <2>1, TurnKept DEF RunStep, serving
<1> QED
  BY <1>1 DEF RunMoves, RunStarts, RunWorks, RunParks, RunEnds, RunStops, RunDies

LEMMA StepTurn == TypeInv /\ TurnInv /\ [Next]_vars => TurnInv'
<1> SUFFICES ASSUME TypeInv, TurnInv, [Next]_vars PROVE TurnInv'
  OBVIOUS
<1>1. ASSUME UNCHANGED <<task, run, stopAsked>> PROVE TurnInv'
  BY <1>1, TurnKept DEF Live
<1>2. CASE WorkerExits
  <2>1. Live' = {}
    BY <1>2 DEF WorkerExits, Live
  <2> QED
    BY <1>2, <2>1, TurnKept DEF WorkerExits, serving
<1>3. ASSUME NEW p \in Prompts, Prompt(p) PROVE TurnInv'
  <2>1. Live' = Live /\ \A q \in Prompts : task'[q] = "prompting" => task[q] = "prompting"
    BY <1>3 DEF Prompt, TypeInv, Live, agent
  <2> QED
    BY <2>1, TurnKept
<1>4. ASSUME NEW p \in Prompts,
             \/ StreamFails(p) \/ RelayMoves(p) \/ UiShows(p) \/ UiGone(p) \/ Stop(p)
             \/ \E by \in {"user", "relay"} : ServeCancel(p, by)
      PROVE  UNCHANGED <<task, run, stopAsked>>
  BY <1>4 DEF StreamFails, RelayMoves, RelayReads, SkipStarted, RelayEvent, RelayStops,
              RelayAnswer, RelayFails, TakeFrame, Abandon, Abandoned, UiShows, UiGone, Stop,
              ServeCancel, serving, agent
<1>5. CASE LinkLost \/ Disconnect \/ UNCHANGED vars
  BY <1>1, <1>5 DEF LinkLost, Disconnect, vars, serving, agent
<1> QED
  BY <1>1, <1>2, <1>3, <1>4, <1>5, TurnOfPlugin, TurnOfRun DEF Next

\* A conversation never has two runs that may change its checkout, for any
\* number of prompts: whatever an abandoned prompt left running is cancelled
\* before the next turn gets its run (supersede_parked_runs).
THEOREM OneTurnAtATime == Spec => []OneLiveRun
<1>1. Init => TypeInv /\ TurnInv
  BY InitTyped DEF Init, TurnInv, Live
<1>2. TypeInv /\ TurnInv /\ [Next]_vars => (TypeInv /\ TurnInv)'
  BY StepTyped, StepTurn
<1>3. TurnInv => OneLiveRun
  <2> SUFFICES ASSUME TurnInv PROVE Cardinality(Live) <= 1
    BY DEF OneLiveRun
  <2>1. CASE Live = {}
    BY <2>1, FS_EmptySet
  <2>2. CASE Live # {}
    <3>1. PICK p \in Live : TRUE
      BY <2>2
    <3>2. Live = {p}
      BY <3>1 DEF TurnInv
    <3>3. Cardinality({p}) = 1
      BY FS_Singleton
    <3> QED
      BY <3>2, <3>3
  <2> QED
    BY <2>1, <2>2
<1> QED
  BY <1>1, <1>2, <1>3, PTL DEF Spec

-----------------------------------------------------------------------------
(* The chain from the run to the screen                                    *)

AgentSame(p) ==
    /\ task'[p] = task[p] /\ run'[p] = run[p] /\ events'[p] = events[p]
    /\ worked'[p] = worked[p] /\ (p \in known' <=> p \in known)
RelaySame(p)  == inbox'[p] = inbox[p] /\ relay'[p] = relay[p]
ScreenSame(p) == toUi'[p] = toUi[p] /\ ui'[p] = ui[p] /\ shown'[p] = shown[p]

\* What is done to other prompts, or to the connection.
LEMMA ChainElsewhere ==
  ASSUME NEW p \in Prompts, ChainInv(p), AgentSame(p), RelaySame(p), ScreenSame(p),
         link' \in {link, "down"}
  PROVE  ChainInv(p)'
<1> USE DEF AgentSame, RelaySame, ScreenSame
<1>1. StageInv(p)' /\ EventsInv(p)'
  BY DEF ChainInv, StageInv, EventsInv
<1>2. Watched(p)' <=> Watched(p)
  BY DEF Watched
<1>3. \A i, e : Carries(p, i, e)' <=> Carries(p, i, e)
  BY DEF Carries
<1>4. Public1(p)' = Public1(p) /\ StartsFrames(p)' = StartsFrames(p)
  BY <1>3 DEF Public1, StartsFrames
<1>5. Watched(p)' => UiInv(p)' /\ InboxInv(p)'
  BY <1>2, <1>3, <1>4 DEF ChainInv, UiInv, InboxInv
<1>6. Intact(p)' => Intact(p)
  BY <1>2 DEF Intact, Listening
<1>7. Public2(p)' = Public2(p) /\ StartsEvents(p)' = StartsEvents(p)
      /\ EndsEvents(p)' = EndsEvents(p)
  BY <1>4 DEF Public2, StartsEvents, EndsEvents
<1>8. IntactInv(p)'
  BY <1>3, <1>6, <1>7 DEF ChainInv, IntactInv
<1> QED
  BY <1>1, <1>5, <1>8 DEF ChainInv

LEMMA Lengths ==
  ASSUME TypeInv, NEW p \in Prompts
  PROVE  /\ inbox[p] \in Seq(Frame) /\ Len(inbox[p]) \in Nat
         /\ toUi[p] \in Seq({"work"} \cup Ends) /\ Len(toUi[p]) \in Nat
         /\ events[p] \in Seq(Bodies) /\ Len(events[p]) \in Nat
         /\ shown[p] \in Nat /\ worked[p] \in Nat
         /\ StartsFrames(p) \in {0, 1} /\ StartsEvents(p) \in {0, 1} /\ EndsEvents(p) \in {0, 1}
         /\ Public1(p) \in Nat /\ Public2(p) \in Int
         /\ inbox[p] = <<>> <=> Len(inbox[p]) = 0
         /\ events[p] = <<>> <=> Len(events[p]) = 0
<1>1. inbox[p] \in Seq(Frame) /\ toUi[p] \in Seq({"work"} \cup Ends) /\ events[p] \in Seq(Bodies)
      /\ shown[p] \in Nat /\ worked[p] \in Nat
  BY DEF TypeInv
<1>2. Len(inbox[p]) \in Nat /\ Len(toUi[p]) \in Nat /\ Len(events[p]) \in Nat
  BY <1>1, LenProperties
<1>3. StartsFrames(p) \in {0, 1} /\ StartsEvents(p) \in {0, 1} /\ EndsEvents(p) \in {0, 1}
  BY DEF StartsFrames, StartsEvents, EndsEvents
<1>4. Public1(p) \in Nat /\ Public2(p) \in Int
  BY <1>1, <1>2, <1>3 DEF Public1, Public2
<1>5. /\ inbox[p] = <<>> <=> Len(inbox[p]) = 0
      /\ events[p] = <<>> <=> Len(events[p]) = 0
  BY <1>1, EmptySeq
<1> QED
  BY <1>1, <1>2, <1>3, <1>4, <1>5

\* The relay has gone: nothing can be taken from its frames any more.
LEMMA RelayLeft ==
  ASSUME NEW p \in Prompts, ChainInv(p), AgentSame(p),
         inbox'[p] = <<>>, relay'[p] \notin {"idle", "next"},
         shown'[p] = shown[p], Watched(p)' => UiInv(p)'
  PROVE  ChainInv(p)'
<1>1. StageInv(p)' /\ EventsInv(p)'
  BY DEF ChainInv, StageInv, EventsInv, AgentSame
<1>2. InboxInv(p)'
  BY DEF InboxInv
<1>3. IntactInv(p)'
  BY DEF IntactInv, Intact, Listening
<1> QED
  BY <1>1, <1>2, <1>3 DEF ChainInv

LEMMA UiAppended ==
  ASSUME TypeInv, NEW p \in Prompts, UiInv(p), NEW e \in {"work"} \cup Ends,
         toUi'[p] = Append(toUi[p], e),
         shown'[p] = shown[p], worked'[p] = worked[p], run'[p] = run[p],
         e \in {"work", "done"} => AllWork(toUi[p]),
         e = "work" => Public1(p) + 1 <= worked[p],
         e = "done" => Public1(p) = worked[p] /\ run[p] = "ended"
  PROVE  UiInv(p)'
<1>1. /\ toUi[p] \in Seq({"work"} \cup Ends) /\ Len(toUi[p]) \in Nat /\ shown[p] \in Nat
  BY Lengths
<1>2. /\ Len(toUi'[p]) = Len(toUi[p]) + 1
      /\ \A i \in 1..Len(toUi[p]) : toUi'[p][i] = toUi[p][i]
      /\ toUi'[p][Len(toUi[p]) + 1] = e
  BY <1>1, AppendProperties
<1>3. ASSUME NEW i \in 1..Len(toUi'[p])
      PROVE  /\ toUi'[p][i] = "work" => shown[p] + i <= worked[p]
             /\ toUi'[p][i] = "done" => shown[p] + i - 1 = worked[p] /\ run[p] = "ended"
             /\ toUi'[p][i] \in {"work", "done"} =>
                   \A j \in 1..(i - 1) : toUi'[p][j] = "work"
  <2>1. CASE i \in 1..Len(toUi[p])
    <3>1. toUi'[p][i] = toUi[p][i] /\ \A j \in 1..(i - 1) : toUi'[p][j] = toUi[p][j]
      BY <1>1, <1>2, <2>1
    <3> QED
      BY <2>1, <3>1 DEF UiInv
  <2>2. CASE i = Len(toUi[p]) + 1
    <3>1. toUi'[p][i] = e
      BY <1>2, <2>2
    <3>2. e \in {"work", "done"} => \A j \in 1..(i - 1) : toUi'[p][j] = "work"
      BY <1>1, <1>2, <2>2 DEF AllWork
    <3> QED
      BY <1>1, <2>2, <3>1, <3>2 DEF Public1
  <2> QED
    BY <1>1, <1>2, <2>1, <2>2
<1> QED
  BY <1>3 DEF UiInv

\* A progress frame is taken: what was behind it moves up by one place.
LEMMA FrameTaken ==
  ASSUME TypeInv, NEW p \in Prompts, ChainInv(p), AgentSame(p),
         relay[p] = "next", relay'[p] = "next", link' = link,
         ui'[p] = ui[p], shown'[p] = shown[p],
         inbox[p] # <<>>, inbox'[p] = Tail(inbox[p]), NEW e \in Bodies, Carries(p, 1, e),
         \/ e = "started" /\ toUi'[p] = toUi[p]
         \/ e # "started" /\ Watched(p) /\ toUi'[p] = Append(toUi[p], e)
  PROVE  ChainInv(p)'
<1> DEFINE n == Len(inbox[p])
<1>1. /\ inbox[p] \in Seq(Frame) /\ n \in Nat \ {0} /\ Len(inbox'[p]) = n - 1
      /\ \A i \in 1..(n - 1) : inbox'[p][i] = inbox[p][i + 1]
  BY Lengths, HeadTailProperties, EmptySeq
<1>2. \A i \in 1..(n - 1) : \A b : Carries(p, i, b)' <=> Carries(p, i + 1, b)
  BY <1>1 DEF Carries
<1>3. StageInv(p)' /\ EventsInv(p)'
  BY DEF ChainInv, StageInv, EventsInv, AgentSame
<1>4. /\ Watched(p)' <=> Watched(p)
      /\ Watched(p) => UiInv(p) /\ InboxInv(p)
  BY DEF Watched, ChainInv
<1>5. /\ toUi[p] \in Seq({"work"} \cup Ends) /\ Len(toUi[p]) \in Nat /\ shown[p] \in Nat
      /\ worked[p] \in Nat /\ Public1(p) \in Nat
  BY Lengths
<1>6. StartsFrames(p) = IF e = "started" THEN 1 ELSE 0
  BY DEF StartsFrames, Carries
<1>7. Watched(p) => StartsFrames(p)' = 0
  <2>1. CASE n = 1
    BY <1>1, <2>1, EmptySeq DEF StartsFrames, Carries
  <2>2. CASE n # 1
    BY <1>1, <1>2, <1>4, <2>2 DEF StartsFrames, InboxInv
  <2> QED
    BY <2>1, <2>2
<1>8. Public1(p)' = Public1(p) + 1 - StartsFrames(p)
  <2>1. e # "started" => Len(toUi'[p]) = Len(toUi[p]) + 1
    BY <1>5, AppendProperties DEF Bodies
  <2> QED
    BY <1>5, <1>6, <2>1, SMTT(30) DEF Public1
<1>9. e \in {"started", "work"} /\ AllWork(toUi[p]) => AllWork(toUi'[p])
  <2> SUFFICES ASSUME e = "work", AllWork(toUi[p]), toUi'[p] = Append(toUi[p], e)
               PROVE  AllWork(toUi'[p])
    OBVIOUS
  <2>1. /\ Len(toUi'[p]) = Len(toUi[p]) + 1
        /\ \A i \in 1..Len(toUi[p]) : toUi'[p][i] = toUi[p][i]
        /\ toUi'[p][Len(toUi[p]) + 1] = e
    BY <1>5, AppendProperties
  <2> QED
    BY <1>5, <2>1 DEF AllWork
<1>10. Watched(p) => UiInv(p)'
  <2> SUFFICES ASSUME Watched(p) PROVE UiInv(p)'
    OBVIOUS
  <2>1. CASE e = "started"
    BY <1>4, <2>1 DEF UiInv, AgentSame
  <2>2. CASE e # "started"
    <3>1. /\ e \in {"work", "done"} => AllWork(toUi[p])
          /\ e = "work" => Public1(p) + 1 <= worked[p]
          /\ e = "done" => Public1(p) = worked[p] /\ run[p] = "ended"
      BY <1>1, <1>4, <1>5, <1>6, <2>2, SMTT(30) DEF InboxInv
    <3> QED
      BY <1>4, <2>2, <3>1, UiAppended DEF AgentSame, Bodies
  <2> QED
    BY <2>1, <2>2
<1>11. Watched(p) => InboxInv(p)'
  <2> SUFFICES ASSUME Watched(p), NEW i \in 1..Len(inbox'[p])
               PROVE  /\ Carries(p, i, "started")' => i = 1
                      /\ Carries(p, i, "work")' =>
                            Public1(p)' + i - StartsFrames(p)' <= worked'[p]
                      /\ Carries(p, i, "done")' =>
                            /\ Public1(p)' + i - 1 - StartsFrames(p)' = worked'[p]
                            /\ run'[p] = "ended"
                      /\ Carries(p, i, "work")' \/ Carries(p, i, "done")' =>
                            /\ AllWork(toUi'[p])
                            /\ \A j \in 1..(i - 1) :
                                  Carries(p, j, "work")' \/ Carries(p, j, "started")'
    BY DEF InboxInv
  <2>0. /\ i \in 1..(n - 1) /\ StartsFrames(p)' = 0 /\ Public1(p)' \in Int
        /\ worked'[p] = worked[p] /\ run'[p] = run[p]
    BY <1>1, <1>5, <1>6, <1>7, <1>8 DEF AgentSame
  <2>1. i + 1 \in 1..n /\ i + 1 # 1
    BY <1>1, <2>0
  <2>2. ~Carries(p, i, "started")'
    BY <1>2, <1>4, <2>0, <2>1 DEF InboxInv
  <2>3. Carries(p, i, "work")' => Public1(p)' + i <= worked[p]
    BY <1>2, <1>4, <1>5, <1>6, <1>8, <2>0, <2>1 DEF InboxInv
  <2>4. Carries(p, i, "done")' => Public1(p)' + i - 1 = worked[p] /\ run[p] = "ended"
    <3>1. Carries(p, i, "done")' => Carries(p, i + 1, "done")
      BY <1>2, <2>0
    <3>2. Carries(p, i + 1, "done") =>
             Public1(p) + (i + 1) - 1 - StartsFrames(p) = worked[p] /\ run[p] = "ended"
      BY <1>4, <2>1 DEF InboxInv
    <3> QED
      BY <1>5, <1>6, <1>8, <2>0, <3>1, <3>2
  <2>5. ASSUME Carries(p, i, "work")' \/ Carries(p, i, "done")'
        PROVE  /\ AllWork(toUi'[p])
               /\ \A j \in 1..(i - 1) : Carries(p, j, "work")' \/ Carries(p, j, "started")'
    <3>1. /\ AllWork(toUi[p])
          /\ \A j \in 1..i : Carries(p, j, "work") \/ Carries(p, j, "started")
      BY <1>2, <1>4, <2>0, <2>1, <2>5 DEF InboxInv
    <3>2. e \in {"started", "work"}
      BY <3>1 DEF Carries
    <3>3. ASSUME NEW j \in 1..(i - 1)
          PROVE  Carries(p, j, "work")' \/ Carries(p, j, "started")'
      <4>1. j \in 1..(n - 1) /\ j + 1 \in 1..i
        BY <1>1, <2>0
      <4> QED
        BY <1>2, <3>1, <4>1
    <3> QED
      BY <1>9, <3>1, <3>2, <3>3
  <2> QED
    BY <2>0, <2>2, <2>3, <2>4, <2>5
<1>12. IntactInv(p)'
  <2> SUFFICES ASSUME Intact(p)' PROVE IntactInv(p)'
    BY DEF IntactInv
  <2>1. Intact(p)
    <3>1. ASSUME NEW i \in 1..n PROVE inbox[p][i].kind = "progress"
      <4>1. CASE i = 1
        BY <4>1 DEF Carries
      <4>2. CASE i # 1
        <5>1. i - 1 \in 1..(n - 1) /\ (i - 1) + 1 = i
          BY <1>1, <4>2
        <5> QED
          BY <1>1, <5>1 DEF Intact, Listening
      <4> QED
        BY <4>1, <4>2
    <3> QED
      BY <1>4, <3>1 DEF Intact, Listening
  <2>2. IntactInv(p)
    BY DEF ChainInv
  <2>3. ~(task[p] \in {"none", "spawned", "begun", "prompting", "streaming"} /\ p \notin known)
    BY <2>1, <2>2 DEF IntactInv
  <2>4. ASSUME task[p] = "streaming"
        PROVE  /\ AllWork(toUi'[p])
               /\ \A i \in 1..(n - 1) : Carries(p, i, "work")' \/ Carries(p, i, "started")'
               /\ Public2(p)' = Public2(p)
    <3>1. /\ AllWork(toUi[p])
          /\ \A i \in 1..n : Carries(p, i, "work") \/ Carries(p, i, "started")
      BY <2>1, <2>2, <2>4 DEF IntactInv
    <3>2. e \in {"started", "work"}
      BY <1>1, <3>1 DEF Carries
    <3>3. \A i \in 1..(n - 1) : Carries(p, i, "work")' \/ Carries(p, i, "started")'
      BY <1>1, <1>2, <3>1
    <3>4. Public2(p)' = Public2(p)
      <4>1. StartsFrames(p)' = 0 /\ StartsFrames(p) \in {0, 1}
        BY <1>6, <1>7, <2>1 DEF Intact
      <4>2. Public2(p)' = Public1(p)' + (n - 1) - 0
        BY <1>1, <4>1 DEF Public2
      <4> QED
        BY <1>1, <1>5, <1>8, <4>1, <4>2 DEF Public2
    <3> QED
      BY <1>9, <3>1, <3>2, <3>3, <3>4
  <2>5. StartsEvents(p)' = StartsEvents(p) /\ EndsEvents(p)' = EndsEvents(p)
    BY DEF StartsEvents, EndsEvents, AgentSame
  <2> QED
    BY <1>1, <2>1, <2>2, <2>3, <2>4, <2>5 DEF IntactInv, AgentSame
<1> QED
  BY <1>3, <1>4, <1>10, <1>11, <1>12 DEF ChainInv

LEMMA ChainOfRelay ==
  ASSUME TypeInv, NEW p \in Prompts, ChainInv(p), RelayMoves(p)
  PROVE  ChainInv(p)'
<1>1. AgentSame(p)
  BY DEF RelayMoves, RelayReads, SkipStarted, RelayEvent, RelayStops, RelayAnswer, RelayFails,
         TakeFrame, Abandon, Abandoned, AgentSame, serving, agent
<1>2. UNCHANGED link /\ ui'[p] = ui[p] /\ shown'[p] = shown[p]
  BY DEF RelayMoves, RelayReads, SkipStarted, RelayEvent, RelayStops, RelayAnswer, RelayFails,
         TakeFrame, Abandon, Abandoned, screen
<1>3. ASSUME UNCHANGED toUi PROVE Watched(p)' => UiInv(p)'
  BY <1>1, <1>2, <1>3 DEF ChainInv, Watched, UiInv, AgentSame
<1>4. ASSUME NEW e \in {"none", "failed", "cancelled"}, Emit(p, e)
      PROVE  Watched(p)' => UiInv(p)'
  <2>1. CASE e # "none" /\ Watched(p)
    <3>1. toUi'[p] = Append(toUi[p], e) /\ e \in {"work"} \cup Ends
      BY <1>4, <2>1 DEF Emit, Publish, TypeInv, Ends
    <3>2. UiInv(p)
      BY <2>1 DEF ChainInv
    <3> QED
      BY <1>1, <1>2, <1>4, <2>1, <3>1, <3>2, UiAppended DEF AgentSame
  <2>2. CASE ~(e # "none" /\ Watched(p))
    BY <1>3, <1>4, <2>2 DEF Emit
  <2> QED
    BY <2>1, <2>2
<1>5. CASE RelayReads(p)
  <2> DEFINE f == Head(inbox[p])
  <2>1. f = inbox[p][1] /\ f \in Frame
    BY <1>5, Lengths, HeadTailProperties DEF RelayReads
  <2>2. CASE SkipStarted(p, f)
    <3>1. Carries(p, 1, "started") /\ relay[p] = "next" /\ relay'[p] = "next"
          /\ inbox[p] # <<>> /\ inbox'[p] = Tail(inbox[p]) /\ toUi'[p] = toUi[p]
      BY <2>1, <2>2 DEF SkipStarted, TakeFrame, Carries, Progress, TypeInv
    <3> QED
      BY <1>1, <1>2, <3>1, FrameTaken DEF Bodies
  <2>3. CASE RelayEvent(p, f)
    <3>1. Carries(p, 1, f.body) /\ relay[p] = "next" /\ relay'[p] = "next"
          /\ inbox[p] # <<>> /\ inbox'[p] = Tail(inbox[p])
          /\ toUi'[p] = Append(toUi[p], f.body)
          /\ f.body \in Bodies /\ f.body # "started" /\ Watched(p)
      BY <2>1, <2>3 DEF RelayEvent, TakeFrame, Publish, Carries, TypeInv, Frame
    <3> QED
      BY <1>1, <1>2, <3>1, FrameTaken
  <2>4. CASE RelayStops(p, f)
    <3>1. inbox'[p] = <<>> /\ relay'[p] = "abandon"
      BY <2>4 DEF RelayStops, TakeFrame, TypeInv
    <3> QED
      BY <1>1, <1>2, <1>3, <2>4, <3>1, RelayLeft DEF RelayStops
  <2>5. CASE RelayAnswer(p, f)
    <3>1. inbox'[p] = <<>> /\ relay'[p] = "over"
      BY <2>5 DEF RelayAnswer, TakeFrame, TypeInv
    <3>2. EndAfter(p, f.body) \in {"none", "failed", "cancelled"}
      BY DEF EndAfter
    <3> QED
      BY <1>1, <1>2, <1>4, <2>5, <3>1, <3>2, RelayLeft DEF RelayAnswer
  <2>6. CASE RelayFails(p, f)
    <3>1. inbox'[p] = <<>> /\ relay'[p] = "abandon"
      BY <2>6 DEF RelayFails, TakeFrame, TypeInv
    <3> QED
      BY <1>1, <1>2, <1>4, <2>6, <3>1, RelayLeft DEF RelayFails
  <2> QED
    BY <1>5, <2>2, <2>3, <2>4, <2>5, <2>6 DEF RelayReads
<1>6. CASE Abandon(p) \/ Abandoned(p)
  <2>1. inbox'[p] = <<>> /\ relay'[p] \in {"cancelling", "over"} /\ UNCHANGED toUi
    BY <1>6 DEF Abandon, Abandoned, TypeInv, ChainInv, StageInv, screen
  <2> QED
    BY <1>1, <1>2, <1>3, <2>1, RelayLeft
<1> QED
  BY <1>5, <1>6 DEF RelayMoves

\* The conversation shows an event, or looks away.
LEMMA Unwatched ==
  ASSUME NEW p \in Prompts, ChainInv(p), AgentSame(p), RelaySame(p), ~Watched(p)',
         shown'[p] <= worked[p], relay[p] # "idle"
  PROVE  ChainInv(p)'
<1>1. StageInv(p)' /\ EventsInv(p)'
  BY DEF ChainInv, StageInv, EventsInv, AgentSame, RelaySame
<1>2. IntactInv(p)'
  BY DEF IntactInv, Intact
<1> QED
  BY <1>1, <1>2 DEF ChainInv

LEMMA ChainOfScreen ==
  ASSUME TypeInv, NEW p \in Prompts, ChainInv(p), UiShows(p) \/ UiGone(p)
  PROVE  ChainInv(p)'
<1>1. AgentSame(p) /\ RelaySame(p) /\ UNCHANGED link /\ Watched(p)
  BY DEF UiShows, UiGone, AgentSame, RelaySame, relays, serving, agent
<1>2. UiInv(p) /\ InboxInv(p) /\ relay[p] # "idle" /\ shown[p] <= worked[p]
  BY <1>1 DEF ChainInv, StageInv, Watched
<1>3. CASE UiGone(p)
  BY <1>1, <1>2, <1>3, Unwatched DEF UiGone, Watched, TypeInv
<1>4. CASE UiShows(p)
  <2> DEFINE e == Head(toUi[p])
             m == Len(toUi[p])
  <2>1. /\ toUi[p] \in Seq({"work"} \cup Ends) /\ m \in Nat \ {0} /\ e = toUi[p][1]
        /\ e \in {"work"} \cup Ends /\ Len(Tail(toUi[p])) = m - 1
        /\ \A i \in 1..(m - 1) : Tail(toUi[p])[i] = toUi[p][i + 1]
    BY <1>4, Lengths, EmptySeq, HeadTailProperties DEF UiShows
  <2>2. CASE e \in Ends
    <3>1. ui'[p] = e /\ shown'[p] = shown[p]
      BY <1>4, <2>2 DEF UiShows, TypeInv
    <3> QED
      BY <1>1, <1>2, <2>2, <3>1, Unwatched DEF Watched, Ends
  <2>3. CASE e \notin Ends
    <3>1. /\ e = "work" /\ toUi'[p] = Tail(toUi[p]) /\ shown'[p] = shown[p] + 1
          /\ ui'[p] = ui[p]
      BY <1>4, <2>1, <2>3 DEF UiShows, TypeInv
    <3>2. shown[p] + 1 <= worked[p]
      BY <1>2, <2>1, <3>1 DEF UiInv
    <3>3. /\ shown[p] \in Nat /\ worked[p] \in Nat /\ Len(toUi'[p]) = m - 1
          /\ Public1(p)' = Public1(p)
      <4>1. shown[p] \in Nat /\ worked[p] \in Nat
        BY Lengths
      <4>2. Len(toUi'[p]) = m - 1
        BY <2>1, <3>1
      <4>3. Public1(p)' = shown'[p] + Len(toUi'[p])
        BY DEF Public1
      <4>4. Public1(p) = shown[p] + m
        BY DEF Public1
      <4>5. m \in Nat /\ shown'[p] = shown[p] + 1
        BY <2>1, <3>1
      <4> HIDE DEF m
      <4> QED
        BY <4>1, <4>2, <4>3, <4>4, <4>5
    <3>4. StageInv(p)' /\ EventsInv(p)'
      BY <1>1, <1>2, <3>1, <3>2 DEF ChainInv, StageInv, EventsInv, AgentSame, RelaySame
    <3>5. UiInv(p)'
      <4> SUFFICES ASSUME NEW i \in 1..Len(toUi'[p])
                   PROVE  /\ toUi'[p][i] = "work" => shown'[p] + i <= worked'[p]
                          /\ toUi'[p][i] = "done" =>
                                shown'[p] + i - 1 = worked'[p] /\ run'[p] = "ended"
                          /\ toUi'[p][i] \in {"work", "done"} =>
                                \A j \in 1..(i - 1) : toUi'[p][j] = "work"
        BY DEF UiInv
      <4>1. i + 1 \in 1..m /\ toUi'[p][i] = toUi[p][i + 1]
            /\ \A j \in 1..(i - 1) : toUi'[p][j] = toUi[p][j + 1] /\ j + 1 \in 1..i
        BY <2>1, <3>1, <3>3
      <4>2. /\ toUi[p][i + 1] = "work" => shown[p] + (i + 1) <= worked[p]
            /\ toUi[p][i + 1] = "done" => shown[p] + (i + 1) - 1 = worked[p] /\ run[p] = "ended"
            /\ toUi[p][i + 1] \in {"work", "done"} => \A j \in 1..i : toUi[p][j] = "work"
        BY <1>2, <2>1, <3>3, <4>1 DEF UiInv
      <4>3. worked'[p] = worked[p] /\ run'[p] = run[p]
        BY <1>1 DEF AgentSame
      <4> QED
        BY <3>1, <3>3, <4>1, <4>2, <4>3
    <3>6. AllWork(toUi[p]) => AllWork(toUi'[p])
      BY <2>1, <3>1, <3>3 DEF AllWork
    <3>7. \A i, b : Carries(p, i, b)' <=> Carries(p, i, b)
      BY <1>1 DEF Carries, RelaySame
    <3>8. StartsFrames(p)' = StartsFrames(p) /\ Len(inbox'[p]) = Len(inbox[p])
      BY <1>1, <3>7 DEF StartsFrames, RelaySame
    <3>9. InboxInv(p)'
      BY <1>1, <1>2, <3>3, <3>6, <3>7, <3>8 DEF InboxInv, AgentSame
    <3>10. IntactInv(p)'
      <4> SUFFICES ASSUME Intact(p)' PROVE IntactInv(p)'
        BY DEF IntactInv
      <4>1. Intact(p) /\ IntactInv(p)
        BY <1>1 DEF Intact, Listening, RelaySame, ChainInv
      <4>2. ~(task[p] \in {"none", "spawned", "begun", "prompting", "streaming"}
              /\ p \notin known)
        BY <2>1, <4>1 DEF IntactInv
      <4>3. Public2(p)' = Public2(p) /\ StartsEvents(p)' = StartsEvents(p)
            /\ EndsEvents(p)' = EndsEvents(p)
        BY <1>1, <3>3, <3>8 DEF Public2, StartsEvents, EndsEvents, AgentSame
      <4> QED
        BY <1>1, <3>6, <3>7, <3>8, <4>1, <4>2, <4>3 DEF IntactInv, AgentSame
    <3> QED
      BY <3>4, <3>5, <3>9, <3>10 DEF ChainInv
  <2> QED
    BY <2>2, <2>3
<1> QED
  BY <1>3, <1>4

\* Neither the frames nor the screen of the prompt change: what is on its way
\* stays in place, while the run goes on or ends.
LEMMA OnItsWay ==
  ASSUME TypeInv, NEW p \in Prompts, ChainInv(p), RelaySame(p), ScreenSame(p),
         worked'[p] \in Nat, worked'[p] >= worked[p],
         run[p] = "ended" => run'[p] = "ended" /\ worked'[p] = worked[p]
  PROVE  /\ Watched(p)' => UiInv(p)' /\ InboxInv(p)'
         /\ Public2(p)' = Public2(p) /\ StartsFrames(p)' = StartsFrames(p)
         /\ \A i, b : Carries(p, i, b)' <=> Carries(p, i, b)
<1>1. \A i, b : Carries(p, i, b)' <=> Carries(p, i, b)
  BY DEF Carries, RelaySame
<1>2. StartsFrames(p)' = StartsFrames(p) /\ Public1(p)' = Public1(p)
  BY <1>1 DEF StartsFrames, Public1, RelaySame, ScreenSame
<1>3. /\ Len(inbox[p]) \in Nat /\ Len(toUi[p]) \in Nat /\ shown[p] \in Nat /\ worked[p] \in Nat
      /\ Public1(p) \in Nat /\ StartsFrames(p) \in {0, 1}
  BY Lengths
<1>4. Watched(p)' => UiInv(p)'
  BY <1>3 DEF ChainInv, Watched, UiInv, ScreenSame
<1>5. Watched(p)' => InboxInv(p)'
  <2> SUFFICES ASSUME Watched(p)', NEW i \in 1..Len(inbox[p])
               PROVE  /\ Carries(p, i, "started")' => i = 1
                      /\ Carries(p, i, "work")' =>
                            Public1(p)' + i - StartsFrames(p)' <= worked'[p]
                      /\ Carries(p, i, "done")' =>
                            /\ Public1(p)' + i - 1 - StartsFrames(p)' = worked'[p]
                            /\ run'[p] = "ended"
                      /\ Carries(p, i, "work")' \/ Carries(p, i, "done")' =>
                            /\ AllWork(toUi'[p])
                            /\ \A j \in 1..(i - 1) :
                                  Carries(p, j, "work")' \/ Carries(p, j, "started")'
    BY DEF InboxInv, RelaySame
  <2>1. /\ Carries(p, i, "started") => i = 1
        /\ Carries(p, i, "work") => Public1(p) + i - StartsFrames(p) <= worked[p]
        /\ Carries(p, i, "done") =>
              Public1(p) + i - 1 - StartsFrames(p) = worked[p] /\ run[p] = "ended"
        /\ Carries(p, i, "work") \/ Carries(p, i, "done") =>
              /\ AllWork(toUi[p])
              /\ \A j \in 1..(i - 1) : Carries(p, j, "work") \/ Carries(p, j, "started")
    BY DEF ChainInv, InboxInv, Watched, ScreenSame
  <2>2. Carries(p, i, "work")' => Public1(p)' + i - StartsFrames(p)' <= worked'[p]
    BY <1>1, <1>2, <1>3, <2>1
  <2>3. toUi'[p] = toUi[p]
    BY DEF ScreenSame
  <2> QED
    BY <1>1, <1>2, <1>3, <2>1, <2>2, <2>3
<1>6. Public2(p)' = Public2(p)
  BY <1>2 DEF Public2, RelaySame
<1> QED
  BY <1>1, <1>2, <1>4, <1>5, <1>6

\* A step of the run.
LEMMA RunStepped ==
  ASSUME TypeInv, TypeInv', NEW p \in Prompts, ChainInv(p), RelaySame(p), ScreenSame(p),
         link' = link, task'[p] = task[p], p \in known' <=> p \in known,
         task[p] # "streaming" => events'[p] = events[p],
         run'[p] \notin {"none", "new"},
         \/ /\ run[p] = "new" /\ worked'[p] = worked[p]
            /\ task[p] = "streaming" => events'[p] = events[p] \o <<"started">>
         \/ /\ run[p] = "running" /\ worked'[p] = worked[p] + 1
            /\ task[p] = "streaming" => events'[p] = events[p] \o <<"work">>
         \/ /\ run[p] \in {"running", "parked"} /\ run'[p] = "ended" /\ worked'[p] = worked[p]
            /\ task[p] = "streaming" => \E e \in Ends : events'[p] = events[p] \o <<e>>
         \/ /\ run[p] \in {"running", "parked"} /\ worked'[p] = worked[p]
            /\ events'[p] = events[p]
  PROVE  ChainInv(p)'
<1>1. /\ worked[p] \in Nat /\ events[p] \in Seq(Bodies) /\ Len(events[p]) \in Nat
      /\ events[p] = <<>> <=> Len(events[p]) = 0
      /\ Public2(p) \in Int /\ shown[p] \in Nat
  BY Lengths
<1>2. worked'[p] \in Nat /\ worked'[p] >= worked[p] /\ run[p] \notin {"none", "ended"}
  BY <1>1
<1>3. /\ Watched(p)' => UiInv(p)' /\ InboxInv(p)'
      /\ Public2(p)' = Public2(p)
      /\ \A i, b : Carries(p, i, b)' <=> Carries(p, i, b)
  BY <1>2, OnItsWay
<1>4. StageInv(p)'
  BY <1>1, <1>2 DEF ChainInv, StageInv, RelaySame, ScreenSame
<1>5. Intact(p)' => Intact(p)
  BY DEF Intact, Listening, Watched, RelaySame, ScreenSame
<1>6. task[p] \notin {"none", "spawned", "begun", "prompting"}
  BY <1>2 DEF ChainInv, StageInv
<1>7. CASE task[p] # "streaming"
  <2>1. events[p] = <<>> /\ events'[p] = <<>>
    BY <1>7 DEF ChainInv, StageInv
  <2>2. EventsInv(p)'
    BY <1>7, <2>1 DEF EventsInv
  <2>3. IntactInv(p)'
    BY <1>6, <1>7 DEF IntactInv
  <2> QED
    BY <1>3, <1>4, <2>2, <2>3 DEF ChainInv
<1>8. CASE task[p] = "streaming" /\ events'[p] = events[p]
  <2>0. worked'[p] = worked[p] /\ run[p] # "new"
    <3>1. \A e : events[p] \o <<e>> # events[p]
      BY <1>1
    <3> QED
      BY <1>8, <3>1
  <2>1. EventsInv(p)'
    BY <1>8, <2>0 DEF ChainInv, EventsInv
  <2>2. StartsEvents(p)' = StartsEvents(p) /\ EndsEvents(p)' = EndsEvents(p)
    BY <1>8 DEF StartsEvents, EndsEvents
  <2>3. IntactInv(p)'
    BY <1>3, <1>5, <1>8, <2>0, <2>2 DEF ChainInv, IntactInv, RelaySame, ScreenSame
  <2> QED
    BY <1>3, <1>4, <2>1, <2>3 DEF ChainInv
<1>9. ASSUME task[p] = "streaming", NEW e \in Bodies, events'[p] = events[p] \o <<e>>,
             \/ e = "started" /\ run[p] = "new" /\ worked'[p] = worked[p]
             \/ e = "work" /\ run[p] # "new" /\ worked'[p] = worked[p] + 1
             \/ e \in Ends /\ run[p] # "new" /\ worked'[p] = worked[p] /\ run'[p] = "ended"
      PROVE  ChainInv(p)'
  <2> DEFINE n == Len(events[p])
  <2>1. /\ Len(events'[p]) = n + 1 /\ events'[p][n + 1] = e
        /\ \A i \in 1..n : events'[p][i] = events[p][i]
        /\ events'[p] # <<>>
    BY <1>1, <1>9
  <2>2. \A i \in 1..n : events[p][i] \notin Ends
    BY <1>2 DEF ChainInv, EventsInv
  <2>3. /\ run[p] = "new" => n = 0 /\ p \notin known
        /\ run[p] # "new" /\ p \notin known => n # 0
    BY <1>1, <1>9 DEF ChainInv, EventsInv
  <2>4. e = "started" <=> n + 1 = 1 /\ p \notin known
    BY <1>1, <1>9, <2>3 DEF Ends
  <2>5. EventsInv(p)'
    <3> SUFFICES ASSUME NEW i \in 1..(n + 1)
                 PROVE  /\ events'[p][i] = "started" <=> i = 1 /\ p \notin known
                        /\ events'[p][i] \in Ends => i = n + 1 /\ run'[p] = "ended"
      BY <2>1 DEF EventsInv
    <3>1. CASE i \in 1..n
      BY <2>1, <2>2, <3>1 DEF ChainInv, EventsInv
    <3>2. CASE i = n + 1
      BY <1>9, <2>1, <2>4, <3>2 DEF Ends
    <3> QED
      BY <1>1, <3>1, <3>2
  <2>6. /\ EndsEvents(p) = 0 /\ EndsEvents(p)' = IF e \in Ends THEN 1 ELSE 0
        /\ StartsEvents(p)' = IF p \notin known THEN 1 ELSE 0
        /\ StartsEvents(p) = IF p \notin known /\ run[p] # "new" THEN 1 ELSE 0
    BY <1>1, <2>1, <2>2, <2>3 DEF EndsEvents, StartsEvents
  <2>7. \/ /\ StartsEvents(p)' = 1 /\ StartsEvents(p) = 0 /\ EndsEvents(p)' = 0
           /\ worked'[p] = worked[p]
        \/ /\ StartsEvents(p)' = StartsEvents(p) /\ EndsEvents(p)' = 0
           /\ worked'[p] = worked[p] + 1
        \/ /\ StartsEvents(p)' = StartsEvents(p) /\ EndsEvents(p)' = 1
           /\ worked'[p] = worked[p]
    BY <1>9, <2>3, <2>6 DEF Ends
  <2>8. IntactInv(p)'
    <3> SUFFICES ASSUME Intact(p)' PROVE IntactInv(p)'
      BY DEF IntactInv
    <3>1. Intact(p) /\ IntactInv(p)
      BY <1>5 DEF ChainInv
    <3>2. Public2(p) + n - StartsEvents(p) - EndsEvents(p) = worked[p]
      BY <1>9, <3>1 DEF IntactInv
    <3>3. Public2(p)' + Len(events'[p]) - StartsEvents(p)' - EndsEvents(p)' = worked'[p]
      <4>1. /\ Public2(p)' = Public2(p) /\ Public2(p) \in Int /\ n \in Int
            /\ Len(events'[p]) = n + 1 /\ worked[p] \in Int
            /\ StartsEvents(p) \in Int /\ EndsEvents(p) = 0
        BY <1>1, <1>3, <2>1, <2>6
      <4>2. Public2(p) + (n + 1) - StartsEvents(p)' - EndsEvents(p)' = worked'[p]
        <5> DEFINE sent == Public2(p)
                   start == StartsEvents(p)
                   start1 == StartsEvents(p)'
                   end1 == EndsEvents(p)'
                   work == worked[p]
                   work1 == worked'[p]
        <5>1. /\ sent \in Int /\ n \in Int /\ start \in Int /\ work \in Int
              /\ sent + n - start - 0 = work
          BY <3>2, <4>1
        <5>2. \/ start1 = 1 /\ start = 0 /\ end1 = 0 /\ work1 = work
              \/ start1 = start /\ end1 = 0 /\ work1 = work + 1
              \/ start1 = start /\ end1 = 1 /\ work1 = work
          BY <2>7
        <5> HIDE DEF sent, n, start, start1, end1, work, work1
        <5>3. sent + (n + 1) - start1 - end1 = work1
          BY <5>1, <5>2
        <5> QED
          BY <5>3 DEF sent, n, start, start1, end1, work, work1
      <4> QED
        BY <4>1, <4>2
    <3> QED
      BY <1>3, <1>9, <3>1, <3>3 DEF IntactInv, RelaySame, ScreenSame
  <2> QED
    BY <1>3, <1>4, <2>5, <2>8 DEF ChainInv
<1> QED
  BY <1>7, <1>8, <1>9 DEF Bodies, Ends

\* A frame is written behind the others.
LEMMA FrameWritten ==
  ASSUME TypeInv, NEW p \in Prompts, ChainInv(p), ScreenSame(p), Watched(p),
         worked'[p] = worked[p], run'[p] = run[p],
         NEW f \in Frame, inbox'[p] = Append(inbox[p], f),
         \/ f.kind # "progress"
         \/ f.body \in {"failed", "cancelled"}
         \/ f.body = "started" /\ inbox[p] = <<>>
         \/ /\ f.body \in {"work", "done"} /\ AllWork(toUi[p])
            /\ \A i \in 1..Len(inbox[p]) : Carries(p, i, "work") \/ Carries(p, i, "started")
            /\ f.body = "work" => Public2(p) + 1 <= worked[p]
            /\ f.body = "done" => Public2(p) = worked[p] /\ run[p] = "ended"
  PROVE  InboxInv(p)'
<1> DEFINE n == Len(inbox[p])
<1>1. /\ inbox[p] \in Seq(Frame) /\ n \in Nat /\ shown[p] \in Nat /\ Public1(p) \in Nat
      /\ StartsFrames(p) \in {0, 1} /\ worked[p] \in Nat
      /\ inbox[p] = <<>> <=> n = 0
  BY Lengths
<1>2. /\ Len(inbox'[p]) = n + 1 /\ inbox'[p][n + 1] = f
      /\ \A i \in 1..n : inbox'[p][i] = inbox[p][i]
      /\ inbox'[p] # <<>>
  BY <1>1, AppendProperties
<1>3. /\ \A i \in 1..n : \A b : Carries(p, i, b)' <=> Carries(p, i, b)
      /\ \A i, b : i = n + 1 => (Carries(p, i, b)' <=> f.kind = "progress" /\ f.body = b)
  BY <1>2 DEF Carries
<1>4. Public1(p)' = Public1(p)
  BY DEF Public1, ScreenSame
<1>5. /\ n # 0 => StartsFrames(p)' = StartsFrames(p)
      /\ n = 0 => StartsFrames(p) = 0
  <2>1. CASE n # 0
    BY <1>1, <1>2, <2>1 DEF StartsFrames, Carries
  <2>2. CASE n = 0
    BY <1>1, <2>2 DEF StartsFrames
  <2> QED
    BY <2>1, <2>2
<1>6. InboxInv(p) /\ toUi'[p] = toUi[p]
  BY DEF ChainInv, ScreenSame
<1> SUFFICES ASSUME NEW i \in 1..(n + 1)
             PROVE  /\ Carries(p, i, "started")' => i = 1
                    /\ Carries(p, i, "work")' =>
                          Public1(p)' + i - StartsFrames(p)' <= worked'[p]
                    /\ Carries(p, i, "done")' =>
                          /\ Public1(p)' + i - 1 - StartsFrames(p)' = worked'[p]
                          /\ run'[p] = "ended"
                    /\ Carries(p, i, "work")' \/ Carries(p, i, "done")' =>
                          /\ AllWork(toUi'[p])
                          /\ \A j \in 1..(i - 1) :
                                Carries(p, j, "work")' \/ Carries(p, j, "started")'
  BY <1>2 DEF InboxInv
<1>7. CASE i \in 1..n
  <2>1. /\ Carries(p, i, "started") => i = 1
        /\ Carries(p, i, "work") => Public1(p) + i - StartsFrames(p) <= worked[p]
        /\ Carries(p, i, "done") =>
              Public1(p) + i - 1 - StartsFrames(p) = worked[p] /\ run[p] = "ended"
        /\ Carries(p, i, "work") \/ Carries(p, i, "done") =>
              /\ AllWork(toUi[p])
              /\ \A j \in 1..(i - 1) : Carries(p, j, "work") \/ Carries(p, j, "started")
    BY <1>6, <1>7 DEF InboxInv
  <2>2. StartsFrames(p)' = StartsFrames(p) /\ \A j \in 1..(i - 1) : j \in 1..n
    BY <1>1, <1>5, <1>7
  <2> QED
    BY <1>3, <1>4, <1>6, <1>7, <2>1, <2>2
<1>8. CASE i = n + 1
  <2>1. CASE f.kind # "progress" \/ f.body \in {"failed", "cancelled"}
    BY <1>3, <1>8, <2>1
  <2>2. CASE f.body = "started" /\ inbox[p] = <<>>
    BY <1>1, <1>3, <1>8, <2>2
  <2>3. CASE /\ f.body \in {"work", "done"} /\ AllWork(toUi[p])
             /\ \A j \in 1..n : Carries(p, j, "work") \/ Carries(p, j, "started")
             /\ f.body = "work" => Public2(p) + 1 <= worked[p]
             /\ f.body = "done" => Public2(p) = worked[p] /\ run[p] = "ended"
    <3>1. StartsFrames(p)' = StartsFrames(p)
      <4>1. CASE n = 0
        <5>1. inbox'[p][1] = f
          BY <1>2, <4>1
        <5> QED
          BY <1>5, <2>3, <4>1, <5>1 DEF StartsFrames, Carries
      <4> QED
        BY <1>5, <4>1
    <3>2. Public2(p) = Public1(p) + n - StartsFrames(p)
      BY DEF Public2
    <3>3. f.body = "work" => Public1(p)' + i - StartsFrames(p)' <= worked'[p]
      BY <1>1, <1>4, <1>8, <2>3, <3>1, <3>2
    <3>4. f.body = "done" => /\ Public1(p)' + i - 1 - StartsFrames(p)' = worked'[p]
                             /\ run'[p] = "ended"
      BY <1>1, <1>4, <1>8, <2>3, <3>1, <3>2
    <3>5. \A j \in 1..(i - 1) : Carries(p, j, "work")' \/ Carries(p, j, "started")'
      BY <1>1, <1>3, <1>8, <2>3
    <3> QED
      BY <1>3, <1>6, <1>8, <2>3, <3>3, <3>4, <3>5
  <2> QED
    BY <2>1, <2>2, <2>3
<1> QED
  BY <1>1, <1>7, <1>8

LEMMA Sent ==
  ASSUME TypeInv, NEW p \in Prompts, NEW f, Send(p, f)
  PROVE  /\ inbox'[p] = IF link = "up" /\ Listening(p) THEN Append(inbox[p], f) ELSE inbox[p]
         /\ \A q \in Prompts \ {p} : inbox'[q] = inbox[q]
BY DEF Send, TypeInv

\* The plugin returns: what it has not read goes nowhere.
LEMMA ChainOfReturn ==
  ASSUME TypeInv, NEW p \in Prompts, ChainInv(p),
         NEW e \in {"result", "error", "cancelled"}, Return(p, Answer(e)), task[p] # "none"
  PROVE  ChainInv(p)'
<1>1. /\ UNCHANGED <<link, relays, screen, run, worked>>
      /\ task'[p] = "over" /\ events'[p] = <<>> /\ p \notin known'
  BY DEF Return, Leave, TypeInv
<1>2. inbox'[p] = IF link = "up" /\ Listening(p) THEN Append(inbox[p], Answer(e)) ELSE inbox[p]
  BY Sent DEF Return
<1>3. StageInv(p)' /\ EventsInv(p)' /\ IntactInv(p)'
  <2>1. relay[p] # "idle" /\ relay'[p] = relay[p]
    BY <1>1 DEF ChainInv, StageInv, relays
  <2>2. relay[p] # "next" => inbox'[p] = <<>>
    BY <1>2 DEF ChainInv, StageInv, Listening
  <2> QED
    BY <1>1, <2>1, <2>2 DEF ChainInv, StageInv, EventsInv, IntactInv, screen
<1>4. Watched(p)' => UiInv(p)' /\ Watched(p)
  BY <1>1 DEF ChainInv, Watched, UiInv, screen
<1>5. ASSUME Watched(p) PROVE InboxInv(p)'
  <2>1. CASE inbox'[p] = inbox[p]
    <3>1. ScreenSame(p) /\ RelaySame(p) /\ worked'[p] = worked[p] /\ run'[p] = run[p]
          /\ Watched(p)'
      BY <1>1, <1>5, <2>1 DEF ScreenSame, RelaySame, screen, relays, Watched
    <3> QED
      BY <3>1, OnItsWay, Lengths
  <2>2. CASE inbox'[p] = Append(inbox[p], Answer(e))
    BY <1>1, <1>5, <2>2, FrameKinds, FrameWritten DEF ScreenSame, screen, Answer
  <2> QED
    BY <1>2, <2>1, <2>2
<1> QED
  BY <1>3, <1>4, <1>5 DEF ChainInv

\* The plugin reads one event and passes it on.
LEMMA EventPassed ==
  ASSUME TypeInv, NEW p \in Prompts, ChainInv(p), LoopEvent(p)
  PROVE  ChainInv(p)'
<1> DEFINE e == Head(events[p])
           n == Len(events[p])
<1>1. /\ task[p] = "streaming" /\ events[p] # <<>> /\ UNCHANGED <<relays, screen, run, worked>>
      /\ link' = link
  BY DEF LoopEvent, Leave, agent
<1>2. /\ RelaySame(p) <=> inbox'[p] = inbox[p]
      /\ relay'[p] = relay[p] /\ ScreenSame(p) /\ worked'[p] = worked[p] /\ run'[p] = run[p]
      /\ Watched(p)' <=> Watched(p)
  BY <1>1 DEF RelaySame, ScreenSame, relays, screen, Watched
<1>3. /\ events[p] \in Seq(Bodies) /\ n \in Nat \ {0} /\ e = events[p][1] /\ e \in Bodies
      /\ Tail(events[p]) \in Seq(Bodies) /\ Len(Tail(events[p])) = n - 1
      /\ \A i \in 1..(n - 1) : Tail(events[p])[i] = events[p][i + 1]
  BY <1>1, Lengths, EmptySeq, HeadTailProperties
<1>4. /\ e = "started" <=> p \notin known
      /\ e \in Ends => n = 1 /\ run[p] = "ended"
      /\ run[p] # "new" /\ relay[p] # "idle" /\ run[p] # "none"
  <2>1. 1 \in 1..n
    BY <1>3
  <2>2. /\ e = "started" <=> 1 = 1 /\ p \notin known
        /\ e \in Ends => 1 = n /\ run[p] = "ended"
    BY <1>3, <2>1 DEF ChainInv, EventsInv
  <2>3. run[p] # "new" /\ relay[p] # "idle" /\ run[p] # "none"
    BY <1>1 DEF ChainInv, EventsInv, StageInv
  <2> QED
    BY <2>2, <2>3
<1>5. PICK f \in Lines(e) : Send(p, f)
  BY DEF LoopEvent
<1>6. f = Progress(e) \/ (e = "work" /\ f = Answer("error"))
  BY <1>5 DEF Lines
<1>7. f \in Frame
  BY <1>3, <1>6, FrameKinds
<1>8. inbox'[p] = IF link = "up" /\ Listening(p) THEN Append(inbox[p], f) ELSE inbox[p]
  BY <1>5, <1>7, Sent
<1>9. UiInv(p)' \/ ~Watched(p)
  BY <1>2 DEF ChainInv, UiInv, ScreenSame
\* What the invariant says of an event that is the next one.
<1>10. ASSUME Intact(p)
       PROVE  /\ e = "started" => inbox[p] = <<>> /\ toUi[p] = <<>>
              /\ AllWork(toUi[p])
              /\ \A i \in 1..Len(inbox[p]) : Carries(p, i, "work") \/ Carries(p, i, "started")
              /\ Public2(p) + n - StartsEvents(p) - EndsEvents(p) = worked[p]
              /\ StartsEvents(p) = IF e = "started" THEN 1 ELSE 0
              /\ EndsEvents(p) \in {0, 1}
              /\ n = 1 => EndsEvents(p) = IF e \in Ends THEN 1 ELSE 0
  <2>1. IntactInv(p)
    BY DEF ChainInv
  <2>2. StartsEvents(p) = IF e = "started" THEN 1 ELSE 0
    BY <1>1, <1>4 DEF StartsEvents
  <2>3. /\ EndsEvents(p) \in {0, 1}
        /\ n = 1 => EndsEvents(p) = IF e \in Ends THEN 1 ELSE 0
    BY <1>1, <1>3 DEF EndsEvents
  <2> QED
    BY <1>1, <1>4, <1>10, <2>1, <2>2, <2>3 DEF IntactInv
<1>11. Public2(p) \in Int /\ worked[p] \in Nat /\ StartsEvents(p) \in Int /\ EndsEvents(p) \in Int
  BY Lengths
<1>12. Watched(p) => InboxInv(p)'
  <2> SUFFICES ASSUME Watched(p) PROVE InboxInv(p)'
    OBVIOUS
  <2>1. CASE ~(link = "up" /\ Listening(p))
    BY <1>2, <1>8, <2>1, OnItsWay, Lengths
  <2>2. CASE link = "up" /\ Listening(p)
    <3>1. Intact(p) /\ inbox'[p] = Append(inbox[p], f)
      BY <1>8, <2>2 DEF Intact
    <3>2. CASE f = Answer("error")
      BY <1>2, <1>7, <3>1, <3>2, FrameWritten DEF Answer
    <3>3. CASE f = Progress(e)
      <4>1. f.kind = "progress" /\ f.body = e
        BY <3>3 DEF Progress
      <4>2. e = "work" => Public2(p) + 1 <= worked[p]
        <5>1. e = "work" => StartsEvents(p) = 0 /\ n - EndsEvents(p) >= 1
          <6>1. e = "work" => StartsEvents(p) = 0 /\ e \notin Ends
            BY <1>10, <3>1 DEF Ends
          <6>2. e \notin Ends => n - EndsEvents(p) >= 1
            <7>1. CASE n = 1
              BY <1>10, <3>1, <7>1
            <7>2. CASE n # 1
              <8>1. n \in Nat \ {0} /\ EndsEvents(p) \in {0, 1}
                BY <1>3, <1>10, <3>1
              <8> HIDE DEF n
              <8> QED
                BY <7>2, <8>1
            <7> QED
              BY <7>1, <7>2
          <6> QED
            BY <6>1, <6>2
        <5>2. n \in Int /\ Public2(p) + n - StartsEvents(p) - EndsEvents(p) = worked[p]
          BY <1>3, <1>10, <3>1
        <5> HIDE DEF n, e
        <5> QED
          BY <1>11, <5>1, <5>2
      <4>3. e = "done" => Public2(p) = worked[p] /\ run[p] = "ended"
        <5>1. e = "done" => StartsEvents(p) = 0 /\ n = 1 /\ EndsEvents(p) = 1 /\ run[p] = "ended"
          BY <1>3, <1>4, <1>10, <3>1 DEF Ends
        <5>2. n \in Int /\ Public2(p) + n - StartsEvents(p) - EndsEvents(p) = worked[p]
          BY <1>3, <1>10, <3>1
        <5> HIDE DEF n, e
        <5> QED
          BY <1>11, <5>1, <5>2
      <4> QED
        BY <1>2, <1>3, <1>7, <1>10, <3>1, <4>1, <4>2, <4>3, FrameWritten DEF Bodies, Ends
    <3> QED
      BY <1>6, <3>2, <3>3
  <2> QED
    BY <2>1, <2>2
<1>13. CASE Leave(p, "replying")
  <2>1. task'[p] = "replying" /\ events'[p] = <<>> /\ p \notin known'
    BY <1>13 DEF Leave, TypeInv
  <2>2. StageInv(p)'
    <3>1. relay[p] # "next" => inbox'[p] = <<>>
      BY <1>8 DEF ChainInv, StageInv, Listening
    <3> QED
      BY <1>2, <1>4, <2>1, <3>1 DEF ChainInv, StageInv, ScreenSame
  <2>3. EventsInv(p)' /\ IntactInv(p)'
    BY <1>2, <1>4, <2>1 DEF EventsInv, IntactInv
  <2> QED
    BY <1>2, <1>9, <1>12, <2>2, <2>3 DEF ChainInv
<1>14. CASE ~Leave(p, "replying")
  <2>1. /\ e \notin Ends /\ link = "up" /\ task'[p] = "streaming"
        /\ known' = (IF e = "started" THEN known \cup {p} ELSE known)
        /\ events'[p] = Tail(events[p])
    BY <1>1, <1>14 DEF LoopEvent, TypeInv
  <2>2. p \in known'
    BY <1>4, <2>1
  <2>3. StageInv(p)'
    <3>1. relay[p] # "next" => inbox'[p] = <<>>
      BY <1>8 DEF ChainInv, StageInv, Listening
    <3> QED
      BY <1>1, <1>2, <1>4, <2>1, <3>1 DEF ChainInv, StageInv, ScreenSame
  <2>4. EventsInv(p)'
    <3>1. ASSUME NEW i \in 1..(n - 1)
          PROVE  /\ events'[p][i] # "started"
                 /\ events'[p][i] \in Ends => i = n - 1 /\ run'[p] = "ended"
      <4>1. i + 1 \in 1..n /\ i + 1 # 1 /\ events'[p][i] = events[p][i + 1]
        BY <1>3, <2>1
      <4> QED
        BY <1>2, <1>3, <4>1 DEF ChainInv, EventsInv
    <3>2. Len(events'[p]) = n - 1
      BY <1>3, <2>1
    <3> QED
      BY <1>2, <1>4, <2>2, <3>1, <3>2 DEF EventsInv
  <2>5. IntactInv(p)'
    <3> SUFFICES ASSUME Intact(p)' PROVE IntactInv(p)'
      BY DEF IntactInv
    <3>1. /\ inbox[p] \in Seq(Frame) /\ Len(inbox[p]) \in Nat /\ Len(inbox'[p]) = Len(inbox[p]) + 1
          /\ Intact(p) /\ inbox'[p] = Append(inbox[p], f)
      <4>1. Listening(p)
        <5>1. CASE inbox'[p] = inbox[p]
          BY <1>2, <5>1 DEF Intact, Listening
        <5>2. CASE inbox'[p] # inbox[p]
          BY <1>8, <5>2
        <5> QED
          BY <5>1, <5>2
      <4> QED
        BY <1>2, <1>7, <1>8, <2>1, <4>1, Lengths, AppendProperties DEF Intact
    <3>2. /\ \A i \in 1..Len(inbox[p]) : inbox'[p][i] = inbox[p][i]
          /\ \A i : i = Len(inbox[p]) + 1 => inbox'[p][i] = f
          /\ inbox'[p] # <<>>
      BY <1>7, <3>1, AppendProperties
    <3>3. f = Progress(e) /\ e \in {"started", "work"}
      <4>1. f.kind = "progress"
        BY <3>1, <3>2 DEF Intact, Listening
      <4> QED
        BY <1>3, <1>6, <2>1, <4>1 DEF Answer, Bodies
    <3>4. \A i \in 1..Len(inbox'[p]) : Carries(p, i, "work")' \/ Carries(p, i, "started")'
      <4> SUFFICES ASSUME NEW i \in 1..(Len(inbox[p]) + 1)
                   PROVE  Carries(p, i, "work")' \/ Carries(p, i, "started")'
        BY <3>1
      <4>1. CASE i \in 1..Len(inbox[p])
        BY <1>10, <3>1, <3>2, <4>1 DEF Carries
      <4>2. CASE i = Len(inbox[p]) + 1
        BY <3>2, <3>3, <4>2 DEF Carries, Progress
      <4> QED
        BY <3>1, <4>1, <4>2
    <3>5. Public1(p)' = Public1(p) /\ Public1(p) \in Nat /\ StartsFrames(p) \in {0, 1}
          /\ toUi'[p] = toUi[p]
      BY <1>2, Lengths DEF Public1, ScreenSame
    <3>6. Public2(p)' = Public2(p) + (IF e = "work" THEN 1 ELSE 0)
      <4>1. CASE inbox[p] = <<>>
        <5>1. Len(inbox[p]) = 0 /\ inbox'[p][1] = f
          BY <3>1, <3>2, <4>1, EmptySeq
        <5>2. StartsFrames(p) = 0 /\ StartsFrames(p)' = IF e = "started" THEN 1 ELSE 0
          BY <3>2, <3>3, <4>1, <5>1 DEF StartsFrames, Carries, Progress
        <5> QED
          BY <3>1, <3>3, <3>5, <5>1, <5>2 DEF Public2
      <4>2. CASE inbox[p] # <<>>
        <5>1. e = "work" /\ 1 \in 1..Len(inbox[p])
          BY <1>10, <3>1, <3>3, <4>2, EmptySeq
        <5>2. StartsFrames(p)' = StartsFrames(p)
          BY <3>2, <4>2, <5>1 DEF StartsFrames, Carries
        <5> QED
          BY <3>1, <3>5, <5>1, <5>2 DEF Public2
      <4> QED
        BY <4>1, <4>2
    <3>7. StartsEvents(p)' = 0
      BY <2>2 DEF StartsEvents
    <3>8. EndsEvents(p)' = EndsEvents(p) /\ Len(events'[p]) = n - 1
      <4>1. Len(events'[p]) = n - 1 /\ (events'[p] = <<>> <=> n = 1)
        <5>1. Len(events'[p]) = n - 1 /\ events'[p] \in Seq(Bodies)
          BY <1>3, <2>1
        <5>2. events'[p] = <<>> <=> Len(events'[p]) = 0
          BY <5>1, EmptySeq
        <5>3. n \in Nat
          BY <1>3
        <5> QED
          BY <5>1, <5>2, <5>3
      <4>2. CASE n = 1
        BY <1>10, <2>1, <3>1, <4>1, <4>2 DEF EndsEvents
      <4>3. CASE n # 1
        <5>1. events'[p][n - 1] = events[p][n]
          <6>1. n - 1 \in 1..(n - 1) /\ (n - 1) + 1 = n
            <7>1. n \in Nat \ {0}
              BY <1>3
            <7> HIDE DEF n
            <7> QED
              BY <4>3, <7>1
          <6> QED
            BY <1>3, <2>1, <6>1
        <5> QED
          BY <1>1, <4>1, <4>3, <5>1 DEF EndsEvents
      <4> QED
        BY <4>1, <4>2, <4>3
    <3>9. Public2(p)' + Len(events'[p]) - StartsEvents(p)' - EndsEvents(p)' = worked'[p]
      <4>1. /\ Public2(p) + n - (IF e = "started" THEN 1 ELSE 0) - EndsEvents(p) = worked[p]
            /\ Public2(p)' = Public2(p) + (IF e = "work" THEN 1 ELSE 0)
            /\ Len(events'[p]) = n - 1 /\ StartsEvents(p)' = 0 /\ EndsEvents(p)' = EndsEvents(p)
            /\ worked'[p] = worked[p] /\ EndsEvents(p) \in Int /\ n \in Int /\ Public2(p) \in Int
        <5>1. StartsEvents(p) = IF e = "started" THEN 1 ELSE 0
          BY <1>10, <3>1
        <5>2. Public2(p) + n - StartsEvents(p) - EndsEvents(p) = worked[p]
          BY <1>10, <3>1
        <5>3. n \in Int
          BY <1>3
        <5> QED
          BY <1>2, <1>11, <3>6, <3>7, <3>8, <5>1, <5>2, <5>3
      <4> HIDE DEF n, e
      <4> QED
        BY <3>3, <4>1
    <3> QED
      BY <1>10, <2>1, <2>2, <3>1, <3>4, <3>5, <3>9 DEF IntactInv
  <2> QED
    BY <1>2, <1>9, <1>12, <2>3, <2>4, <2>5 DEF ChainInv
<1> QED
  BY <1>13, <1>14

\* The task goes on to its next stage; the run may begin, or go on after an answer.
LEMMA StageReached ==
  ASSUME TypeInv, NEW p \in Prompts, ChainInv(p), RelaySame(p), ScreenSame(p), link' = link,
         worked'[p] = worked[p], events'[p] = events[p], p \in known' <=> p \in known,
         \/ /\ task[p] \in {"spawned", "begun"} /\ task'[p] \in {"begun", "prompting"}
            /\ run'[p] = run[p]
         \/ task[p] = "prompting" /\ task'[p] = "streaming" /\ run'[p] = "new"
         \/ /\ task'[p] = task[p] /\ run[p] = "parked" /\ run'[p] = "running"
  PROVE  ChainInv(p)'
<1>1. worked[p] \in Nat
  BY Lengths
<1>2. run[p] = "ended" => run'[p] = "ended"
  BY DEF ChainInv, StageInv
<1>3. /\ Watched(p)' => UiInv(p)' /\ InboxInv(p)'
      /\ Public2(p)' = Public2(p)
      /\ \A i, b : Carries(p, i, b)' <=> Carries(p, i, b)
  BY <1>1, <1>2, OnItsWay
<1>4. StageInv(p)'
  BY DEF ChainInv, StageInv, RelaySame, ScreenSame
<1>5. EventsInv(p)'
  <2>1. CASE task'[p] = task[p]
    BY <1>2, <2>1 DEF ChainInv, EventsInv
  <2>2. CASE task'[p] # task[p]
    <3>1. events[p] = <<>> /\ p \notin known /\ (task'[p] = "streaming" => run'[p] = "new")
      BY <2>2 DEF ChainInv, StageInv
    <3> QED
      BY <3>1 DEF EventsInv
  <2> QED
    BY <2>1, <2>2
<1>6. Intact(p)' => Intact(p)
  BY DEF Intact, Listening, Watched, RelaySame, ScreenSame
<1>7. StartsEvents(p)' = StartsEvents(p) /\ EndsEvents(p)' = EndsEvents(p)
  BY DEF StartsEvents, EndsEvents
<1>8. IntactInv(p)'
  <2>1. CASE task'[p] # "streaming" \/ task[p] = "streaming"
    BY <1>3, <1>6, <1>7, <2>1 DEF ChainInv, IntactInv, RelaySame, ScreenSame
  <2>2. CASE task'[p] = "streaming" /\ task[p] = "prompting"
    <3> SUFFICES ASSUME Intact(p)' PROVE IntactInv(p)'
      BY DEF IntactInv
    <3>1. inbox[p] = <<>> /\ toUi[p] = <<>> /\ events[p] = <<>> /\ worked[p] = 0 /\ shown[p] <= 0
          /\ p \notin known
      BY <1>6, <2>2 DEF ChainInv, IntactInv, StageInv
    <3>2. Len(inbox[p]) = 0 /\ Len(toUi[p]) = 0 /\ Len(events[p]) = 0 /\ shown[p] = 0
      BY <3>1, Empty, Lengths
    <3>3. StartsFrames(p) = 0 /\ StartsEvents(p) = 0 /\ EndsEvents(p) = 0
      BY <3>1 DEF StartsFrames, StartsEvents, EndsEvents
    <3>4. Public2(p) = 0
      BY <3>2, <3>3 DEF Public2, Public1
    <3> QED
      BY <1>3, <1>7, <3>1, <3>2, <3>3, <3>4 DEF IntactInv, AllWork, RelaySame, ScreenSame
  <2> QED
    BY <2>1, <2>2
<1> QED
  BY <1>3, <1>4, <1>5, <1>8 DEF ChainInv

LEMMA ChainOfPlugin ==
  ASSUME TypeInv, NEW p \in Prompts, ChainInv(p), PluginMoves(p)
  PROVE  ChainInv(p)'
<1>1. CASE InvokeRefused(p) \/ PromptCancelled(p) \/ PromptFails(p) \/ LoopCancelled(p)
           \/ LoopEof(p) \/ Reply(p)
  BY <1>1, ChainOfReturn
  DEF InvokeRefused, PromptCancelled, PromptFails, LoopCancelled, LoopEof, Reply
<1>2. CASE BeginInvoke(p) \/ PromptStarts(p) \/ PromptReady(p)
  <2>1. /\ UNCHANGED <<link, relays, screen, inbox, events, worked, known>>
        /\ \/ /\ task[p] \in {"spawned", "begun"} /\ task'[p] \in {"begun", "prompting"}
              /\ run'[p] = run[p]
           \/ task[p] = "prompting" /\ task'[p] = "streaming" /\ run'[p] = "new"
    BY <1>2 DEF BeginInvoke, PromptStarts, PromptReady, TypeInv, agent
  <2> QED
    BY <2>1, StageReached DEF RelaySame, ScreenSame, relays, screen
<1>3. CASE Respond(p)
  <2>1. /\ UNCHANGED <<link, relays, screen, inbox, events, worked, known, task>>
        /\ run[p] = "parked" /\ run'[p] = "running"
    BY <1>3 DEF Respond, TypeInv, serving
  <2> QED
    BY <2>1, StageReached DEF RelaySame, ScreenSame, relays, screen
<1> QED
  BY <1>1, <1>2, <1>3, EventPassed DEF PluginMoves

LEMMA ChainOfRun ==
  ASSUME TypeInv, TypeInv', NEW p \in Prompts, ChainInv(p), RunMoves(p)
  PROVE  ChainInv(p)'
<1>1. ASSUME NEW from, NEW to \in {"running", "parked", "ended"}, NEW e, RunStep(p, from, to, e)
      PROVE  /\ run[p] \in from /\ run'[p] = to
             /\ RelaySame(p) /\ ScreenSame(p) /\ link' = link
             /\ task'[p] = task[p] /\ (p \in known' <=> p \in known)
             /\ events'[p] = IF task[p] = "streaming" THEN events[p] \o e ELSE events[p]
  BY <1>1 DEF RunStep, TypeInv, relays, screen, serving, RelaySame, ScreenSame
<1>2. CASE RunStarts(p)
  <2>1. RunStep(p, {"new"}, "running", <<"started">>) /\ worked'[p] = worked[p]
    BY <1>2 DEF RunStarts
  <2>2. /\ run[p] = "new" /\ run'[p] = "running"
        /\ RelaySame(p) /\ ScreenSame(p) /\ link' = link
        /\ task'[p] = task[p] /\ (p \in known' <=> p \in known)
        /\ events'[p] = IF task[p] = "streaming" THEN events[p] \o <<"started">> ELSE events[p]
    BY <1>1, <2>1
  <2> QED
    BY <2>1, <2>2, RunStepped
<1>3. CASE RunWorks(p)
  <2>1. worked'[p] = worked[p] + 1
    BY <1>3 DEF RunWorks, TypeInv
  <2>2. RunStep(p, {"running"}, "running", <<"work">>)
    BY <1>3 DEF RunWorks
  <2>3. /\ run[p] = "running" /\ run'[p] = "running"
        /\ RelaySame(p) /\ ScreenSame(p) /\ link' = link
        /\ task'[p] = task[p] /\ (p \in known' <=> p \in known)
        /\ events'[p] = IF task[p] = "streaming" THEN events[p] \o <<"work">> ELSE events[p]
    BY <1>1, <2>2
  <2> QED
    BY <2>1, <2>3, RunStepped
<1>4. CASE RunEnds(p) \/ RunStops(p)
  <2>1. \E e \in Ends : /\ RunStep(p, {"running", "parked"}, "ended", <<e>>) /\ UNCHANGED worked
    BY <1>4 DEF RunEnds, RunStops, RunStep, Ends
  <2> QED
    BY <1>1, <2>1, RunStepped
<1>5. CASE RunParks(p) \/ RunDies(p)
  <2>1. \E to \in {"parked", "ended"} : RunStep(p, {"running"}, to, <<>>) /\ UNCHANGED worked
    BY <1>5 DEF RunParks, RunDies
  <2>2. events[p] \o <<>> = events[p]
    BY Lengths, ConcatEmptySeq
  <2> QED
    BY <1>1, <2>1, <2>2, RunStepped
<1> QED
  BY <1>2, <1>3, <1>4, <1>5 DEF RunMoves

\* A prompt is opened.
LEMMA ChainOfPrompt ==
  ASSUME TypeInv, NEW p \in Prompts, ChainInv(p), Prompt(p)
  PROVE  ChainInv(p)'
<1>1. /\ ui[p] = "none" /\ task[p] = "none" /\ toUi[p] = <<>> /\ inbox[p] = <<>>
      /\ run[p] = "none" /\ p \notin known /\ events[p] = <<>> /\ worked[p] = 0
      /\ shown[p] <= worked[p]
  BY DEF Prompt, ChainInv, StageInv
<1>2. /\ relay'[p] = "next" /\ ui'[p] = "open" /\ UNCHANGED <<toUi, shown, known, agent, link>>
      /\ task'[p] \in {"none", "spawned"} /\ inbox'[p] \in {<<>>, <<Answer("error")>>}
  BY <1>1 DEF Prompt, TypeInv
<1>3. StageInv(p)' /\ EventsInv(p)'
  BY <1>1, <1>2 DEF StageInv, EventsInv, agent
<1>4. \A i \in 1..Len(inbox'[p]) : \A b : ~Carries(p, i, b)'
  <2>1. CASE inbox'[p] = <<>>
    BY <2>1
  <2>2. CASE inbox'[p] = <<Answer("error")>>
    BY <2>2 DEF Carries, Answer
  <2> QED
    BY <1>2, <2>1, <2>2
<1>5. UiInv(p)' /\ InboxInv(p)'
  <2>1. UiInv(p)'
    BY <1>1, <1>2 DEF UiInv
  <2>2. InboxInv(p)'
    BY <1>4 DEF InboxInv
  <2> QED
    BY <2>1, <2>2
<1>6. IntactInv(p)'
  <2>1. inbox'[p] = <<Answer("error")>> => ~Intact(p)'
    BY DEF Intact, Listening, Answer
  <2> QED
    BY <1>1, <1>2, <2>1 DEF IntactInv
<1> QED
  BY <1>3, <1>5, <1>6 DEF ChainInv

LEMMA ChainOfFailure ==
  ASSUME TypeInv, NEW p \in Prompts, ChainInv(p), StreamFails(p)
  PROVE  ChainInv(p)'
<1>1. /\ UNCHANGED <<link, relays, screen, serving, agent>> /\ relay[p] = "next"
      /\ inbox'[p] = Append(inbox[p], Broken)
  BY DEF StreamFails, Listening, TypeInv
<1>2. StageInv(p)' /\ EventsInv(p)'
  BY <1>1 DEF ChainInv, StageInv, EventsInv, relays, screen, serving, agent
<1>3. Watched(p)' => UiInv(p)' /\ InboxInv(p)'
  <2> SUFFICES ASSUME Watched(p) PROVE UiInv(p)' /\ InboxInv(p)'
    BY <1>1 DEF Watched, screen
  <2>1. UiInv(p)'
    BY <1>1 DEF ChainInv, UiInv, screen, agent
  <2>2. InboxInv(p)'
    BY <1>1, FrameKinds, FrameWritten DEF ScreenSame, screen, agent, Broken
  <2> QED
    BY <2>1, <2>2
<1>4. ~Listening(p)'
  <2>1. /\ Len(inbox'[p]) = Len(inbox[p]) + 1 /\ Len(inbox[p]) \in Nat
        /\ \A i : i = Len(inbox[p]) + 1 => inbox'[p][i] = Broken
    BY <1>1, FrameKinds, Lengths, AppendProperties
  <2> QED
    BY <2>1 DEF Listening, Broken
<1> QED
  BY <1>2, <1>3, <1>4 DEF ChainInv, IntactInv, Intact

LEMMA ChainOfExit ==
  ASSUME TypeInv, NEW p \in Prompts, ChainInv(p), WorkerExits
  PROVE  ChainInv(p)'
<1>1. /\ task[p] \in {"none", "over"} /\ link = "down"
      /\ UNCHANGED <<link, inbox, relays, screen, serving, events, worked>>
      /\ run'[p] = IF run[p] = "none" THEN "none" ELSE "ended"
  BY DEF WorkerExits, Busy, TypeInv
<1>2. RelaySame(p) /\ ScreenSame(p) /\ worked'[p] = worked[p] /\ worked[p] \in Nat
  BY <1>1, Lengths DEF RelaySame, ScreenSame, relays, screen
<1>3. Watched(p)' => UiInv(p)' /\ InboxInv(p)'
  BY <1>1, <1>2, OnItsWay
<1>4. StageInv(p)' /\ EventsInv(p)'
  BY <1>1, <1>2 DEF ChainInv, StageInv, EventsInv, RelaySame, ScreenSame, serving
<1> QED
  BY <1>1, <1>3, <1>4 DEF ChainInv, IntactInv, Intact

\* What is done for one prompt leaves the others alone.
LEMMA OthersAside ==
  ASSUME TypeInv, NEW p \in Prompts, NEW q \in Prompts, q # p,
         \/ StreamFails(p) \/ RelayMoves(p) \/ UiShows(p) \/ PluginMoves(p) \/ RunMoves(p)
         \/ Prompt(p) \/ UiGone(p)
  PROVE  AgentSame(q) /\ RelaySame(q) /\ ScreenSame(q) /\ link' = link
<1> USE DEF AgentSame, RelaySame, ScreenSame, relays, screen, serving, agent, TypeInv
<1>1. CASE StreamFails(p) \/ UiShows(p) \/ UiGone(p) \/ Prompt(p)
  BY <1>1 DEF StreamFails, UiShows, UiGone, Prompt
<1>2. CASE Abandon(p) \/ Abandoned(p)
  BY <1>2 DEF Abandon, Abandoned
<1>3. CASE RelayReads(p)
  <2>1. PICK f, to : TakeFrame(p, f, to)
    BY <1>3 DEF RelayReads, SkipStarted, RelayEvent, RelayStops, RelayAnswer, RelayFails
  <2>2. toUi'[q] = toUi[q]
    BY <1>3 DEF RelayReads, SkipStarted, RelayEvent, RelayStops, RelayAnswer, RelayFails, Emit,
                Publish
  <2> QED
    BY <2>1, <2>2 DEF TakeFrame
<1>4. CASE RunMoves(p)
  <2>1. PICK from, to, e : RunStep(p, from, to, e)
    BY <1>4 DEF RunMoves, RunStarts, RunWorks, RunParks, RunEnds, RunStops, RunDies
  <2>2. worked'[q] = worked[q]
    BY <1>4 DEF RunMoves, RunStarts, RunWorks, RunParks, RunEnds, RunStops, RunDies
  <2> QED
    BY <2>1, <2>2 DEF RunStep
<1>5. ASSUME NEW f, Send(p, f) PROVE inbox'[q] = inbox[q]
  BY <1>5, Sent
<1>6. CASE InvokeRefused(p) \/ PromptCancelled(p) \/ PromptFails(p) \/ LoopCancelled(p)
           \/ LoopEof(p) \/ Reply(p)
  <2>1. PICK f : Return(p, f)
    BY <1>6 DEF InvokeRefused, PromptCancelled, PromptFails, LoopCancelled, LoopEof, Reply
  <2> QED
    BY <1>5, <2>1 DEF Return, Leave
<1>7. CASE BeginInvoke(p) \/ PromptStarts(p) \/ PromptReady(p) \/ Respond(p)
  BY <1>7 DEF BeginInvoke, PromptStarts, PromptReady, Respond
<1>8. CASE LoopEvent(p)
  <2>1. inbox'[q] = inbox[q]
    BY <1>5, <1>8 DEF LoopEvent
  <2> QED
    BY <1>8, <2>1 DEF LoopEvent, Leave
<1> QED
  BY <1>1, <1>2, <1>3, <1>4, <1>6, <1>7, <1>8 DEF RelayMoves, PluginMoves

LEMMA StepChain == TypeInv /\ Chain /\ [Next]_vars => Chain'
<1> SUFFICES ASSUME TypeInv, Chain, [Next]_vars, NEW q \in Prompts PROVE ChainInv(q)'
  BY DEF Chain
<1>1. TypeInv' /\ ChainInv(q)
  BY StepTyped DEF Chain
<1>2. CASE WorkerExits
  BY <1>1, <1>2, ChainOfExit
<1>3. ASSUME NEW p \in Prompts,
             \/ StreamFails(p) \/ RelayMoves(p) \/ UiShows(p) \/ PluginMoves(p) \/ RunMoves(p)
             \/ Prompt(p) \/ UiGone(p)
      PROVE  ChainInv(q)'
  <2>1. CASE q = p
    BY <1>1, <1>3, <2>1, ChainOfFailure, ChainOfRelay, ChainOfScreen, ChainOfPlugin, ChainOfRun,
       ChainOfPrompt
  <2>2. CASE q # p
    BY <1>1, <1>3, <2>2, OthersAside, ChainElsewhere
  <2> QED
    BY <2>1, <2>2
<1>4. ASSUME \/ LinkLost \/ Disconnect \/ UNCHANGED vars
             \/ \E p \in Prompts : Stop(p) \/ \E by \in {"user", "relay"} : ServeCancel(p, by)
      PROVE  ChainInv(q)'
  <2>1. AgentSame(q) /\ RelaySame(q) /\ ScreenSame(q) /\ link' \in {link, "down"}
    BY <1>4 DEF LinkLost, Disconnect, vars, Stop, ServeCancel, AgentSame, RelaySame, ScreenSame,
                relays, screen, serving, agent
  <2> QED
    BY <1>1, <2>1, ChainElsewhere
<1> QED
  BY <1>2, <1>3, <1>4 DEF Next

LEMMA InitChain == Init => Chain
<1> SUFFICES ASSUME Init, NEW p \in Prompts PROVE ChainInv(p)
  BY DEF Chain
<1>1. /\ inbox[p] = <<>> /\ toUi[p] = <<>> /\ events[p] = <<>> /\ relay[p] = "idle"
      /\ ui[p] = "none" /\ task[p] = "none" /\ run[p] = "none" /\ known = {}
      /\ shown[p] = 0 /\ worked[p] = 0
  BY DEF Init
<1>2. StageInv(p) /\ EventsInv(p)
  BY <1>1 DEF StageInv, EventsInv
<1> QED
  BY <1>1, <1>2 DEF ChainInv, Watched, IntactInv, Intact

-----------------------------------------------------------------------------
(* The public run                                                          *)

Ended == {p \in Prompts : run[p] = "ended"}

LEMMA PublicInit == Init => Public!Init
BY DEF Init, Public!Init

\* A step that neither reports, shows nor ends anything.
LEMMA PublicStutter ==
  ASSUME UNCHANGED <<worked, shown, ui>>, Ended' = Ended
  PROVE  [Public!Next]_Public!public
BY DEF Ended, Public!public

LEMMA PublicEnd ==
  ASSUME UNCHANGED <<worked, shown, ui>>, Ended \subseteq Ended', Ended' \subseteq Prompts
  PROVE  [Public!Next]_Public!public
<1>1. Ended' \ Ended \in SUBSET (Prompts \ Ended) /\ Ended' = Ended \cup (Ended' \ Ended)
  OBVIOUS
<1> QED
  BY <1>1 DEF Ended, Public!Next, Public!End

LEMMA PublicScreen ==
  ASSUME TypeInv, NEW p \in Prompts, ChainInv(p), UiShows(p) \/ UiGone(p)
  PROVE  [Public!Next]_Public!public
<1>1. UNCHANGED <<worked, run>> /\ ui[p] = "open" /\ UiInv(p)
  BY DEF UiShows, UiGone, agent, Watched, ChainInv
<1>2. CASE UiGone(p)
  BY <1>1, <1>2 DEF UiGone, Public!Next, Public!Stop
<1>3. CASE UiShows(p)
  <2> DEFINE e == Head(toUi[p])
  <2>1. /\ e = toUi[p][1] /\ e \in {"work"} \cup Ends /\ 1 \in 1..Len(toUi[p])
        /\ shown[p] \in Nat /\ worked[p] \in Nat
    <3>1. toUi[p] \in Seq({"work"} \cup Ends) /\ toUi[p] # <<>>
      BY <1>3, Lengths DEF UiShows
    <3>2. e = toUi[p][1] /\ e \in {"work"} \cup Ends
      BY <3>1, HeadTailProperties
    <3>3. Len(toUi[p]) \in Nat \ {0}
      BY <3>1, EmptySeq, Lengths
    <3> QED
      BY <3>2, <3>3, Lengths
  <2>2. CASE e \in {"failed", "cancelled"}
    BY <1>1, <1>3, <2>2 DEF UiShows, Ends, Public!Next, Public!Stop
  <2>3. CASE e = "done"
    <3>1. shown[p] = worked[p] /\ run[p] = "ended"
      BY <1>1, <2>1, <2>3 DEF UiInv
    <3> QED
      BY <1>1, <1>3, <2>3, <3>1 DEF UiShows, Ends, Public!Next, Public!Done
  <2>4. CASE e = "work"
    <3>1. shown[p] < worked[p]
      <4>1. shown[p] + 1 <= worked[p]
        BY <1>1, <2>1, <2>4 DEF UiInv
      <4> QED
        BY <2>1, <4>1
    <3> QED
      BY <1>1, <1>3, <2>4, <3>1 DEF UiShows, Ends, Public!Next, Public!Show
  <2> QED
    BY <2>1, <2>2, <2>3, <2>4 DEF Ends
<1> QED
  BY <1>2, <1>3

LEMMA PublicRunMoves ==
  ASSUME TypeInv, NEW p \in Prompts, RunMoves(p)
  PROVE  [Public!Next]_Public!public
<1>1. ASSUME NEW from \in SUBSET {"new", "running", "parked"}, NEW to, NEW e,
             RunStep(p, from, to, e)
      PROVE  /\ Ended \subseteq Ended' /\ Ended' \subseteq Prompts /\ p \notin Ended
             /\ to # "ended" => Ended' = Ended
             /\ UNCHANGED <<shown, ui>>
  BY <1>1 DEF RunStep, Ended, TypeInv, screen
<1>2. CASE RunWorks(p)
  <2>1. RunStep(p, {"running"}, "running", <<"work">>) /\ worked' = [worked EXCEPT ![p] = @ + 1]
    BY <1>2 DEF RunWorks
  <2>2. p \notin Ended /\ Ended' = Ended /\ UNCHANGED <<shown, ui>>
    BY <2>1 DEF RunStep, Ended, TypeInv, screen
  <2>3. Public!Work(p)
    BY <2>1, <2>2 DEF Ended, Public!Work
  <2> QED
    BY <2>3 DEF Public!Next
<1>3. CASE ~RunWorks(p)
  <2>1. UNCHANGED worked
        /\ \E from \in SUBSET {"new", "running", "parked"} : \E to, e : RunStep(p, from, to, e)
    BY <1>3 DEF RunMoves, RunStarts, RunParks, RunEnds, RunStops, RunDies
  <2> QED
    BY <1>1, <2>1, PublicEnd
<1> QED
  BY <1>2, <1>3

LEMMA PublicStep == TypeInv /\ Chain /\ [Next]_vars => [Public!Next]_Public!public
<1> SUFFICES ASSUME TypeInv, Chain, [Next]_vars PROVE [Public!Next]_Public!public
  OBVIOUS
<1>1. CASE WorkerExits
  BY <1>1, PublicEnd DEF WorkerExits, screen, Ended
<1>2. ASSUME NEW p \in Prompts, RunMoves(p) \/ UiShows(p) \/ UiGone(p)
      PROVE  [Public!Next]_Public!public
  BY <1>2, PublicRunMoves, PublicScreen DEF Chain
<1>3. ASSUME NEW p \in Prompts, Prompt(p) PROVE [Public!Next]_Public!public
  <2>1. ui[p] = "none" /\ UNCHANGED <<worked, run, shown>> /\ ui' = [ui EXCEPT ![p] = "open"]
    BY <1>3 DEF Prompt, agent, Chain, ChainInv, StageInv
  <2>2. Public!Open(p)
    BY <2>1 DEF Public!Open
  <2> QED
    BY <2>2 DEF Public!Next
<1>4. ASSUME NEW p \in Prompts, PluginMoves(p) PROVE [Public!Next]_Public!public
  <2>1. UNCHANGED <<worked, shown, ui>>
    BY <1>4 DEF PluginMoves, BeginInvoke, InvokeRefused, PromptStarts, PromptCancelled, PromptReady,
           PromptFails, LoopCancelled, LoopEvent, LoopEof, Reply, Respond, Return, Leave,
           screen, agent
  <2>2. run' = run \/ \E r \in {"new", "running"} : /\ run' = [run EXCEPT ![p] = r]
                                                   /\ run[p] # "ended"
    <3>1. CASE PromptReady(p)
      <4>1. run[p] = "none"
        BY <3>1 DEF PromptReady, Chain, ChainInv, StageInv
      <4> QED
        BY <3>1, <4>1 DEF PromptReady
    <3>2. CASE Respond(p)
      BY <3>2 DEF Respond
    <3>3. CASE ~PromptReady(p) /\ ~Respond(p)
      BY <1>4, <3>3 DEF PluginMoves, BeginInvoke, InvokeRefused, PromptStarts, PromptCancelled,
           PromptFails, LoopCancelled, LoopEvent, LoopEof, Reply, Return, Leave, agent
    <3> QED
      BY <3>1, <3>2, <3>3
  <2>3. Ended' = Ended
    BY <2>2 DEF Ended, TypeInv
  <2> QED
    BY <2>1, <2>3, PublicStutter
<1>5. ASSUME \/ LinkLost \/ Disconnect \/ UNCHANGED vars
             \/ \E p \in Prompts : \/ Stop(p) \/ StreamFails(p) \/ RelayMoves(p)
                                   \/ \E by \in {"user", "relay"} : ServeCancel(p, by)
      PROVE  [Public!Next]_Public!public
  <2>1. UNCHANGED <<worked, shown, ui, run>>
    BY <1>5 DEF LinkLost, Disconnect, vars, Stop, StreamFails, RelayMoves, RelayReads, SkipStarted,
           RelayEvent, RelayStops, RelayAnswer, RelayFails, TakeFrame, Abandon, Abandoned,
           ServeCancel, screen, agent
  <2> QED
    BY <2>1, PublicStutter DEF Ended
<1> QED
  BY <1>1, <1>2, <1>3, <1>4, <1>5 DEF Next

\* The conversation shows a remote run as it was, for any number of prompts,
\* permits and buffered events: work appears in order, a run that is shown as
\* done was shown completely and is over, and it ends once, whatever the
\* connection, the worker and the user did on the way (prompt of
\* RemoteWorkerProvider against CodingPlugin::prompt).
THEOREM RunsShownTruly == Spec => RunsArePublished
<1>1. Init => TypeInv /\ Chain
  BY InitTyped, InitChain
<1>2. TypeInv /\ Chain /\ [Next]_vars => (TypeInv /\ Chain)'
  BY StepTyped, StepChain
<1> QED
  BY <1>1, <1>2, PublicInit, PublicStep, PTL DEF Spec, RunsArePublished, Public!Spec
=============================================================================
