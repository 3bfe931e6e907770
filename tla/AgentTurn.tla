----------------------------- MODULE AgentTurn -----------------------------
(***************************************************************************)
(* The turns of one session: AgentRuntimeHost.runTask pulls events from    *)
(* the runner's generator, messages the user types meanwhile wait in the   *)
(* InjectedMessageQueue, steering cuts the model's stream or the tool      *)
(* batch, and an interrupt ends the turn.  The generator moves only while  *)
(* the host waits for its next event.                                      *)
(***************************************************************************)
EXTENDS ArrayFilter, FiniteSets

CONSTANTS
    Msgs,       \* the messages the user may inject
    MaxTurns    \* bound: runTask calls

ASSUME TurnAssumption == MaxTurns \in Nat

VARIABLES
    turn,         \* number of runTask calls so far
    isRunning,
    closed,       \* the queue takes no more messages in this turn
    interrupted,  \* shouldInterrupt, and the turn's abort signal
    queue,        \* the InjectedMessageQueue
    memory,       \* the injected messages in the conversation, in order
    fate,         \* fate[m]: what has become of message m
    kind,         \* kind[m]: the `when` it was injected with
    phase,        \* where the generator, or the host around it, is
    crashed,      \* the event loop was left by an exception
    stream,       \* the activeStreamAbort of the current request
    toolSteer,    \* the activeToolSteeringAbort of the current batch
    grace,        \* the 5-second timer of a steered batch is pending
    steering,     \* steeringInterruptRequested
    urgent        \* history: messages a steering request promised to place

host == <<turn, isRunning, closed, interrupted, crashed>>
messages == <<queue, memory, fate, kind>>
runner == <<stream, toolSteer, grace, steering>>
vars == <<host, messages, phase, runner, urgent>>

When == {"next-step", "turn-end"}
Entry == [id : Msgs, when : When]

TypeOK ==
    /\ turn \in 0..MaxTurns
    /\ isRunning \in BOOLEAN /\ closed \in BOOLEAN /\ interrupted \in BOOLEAN
    /\ queue \in Seq(Entry)
    /\ memory \in Seq(Msgs)
    /\ fate \in [Msgs -> {"unsent", "queued", "placed", "withdrawn",
                          "returned"}]
    /\ kind \in [Msgs -> When]
    /\ phase \in {"off", "top", "starting", "settling", "preparing",
                  "streaming", "answered", "tools", "exhausted", "closing"}
    /\ crashed \in BOOLEAN
    /\ stream \in {"none", "live", "aborted"}
    /\ toolSteer \in {"none", "live", "aborted"}
    /\ grace \in BOOLEAN /\ steering \in BOOLEAN
    /\ urgent \subseteq Msgs

Ids(q) == [i \in 1..Len(q) |-> q[i].id]

Init ==
    /\ turn = 0 /\ isRunning = FALSE /\ closed = FALSE /\ interrupted = FALSE
    /\ crashed = FALSE
    /\ queue = <<>> /\ memory = <<>>
    /\ fate = [m \in Msgs |-> "unsent"]
    /\ kind \in [Msgs -> When]
    /\ phase = "off"
    /\ stream = "none" /\ toolSteer = "none"
    /\ grace = FALSE /\ steering = FALSE
    /\ urgent = {}

-----------------------------------------------------------------------------
(* What comes from outside at any time.                                    *)

\* A turn may start already interrupted: the budget is spent, or the
\* caller's signal is aborted.
RunTask ==
    /\ ~isRunning /\ turn < MaxTurns
    /\ turn' = turn + 1
    /\ isRunning' = TRUE /\ closed' = FALSE /\ crashed' = FALSE
    /\ interrupted' \in BOOLEAN
    /\ phase' = "top"
    /\ UNCHANGED <<messages, runner, urgent>>

\* injectUserMessage; a refused message is sent as a turn of its own.
Inject(m) ==
    /\ fate[m] = "unsent"
    /\ isRunning /\ ~closed /\ ~interrupted
    /\ queue' = Append(queue, [id |-> m, when |-> kind[m]])
    /\ fate' = [fate EXCEPT ![m] = "queued"]
    /\ UNCHANGED <<host, memory, kind, phase, runner, urgent>>

\* remove, by the text: the last entry that has it is spliced out.
Spliced(q, i) == [k \in 1..(Len(q) - 1) |-> IF k < i THEN q[k] ELSE q[k + 1]]

\* removeLastPendingMessage.
Withdraw(m) ==
    /\ \E i \in 1..Len(queue) :
        /\ queue[i].id = m
        /\ \A j \in (i + 1)..Len(queue) : queue[j].id # m
        /\ queue' = Spliced(queue, i)
    /\ fate' = [fate EXCEPT ![m] = "withdrawn"]
    /\ UNCHANGED <<host, memory, kind, phase, runner, urgent>>

\* promoteAll.
Promoted(q) == [i \in 1..Len(q) |-> [q[i] EXCEPT !.when = "next-step"]]

\* requestSteeringInterrupt: a live stream is aborted at once, a live tool
\* batch after five seconds, and anything else is left alone.
Steer ==
    /\ isRunning
    /\ queue' = Promoted(queue)
    /\ IF stream = "live"
       THEN /\ stream' = "aborted" /\ steering' = TRUE
            /\ UNCHANGED <<toolSteer, grace>>
       ELSE IF toolSteer = "live"
       THEN /\ grace' = TRUE /\ steering' = TRUE
            /\ UNCHANGED <<stream, toolSteer>>
       ELSE UNCHANGED runner
    /\ urgent' = IF stream = "live" \/ toolSteer = "live"
                 THEN urgent \cup Elements(Ids(queue)) ELSE urgent
    /\ UNCHANGED <<host, memory, fate, kind, phase>>

\* Bug: the timer fires and nothing is aborted.
GraceEnds_Forgets ==
    /\ grace
    /\ grace' = FALSE
    /\ UNCHANGED <<host, messages, phase, stream, toolSteer, steering, urgent>>

\* The timer aborts the batch it was started for, if that still runs.
GraceEnds ==
    /\ grace
    /\ grace' = FALSE
    /\ toolSteer' = IF toolSteer = "live" THEN "aborted" ELSE toolSteer
    /\ UNCHANGED <<host, messages, phase, stream, steering, urgent>>

\* interrupt, an external abort or the budget fuse.
Interrupt ==
    /\ isRunning /\ ~interrupted
    /\ interrupted' = TRUE
    /\ stream' = IF stream = "live" THEN "aborted" ELSE stream
    /\ UNCHANGED <<turn, isRunning, closed, crashed, messages, phase,
                   toolSteer, grace, steering, urgent>>

-----------------------------------------------------------------------------
(* The runner's loop.                                                      *)

Goto(p) == phase' = p /\ UNCHANGED <<host, messages, urgent>>

\* Head of the loop: an interrupt or a limit ends the run.
LoopTop ==
    /\ phase = "top"
    /\ \/ ~interrupted /\ Goto("starting")
       \/ Goto("exhausted")
    /\ UNCHANGED runner

BeginStream ==
    /\ phase = "preparing"
    /\ stream' = IF interrupted THEN "aborted" ELSE "live"
    /\ Goto("streaming")
    /\ UNCHANGED <<toolSteer, grace, steering>>

\* The response was cut by steering, or has ended while a steering request is
\* still noted: what there is of it is kept as interrupted text, its tool
\* calls are dropped, and the loop asks again.
DropResponse ==
    /\ phase = "streaming" /\ steering /\ ~interrupted
    /\ steering' = FALSE /\ stream' = "none"
    /\ Goto("top")
    /\ UNCHANGED <<toolSteer, grace>>

\* A complete response: tool calls, or the answer; a guard against an empty
\* or unfinished answer may ask again.
EndResponse ==
    /\ phase = "streaming" /\ ~(steering /\ ~interrupted)
    /\ stream' = "none"
    /\ \E p \in {"answered", "exhausted", "top"} : Goto(p)
    /\ UNCHANGED <<toolSteer, grace, steering>>

\* The stream fails: a retryable error is tried again, any other ends the
\* run, and so does the cancellation that an interrupt causes.  (A stream
\* that steering has cut fails as cancelled too: DropResponse.)
StreamFails ==
    /\ phase = "streaming" /\ (stream = "live" \/ interrupted)
    /\ stream' = "none"
    /\ \/ ~interrupted /\ Goto("top")
       \/ Goto("exhausted")
    /\ UNCHANGED <<toolSteer, grace, steering>>

BeginTools ==
    /\ phase = "answered"
    /\ toolSteer' = "live"
    /\ Goto("tools")
    /\ UNCHANGED <<stream, grace, steering>>

\* The batch has returned; the grace timer now holds a controller nobody
\* listens to.
ToolsReturn ==
    /\ phase = "tools"
    /\ toolSteer' = "none" /\ grace' = FALSE
    /\ Goto(IF interrupted THEN "exhausted" ELSE "top")
    /\ UNCHANGED <<stream, steering>>

-----------------------------------------------------------------------------
(* The host's event loop.                                                  *)

\* The event iteration_start arrives: an interrupt leaves the loop here,
\* otherwise the last request's usage is settled, which is awaited.
IterationStart ==
    /\ phase = "starting"
    /\ ~interrupted
    /\ Goto("settling")
    /\ UNCHANGED runner

Place(entries) ==
    /\ memory' = memory \o Ids(entries)
    /\ fate' = [m \in Msgs |-> IF m \in Elements(Ids(entries)) THEN "placed"
                               ELSE fate[m]]

\* The entries takeNextStep takes.
Now == [id : Msgs, when : {"next-step"}]

\* Bugs: the messages stay in the queue; those for the end of the turn are
\* taken too.
PlaceNow(entries, rest) ==
    /\ phase = "settling"
    /\ Place(entries)
    /\ queue' = rest
    /\ phase' = "preparing"
    /\ UNCHANGED <<host, kind, runner, urgent>>
PlaceNextStep_Keeps ==
    PlaceNow(Kept(queue, Now), queue)
PlaceNextStep_TakesAll == PlaceNow(queue, <<>>)

\* processPendingInjectedMessages.
PlaceNextStep ==
    /\ phase = "settling"
    /\ Place(Kept(queue, Now))
    /\ queue' = Kept(queue, Entry \ Now)
    /\ phase' = "preparing"
    /\ UNCHANGED <<host, kind, runner, urgent>>

\* Bug: an interrupted turn goes on too.
ContinueTurn_Always ==
    /\ phase = "exhausted" /\ queue # <<>>
    /\ Place(queue)
    /\ queue' = <<>>
    /\ phase' = "top"
    /\ UNCHANGED <<host, kind, runner, urgent>>

\* The generator is done and messages are waiting: the turn goes on with
\* them.
ContinueTurn ==
    /\ phase = "exhausted" /\ ~interrupted /\ queue # <<>>
    /\ Place(queue)
    /\ queue' = <<>>
    /\ phase' = "top"
    /\ UNCHANGED <<host, kind, runner, urgent>>

\* Bugs: the queue is still open while the turn winds down; the interrupt is
\* only noticed between two events.
Close_StaysOpen ==
    /\ phase = "exhausted" /\ (interrupted \/ queue = <<>>)
    /\ phase' = "closing"
    /\ UNCHANGED <<host, messages, runner, urgent>>
Close_NoRace ==
    /\ phase = "exhausted" /\ (interrupted \/ queue = <<>>)
    /\ closed' = TRUE /\ phase' = "closing"
    /\ UNCHANGED <<turn, isRunning, interrupted, crashed, messages, runner,
                   urgent>>

\* The event loop is left, and the queue closed in the same turn of the
\* event loop.
Close ==
    /\ \/ phase = "exhausted" /\ (interrupted \/ queue = <<>>)
       \/ /\ interrupted
          /\ phase \in {"top", "starting", "preparing", "streaming",
                        "answered", "tools"}
    /\ closed' = TRUE
    /\ phase' = "closing"
    /\ UNCHANGED <<turn, isRunning, interrupted, crashed, messages, runner,
                   urgent>>

\* An exception leaves the event loop without closing the queue.
Crash ==
    /\ phase \notin {"off", "closing"}
    /\ crashed' = TRUE
    /\ phase' = "closing"
    /\ UNCHANGED <<turn, isRunning, closed, interrupted, messages, runner,
                   urgent>>

\* The finally block: what is still queued goes back to the user, and the
\* turn's signal is aborted, which ends what the generator still awaits.
Finalize ==
    /\ phase = "closing"
    /\ isRunning' = FALSE
    /\ queue' = <<>>
    /\ fate' = [m \in Msgs |-> IF m \in Elements(Ids(queue)) THEN "returned"
                               ELSE fate[m]]
    /\ stream' = "none" /\ toolSteer' = "none" /\ grace' = FALSE
    /\ phase' = "off"
    /\ UNCHANGED <<turn, closed, interrupted, crashed, memory, kind, steering,
                   urgent>>

Idle ==
    /\ phase = "off" /\ turn = MaxTurns
    /\ UNCHANGED vars

Runner ==
    \/ LoopTop \/ BeginStream \/ DropResponse \/ EndResponse \/ StreamFails
    \/ BeginTools \/ ToolsReturn

Host ==
    \/ IterationStart \/ PlaceNextStep \/ ContinueTurn \/ Close \/ Crash
    \/ Finalize

Next ==
    \/ RunTask \/ Steer \/ GraceEnds \/ Interrupt
    \/ \E m \in Msgs : Inject(m) \/ Withdraw(m)
    \/ Runner \/ Host \/ Idle

Spec == Init /\ [][Next]_vars

\* The generator and the host run on, the timer fires, and a stream or a
\* batch ends once it has been aborted.  A model that streams for ever and a
\* tool that never returns are allowed.
FairSpec ==
    /\ Spec
    /\ WF_vars(LoopTop) /\ WF_vars(BeginStream) /\ WF_vars(BeginTools)
    /\ WF_vars(GraceEnds)
    /\ WF_vars(stream = "aborted"
                 /\ (DropResponse \/ EndResponse \/ StreamFails))
    /\ WF_vars(toolSteer = "aborted" /\ ToolsReturn)
    /\ WF_vars(IterationStart) /\ WF_vars(PlaceNextStep)
    /\ WF_vars(ContinueTurn) /\ WF_vars(Close) /\ WF_vars(Finalize)

-----------------------------------------------------------------------------
(* Properties.                                                             *)

Once(s) == Cardinality(Elements(s)) = Len(s)

\* An accepted message is in exactly one place, once: waiting, in the
\* conversation, withdrawn or handed back; it is never both consumed and
\* given back to the input box, and never consumed twice.  It does not wait
\* between two turns, where the next one would consume it unasked.
OnePlace ==
    /\ Once(Ids(queue)) /\ Once(memory)
    /\ \A m \in Msgs : /\ fate[m] = "queued" <=> m \in Elements(Ids(queue))
                       /\ fate[m] = "placed" <=> m \in Elements(memory)
    /\ ~isRunning => queue = <<>>

\* A turn that is neither interrupted nor crashed consumes every message it
\* has accepted, the ones that arrive while it winds down included.
ReturnedOnlyIfCut ==
    [][\A m \in Msgs : fate[m] = "queued" /\ fate'[m] = "returned"
                        => interrupted \/ crashed]_vars

\* Messages of one kind enter the conversation in the order they were typed,
\* and one meant for the end of the turn is not put between two steps, unless
\* steering has promoted it.
PlacedAsMeant ==
    [][/\ \A i, j \in 1..Len(queue) :
            LET a == queue[i].id
                b == queue[j].id
            IN  /\ i < j /\ queue[i].when = queue[j].when
                /\ fate[b] = "queued" /\ fate'[b] = "placed"
                => \E k, l \in 1..Len(memory') :
                      k < l /\ memory'[k] = a /\ memory'[l] = b
       /\ \A i \in 1..Len(queue) :
            queue[i].when = "turn-end" /\ fate'[queue[i].id] = "placed"
            => phase = "exhausted"]_vars

\* What steering has promised to place leaves the queue, although neither the
\* model nor the running tools ever come to an end of their own.
SteeredMessagesMove == \A m \in Msgs : m \in urgent ~> fate[m] # "queued"

\* An interrupt ends the turn, whatever the model and the tools do.
InterruptEndsTurn == isRunning /\ interrupted ~> ~isRunning
=============================================================================
