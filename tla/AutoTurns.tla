----------------------------- MODULE AutoTurns -----------------------------
(***************************************************************************)
(* Turns nobody typed.  What happens in the background of a session, a     *)
(* process that exits, a sub-agent that reports, a wakeup, is a message to *)
(* the model: it is queued by the notifier and given to the next turn, or  *)
(* a turn is begun for it, unless the user has pressed stop; then the stop *)
(* gate holds it until the user speaks.                                    *)
(***************************************************************************)
EXTENDS Integers, Sequences, FiniteSets

CONSTANTS
    Tasks,          \* notifications that begin a turn of their own
    Scheduled,      \* the same, of jobs the user scheduled: they pass the gate
    Notes,          \* notifications of what the user stopped: noAutoResume
    Wakeups,        \* schedule_wakeup: not queued
    Slots,          \* the turns in flight at once: a bound
    Runs,           \* the calls of _runAutoResume in flight at once: a bound
    None,
    MaxQueue        \* maxPerSession of the notifier

Queued == Tasks \cup Scheduled \cup Notes
Messages == Queued \cup Wakeups

ASSUME AutoTurnsAssumption ==
    /\ None \notin Slots \cup Notes
    /\ MaxQueue \in Nat \ {0}
    /\ Notes \cap (Tasks \cup Scheduled) = {} /\ Queued \cap Wakeups = {}

VARIABLES
    happened,       \* the messages there have been
    queue,          \* sessionToNotifs.get(sessionId)
    held,           \* stopGate.held
    stopped,        \* stopGate.stopped
    debounce,       \* _autoResumeDebounce.has(sessionId)
    pending,        \* _autoResumePending.get(sessionId)
    run,            \* run[r]: where the call of _runAutoResume is
    batch,          \* batch[r]: what it took out of the queue
    turn,           \* turn[s]: whether a turn is in flight in slot s
    aborted,        \* the turns whose controller has been aborted
    active,         \* activeSessions.has(sessionId)
    controller,     \* abortControllers.get(sessionId)
    watched,        \* a stall guard is armed
    recovering,     \* the stall guard has aborted a turn and waits 400 ms
    given,          \* history: given[m]: how often the model was given m
    lost            \* history: the messages dropped

notifier == <<queue, debounce, pending, run, batch>>
turns == <<turn, aborted, active, controller, watched>>
vars == <<happened, notifier, held, stopped, turns, recovering, given, lost>>

Items(s) == {s[i] : i \in DOMAIN s}

TypeOK ==
    /\ happened \subseteq Messages
    /\ queue \in Seq(Queued) /\ Len(queue) <= MaxQueue
    /\ held \subseteq Messages
    /\ stopped \in BOOLEAN /\ debounce \in BOOLEAN /\ pending \in BOOLEAN
    /\ run \in [Runs -> {"none", "scheduled", "waiting", "handling"}]
    /\ batch \in [Runs -> Seq(Queued)]
    /\ turn \in [Slots -> BOOLEAN]
    /\ aborted \subseteq {s \in Slots : turn[s]}
    /\ active \in BOOLEAN
    /\ controller \in {None} \cup {s \in Slots : turn[s]}
    /\ watched \in BOOLEAN /\ recovering \in BOOLEAN
    /\ given \in [Messages -> Nat]
    /\ lost \subseteq Messages

Init ==
    /\ happened = {}
    /\ queue = <<>> /\ held = {}
    /\ stopped = FALSE /\ debounce = FALSE /\ pending = FALSE
    /\ run = [r \in Runs |-> "none"]
    /\ batch = [r \in Runs |-> <<>>]
    /\ turn = [s \in Slots |-> FALSE]
    /\ aborted = {} /\ active = FALSE /\ controller = None
    /\ watched = FALSE /\ recovering = FALSE
    /\ given = [m \in Messages |-> 0]
    /\ lost = {}

-----------------------------------------------------------------------------
(* Turns.                                                                  *)

\* bridge.chat begins a turn in slot s, with the messages of M in its prompt.
Chat(s, M) ==
    /\ turn' = [turn EXCEPT ![s] = TRUE]
    /\ aborted' = aborted \ {s}
    /\ active' = TRUE /\ controller' = s
    /\ watched' = TRUE
    /\ given' = [m \in Messages |-> IF m \in M THEN given[m] + 1 ELSE given[m]]

Drop(M) == lost' = lost \cup M

\* Bug: what was held stays with the gate.
TakeHeld_Peeks == stopped' = FALSE /\ UNCHANGED held

\* stopGate.takeHeld.
TakeHeld == stopped' = FALSE /\ held' = {}

\* The user speaks: what was held and what is queued goes before the prompt,
\* unless the turn is a retry or a continuation.
UserChat(s, retry) ==
    /\ ~turn[s]
    /\ TakeHeld
    /\ queue' = <<>>
    /\ LET before == held \cup Items(queue)
       IN IF retry THEN Chat(s, {}) /\ Drop(before)
                   ELSE Chat(s, before) /\ UNCHANGED lost
    /\ UNCHANGED <<happened, debounce, pending, run, batch, recovering>>

\* stopGate.hold would keep back the messages of M.
Holds(M) == stopped /\ M \cap Scheduled = {}

\* A turn for the messages of M in slot s, unless the gate holds them.
AutoChat(s, M) ==
    IF Holds(M)
    THEN /\ held' = held \cup M
         /\ UNCHANGED <<turns, given>>
    ELSE /\ ~turn[s]
         /\ Chat(s, M)
         /\ UNCHANGED held

\* Bug: the session is deleted from the tables, what was queued is not looked at.
TurnEnds_LeavesQueue(s) ==
    /\ turn[s]
    /\ turn' = [turn EXCEPT ![s] = FALSE]
    /\ aborted' = aborted \ {s}
    /\ active' = FALSE /\ controller' = None /\ watched' = FALSE
    /\ UNCHANGED <<happened, notifier, held, stopped, recovering, given, lost>>

\* chat()'s finally, with the drain after the turn.  A turn that has been
\* aborted hands its queue to the gate, which takes it if the user has stopped.
TurnEnds(s) ==
    /\ turn[s]
    /\ queue' = <<>>
    /\ LET left == Items(queue)
           over == /\ turn' = [turn EXCEPT ![s] = FALSE]
                   /\ aborted' = aborted \ {s}
                   /\ active' = FALSE /\ controller' = None /\ watched' = FALSE
                   /\ UNCHANGED given
       IN CASE left = {} -> over /\ UNCHANGED <<held, lost>>
            [] Holds(left) ->
                   over /\ held' = held \cup left /\ UNCHANGED lost
            [] left # {} /\ ~Holds(left) /\ s \in aborted ->
                   over /\ Drop(left) /\ UNCHANGED held
            [] OTHER -> Chat(s, left) /\ UNCHANGED <<held, lost>>
    /\ UNCHANGED <<happened, debounce, pending, run, batch, stopped, recovering>>

\* abort(): the controller in the table is aborted and taken out of it.
Abort ==
    /\ aborted' = IF controller = None THEN aborted ELSE aborted \cup {controller}
    /\ controller' = None
    /\ UNCHANGED <<turn, active>>

-----------------------------------------------------------------------------
(* The notifier.                                                           *)

\* The queue with m, and what has fallen out of it.
Pushed(m) ==
    LET q == Append(queue, m)
    IN IF Len(q) > MaxQueue THEN Tail(q) ELSE q
Fallen(m) == Items(Append(queue, m)) \ Items(Pushed(m))

\* enqueueMessageForSession.
Enqueue(m) ==
    /\ m \in Queued \ happened
    /\ happened' = happened \cup {m}
    /\ queue' = Pushed(m)
    /\ Drop(Fallen(m))
    /\ debounce' = (debounce \/ (m \notin Notes /\ ~pending))
    /\ UNCHANGED <<pending, run, batch, held, stopped, turns, recovering, given>>

\* The queue is taken, and the handler called with it.
Fetch(r) ==
    /\ queue' = <<>>
    /\ batch' = [batch EXCEPT ![r] = queue]
    /\ pending' = (queue # <<>>)
    /\ run' = [run EXCEPT ![r] = IF queue = <<>> THEN "none" ELSE "handling"]

\* _runAutoResume, from its first line: a session in flight is waited for.
Begin(r) ==
    IF pending
    THEN run' = [run EXCEPT ![r] = "none"] /\ UNCHANGED <<queue, batch, pending>>
    ELSE IF active
    THEN run' = [run EXCEPT ![r] = "waiting"] /\ UNCHANGED <<queue, batch, pending>>
    ELSE Fetch(r)

\* The second after the first message of a batch is over.
DebounceFires(r) ==
    /\ debounce /\ run[r] = "none"
    /\ debounce' = FALSE
    /\ Begin(r)
    /\ UNCHANGED <<happened, held, stopped, turns, recovering, given, lost>>

\* The 500 ms after a handler has left messages in the queue are over.
RescheduleFires(r) ==
    /\ run[r] = "scheduled"
    /\ Begin(r)
    /\ UNCHANGED <<happened, debounce, held, stopped, turns, recovering, given, lost>>

\* The session is idle; the flag is not looked at again.
WaitEnds(r) ==
    /\ run[r] = "waiting" /\ ~active
    /\ Fetch(r)
    /\ UNCHANGED <<happened, debounce, held, stopped, turns, recovering, given, lost>>

\* It has not been idle for 60 seconds: the end of the turn takes the queue.
WaitGivesUp(r) ==
    /\ run[r] = "waiting" /\ active
    /\ run' = [run EXCEPT ![r] = "none"]
    /\ UNCHANGED <<happened, queue, batch, pending, debounce, held, stopped, turns,
                   recovering, given, lost>>

\* The finally of _runAutoResume, with left in the queue.
Finish(r, left) ==
    /\ queue' = left
    /\ batch' = [batch EXCEPT ![r] = <<>>]
    /\ pending' = FALSE
    /\ run' = [run EXCEPT ![r] = IF left = <<>> THEN "none" ELSE "scheduled"]

\* Bug: the gate is not asked.
Handle_NoGate(r, s) ==
    /\ run[r] = "handling"
    /\ LET M == Items(batch[r])
       IN CASE Head(batch[r]) \in Notes ->
                 /\ Drop(M \cup Items(queue)) /\ Finish(r, <<>>)
                 /\ UNCHANGED <<held, turns, given>>
            [] Head(batch[r]) \notin Notes /\ active ->
                 /\ Drop(M) /\ Finish(r, queue)
                 /\ UNCHANGED <<held, turns, given>>
            [] OTHER ->
                 /\ ~turn[s] /\ Chat(s, M) /\ Finish(r, queue)
                 /\ UNCHANGED <<held, lost>>
    /\ UNCHANGED <<happened, debounce, stopped, recovering>>

\* The handler after its import: if the user stopped the first of the batch,
\* all are dropped; if a turn has begun meanwhile, it is supposed to have them.
Handle(r, s) ==
    /\ run[r] = "handling"
    /\ LET M == Items(batch[r])
       IN CASE Head(batch[r]) \in Notes ->
                 /\ Drop(M \cup Items(queue)) /\ Finish(r, <<>>)
                 /\ UNCHANGED <<held, turns, given>>
            [] Head(batch[r]) \notin Notes /\ active ->
                 /\ Drop(M) /\ Finish(r, queue)
                 /\ UNCHANGED <<held, turns, given>>
            [] OTHER ->
                 /\ AutoChat(s, M) /\ Finish(r, queue)
                 /\ UNCHANGED lost
    /\ UNCHANGED <<happened, debounce, stopped, recovering>>

-----------------------------------------------------------------------------
(* Stop, wakeups, and turns that do not move.                              *)

\* Either abort tells the model, in a note, what goes on running.
Survivors(m) ==
    IF m \in Notes \ happened
    THEN /\ happened' = happened \cup {m}
         /\ queue' = Pushed(m) /\ Drop(Fallen(m))
    ELSE m = None /\ UNCHANGED <<happened, queue, lost>>

\* The user presses stop.
Stop(m) ==
    /\ stopped' = TRUE
    /\ Abort
    /\ Survivors(m)
    /\ UNCHANGED <<debounce, pending, run, batch, held, watched, recovering, given>>

\* A wakeup is due: whether a turn is in flight is not asked.
WakeupFires(m, s) ==
    /\ m \in Wakeups \ happened
    /\ happened' = happened \cup {m}
    /\ AutoChat(s, {m})
    /\ UNCHANGED <<notifier, stopped, recovering, lost>>

\* No event for 240 seconds and nothing at work: an abort of the program's own.
StallAborts(m) ==
    /\ watched /\ ~recovering
    /\ recovering' = TRUE
    /\ Abort
    /\ Survivors(m)
    /\ UNCHANGED <<debounce, pending, run, batch, held, stopped, watched, given>>

\* Still nothing after the recoveries it allows itself: the guard gives up.
StallGivesUp(m) ==
    /\ watched /\ ~recovering
    /\ watched' = FALSE
    /\ Abort
    /\ Survivors(m)
    /\ UNCHANGED <<debounce, pending, run, batch, held, stopped, recovering, given>>

\* 400 ms later: a turn that tells the model to look again.
Recover(s) ==
    /\ recovering /\ ~turn[s]
    /\ recovering' = FALSE
    /\ Chat(s, {})
    /\ UNCHANGED <<happened, notifier, held, stopped, lost>>

Next ==
    \/ \E s \in Slots : \/ \E retry \in BOOLEAN : UserChat(s, retry)
                        \/ TurnEnds(s) \/ Recover(s)
                        \/ \E m \in Messages : WakeupFires(m, s)
                        \/ \E r \in Runs : Handle(r, s)
    \/ \E m \in Messages : Enqueue(m)
    \/ \E m \in Notes \cup {None} : Stop(m) \/ StallAborts(m) \/ StallGivesUp(m)
    \/ \E r \in Runs : DebounceFires(r) \/ RescheduleFires(r) \/ WaitEnds(r)
                       \/ WaitGivesUp(r)

Spec == Init /\ [][Next]_vars

\* Timers fire and turns end; nobody need speak, stop or schedule anything.
FairSpec ==
    /\ Spec
    /\ \A s \in Slots : WF_vars(TurnEnds(s))
    /\ \A r \in Runs :
        /\ WF_vars(DebounceFires(r)) /\ WF_vars(RescheduleFires(r))
        /\ WF_vars(WaitEnds(r)) /\ WF_vars(WaitGivesUp(r))
        /\ WF_vars(\E s \in Slots : Handle(r, s))

-----------------------------------------------------------------------------
(* Properties.                                                             *)

\* The model is never given a message twice, and a message that is not lost is
\* in one place: the queue, a batch on its way, the gate, or a prompt.  It is at
\* the gate only while the user has stopped: the next word takes it from there.
OnePlace ==
    /\ \A m \in Messages :
           (IF m \in Items(queue) THEN 1 ELSE 0)
           + Cardinality({r \in Runs : m \in Items(batch[r])})
           + (IF m \in held THEN 1 ELSE 0)
           + (IF m \in lost THEN 1 ELSE 0)
           + given[m] = (IF m \in happened THEN 1 ELSE 0)
    /\ held # {} => stopped

\* A turn begins in this step: in a free slot, or at the end of another turn,
\* which goes on with what it found in the queue.
TurnBegins ==
    \/ \E s \in Slots : turn'[s] /\ ~turn[s]
    \/ \E m \in Messages : given'[m] # given[m]

\* userStopGate.ts: stopped until the user speaks.  Whatever ends, fires or was
\* on its way, no turn begins, with a message or without, unless a job the user
\* scheduled is due.  The exception is the stall guard (main.ts, onRecover): 400
\* ms after its abort it begins its turn without asking the gate, so a stop that
\* comes in between, or that met a turn which does not move, is followed by that
\* turn; but it gives the model none of the messages.
StopHolds ==
    [][stopped /\ stopped' /\ TurnBegins =>
        \/ \E m \in Scheduled : given'[m] # given[m]
        \/ recovering /\ ~recovering' /\ UNCHANGED <<queue, batch, held, given>>]_vars

\* What was queued leaves the queue, however the runs and turns meet.
QueueEmpties == \A m \in Tasks : m \in Items(queue) ~> m \notin Items(queue)
=============================================================================
