----------------------------- MODULE SessionRun -----------------------------
(***************************************************************************)
(* What the server says a session is doing.  The turns of one session, the *)
(* approvals and questions their tools wait for, pause and stop, and the   *)
(* tables of server/main.ts that follow them: the run state shown to the   *)
(* clients, the ledger of what waits for the user, the pause controller.   *)
(***************************************************************************)
EXTENDS Integers, FiniteSets

CONSTANTS
    Turns,          \* the turns ever started, in this order: a bound
    Approvals,      \* tool calls that must be approved
    Questions,      \* calls of ask_user
    None

Waits == Approvals \cup Questions

ASSUME SessionAssumption ==
    /\ Turns \subseteq Nat /\ None \notin Turns
    /\ Approvals \cap Questions = {}

VARIABLES
    turn,           \* turn[t]: bridge.chat has not begun, is in flight, is over
    runner,         \* runner[t]: the runner of the turn
    stopped,        \* the turns whose abort signal has fired
    active,         \* activeSessions.has(sessionId)
    status,         \* sessionRunStates: status
    pendingToolCalls, \* sessionRunStates: the approvals shown
    ledger,         \* sessionWaiting: what waits for the user
    wait,           \* wait[w]: an approval or a question
    by,             \* by[w]: the turn that asks
    late,           \* history: the approvals asked for after a stop
    gate,           \* the PauseController's paused flag, or "none" before it
    waiters,        \* the runners that resume() wakes
    overlapped      \* history: two turns have been in flight at once

shown == <<status, pendingToolCalls>>
waiting == <<wait, by, late>>
pausing == <<gate, waiters>>
vars == <<turn, runner, stopped, active, shown, ledger, waiting, pausing,
          overlapped>>

\* A "checking" approval is awaited by guardrails or by a PermissionRequest
\* hook, and nobody has been told of it.
TypeOK ==
    /\ turn \in [Turns -> {"none", "live", "over"}]
    /\ runner \in [Turns -> {"none", "working", "parked", "closed"}]
    /\ stopped \subseteq Turns
    /\ active \in BOOLEAN
    /\ status \in {"idle", "running", "paused", "awaiting_approval",
                   "awaiting_user"}
    /\ pendingToolCalls \subseteq Approvals
    /\ ledger \subseteq Waits
    /\ wait \in [Waits -> {"none", "checking", "pending", "settled"}]
    /\ by \in [Waits -> Turns \cup {None}]
    /\ late \subseteq Approvals
    /\ gate \in {"none", "open", "paused"}
    /\ waiters \subseteq Turns
    /\ overlapped \in BOOLEAN

Init ==
    /\ turn = [t \in Turns |-> "none"]
    /\ runner = [t \in Turns |-> "none"]
    /\ stopped = {}
    /\ active = FALSE
    /\ status = "idle" /\ pendingToolCalls = {}
    /\ ledger = {}
    /\ wait = [w \in Waits |-> "none"]
    /\ by = [w \in Waits |-> None]
    /\ late = {}
    /\ gate = "none" /\ waiters = {}
    /\ overlapped = FALSE

-----------------------------------------------------------------------------
(* The waiting ledger and the status.                                      *)

Live == {t \in Turns : turn[t] = "live"}

\* The tools of turn t that wait.
Unsettled(t) == {w \in Waits : by[w] = t /\ wait[w] \in {"checking", "pending"}}

\* SessionWaitingRegistry.resolve: approvals come first.
Resolve(l) ==
    IF l \cap Approvals # {} THEN "awaiting_approval"
    ELSE IF l # {} THEN "awaiting_user" ELSE "running"

\* syncWaitingStatus, over ledger l: a session that is idle or paused stays so.
SyncWaitingStatus(l) ==
    IF status \in {"idle", "paused"}
    THEN UNCHANGED shown
    ELSE /\ status' = Resolve(l)
         /\ pendingToolCalls' = l \cap Approvals

EnterWaiting(w) ==
    /\ ledger' = ledger \cup {w}
    /\ SyncWaitingStatus(ledger')

\* Bug: the ledger is cleared for the whole session.
ExitWaiting_All(S) ==
    /\ ledger' = IF S = {} THEN ledger ELSE {}
    /\ IF S = {} THEN UNCHANGED shown ELSE SyncWaitingStatus(ledger')

\* exitWaiting, of every member of S in turn; of none, nothing is done.
ExitWaiting(S) ==
    /\ ledger' = ledger \ S
    /\ IF S = {} THEN UNCHANGED shown ELSE SyncWaitingStatus(ledger')

-----------------------------------------------------------------------------
(* The pause controller.                                                   *)

\* resume() and reset(): the flag is cleared and who waits is woken.
OpenGate ==
    /\ gate' = "open" /\ waiters' = {}
    /\ runner' = [t \in Turns |-> IF t \in waiters THEN "working" ELSE runner[t]]

\* Bug: a second pause makes a second promise, which the first waiter is not on.
Pause_Twice ==
    /\ gate # "none"
    /\ gate' = "paused" /\ waiters' = {}
    /\ status' = "paused"
    /\ UNCHANGED <<turn, runner, stopped, active, pendingToolCalls, ledger,
                   waiting, overlapped>>

\* pauseAll, when pauseSession says it has paused.
Pause ==
    /\ gate = "open"
    /\ gate' = "paused" /\ waiters' = {}
    /\ status' = "paused"
    /\ UNCHANGED <<turn, runner, stopped, active, pendingToolCalls, ledger,
                   waiting, overlapped>>

\* resumeAll, when resumeSession says it has resumed.
Resume ==
    /\ gate = "paused"
    /\ OpenGate
    /\ status' = "running"
    /\ UNCHANGED <<turn, stopped, active, pendingToolCalls, ledger, waiting,
                   overlapped>>

\* The top of the runner's loop: the tools of the last response have ended.
Park(t) ==
    /\ runner[t] = "working" /\ t \notin stopped
    /\ Unsettled(t) = {}
    /\ gate = "paused"
    /\ runner' = [runner EXCEPT ![t] = "parked"]
    /\ waiters' = waiters \cup {t}
    /\ UNCHANGED <<turn, stopped, active, shown, ledger, waiting, gate,
                   overlapped>>

-----------------------------------------------------------------------------
(* Turns.                                                                  *)

\* bridge.chat, for a message of the user, a wakeup or a finished task: nobody
\* looks whether a turn is in flight.
Chat(t) ==
    /\ turn[t] = "none" /\ \A u \in Turns : u < t => turn[u] # "none"
    /\ turn' = [turn EXCEPT ![t] = "live"]
    /\ runner' = [runner EXCEPT ![t] = "working"]
    /\ active' = TRUE
    /\ status' = "running" /\ pendingToolCalls' = {}
    /\ gate' = IF gate = "none" THEN "open" ELSE gate
    /\ overlapped' = (overlapped \/ Live # {})
    /\ UNCHANGED <<stopped, ledger, waiting, waiters>>

\* The runner's last step, which opens the gate it may have been paused by.
\* The runner of a stopped turn goes on until its tools let it.
RunnerCloses(t) ==
    /\ runner[t] = "working"
    /\ Unsettled(t) = {}
    /\ IF gate = "paused"
       THEN /\ gate' = "open" /\ waiters' = {}
            /\ runner' = [u \in Turns |-> IF u = t THEN "closed"
                                          ELSE IF u \in waiters THEN "working"
                                          ELSE runner[u]]
       ELSE /\ runner' = [runner EXCEPT ![t] = "closed"]
            /\ UNCHANGED pausing
    /\ UNCHANGED <<turn, stopped, active, shown, ledger, waiting, overlapped>>

\* Bug: the turn waits for its tools although it was stopped.
ChatEnds_AfterTools(t) ==
    /\ turn[t] = "live" /\ runner[t] = "closed"
    /\ turn' = [turn EXCEPT ![t] = "over"]
    /\ active' = FALSE
    /\ ledger' = {}
    /\ status' = IF status = "paused" THEN status ELSE "idle"
    /\ UNCHANGED <<runner, stopped, pendingToolCalls, waiting, pausing,
                   overlapped>>

\* chat()'s finally: the runner has closed, or the host does not wait for it.
ChatEnds(t) ==
    /\ turn[t] = "live" /\ (runner[t] = "closed" \/ t \in stopped)
    /\ turn' = [turn EXCEPT ![t] = "over"]
    /\ active' = FALSE
    /\ ledger' = {}
    /\ status' = IF status = "paused" THEN status ELSE "idle"
    /\ UNCHANGED <<runner, stopped, pendingToolCalls, waiting, pausing,
                   overlapped>>

-----------------------------------------------------------------------------
(* Approvals and questions.                                                *)

Begins(w, t, state) ==
    /\ runner[t] = "working" /\ turn[t] = "live" /\ t \notin stopped
    /\ wait[w] = "none"
    /\ wait' = [wait EXCEPT ![w] = state]
    /\ by' = [by EXCEPT ![w] = t]

\* A tool call reaches the gate: it is checked before the user is asked.
Check(w, t) ==
    /\ w \in Approvals
    /\ Begins(w, t, "checking")
    /\ UNCHANGED <<turn, runner, stopped, active, shown, ledger, late, pausing,
                   overlapped>>

\* A guardrail or a hook answers in the user's place.
AnsweredByHook(w) ==
    /\ wait[w] = "checking"
    /\ wait' = [wait EXCEPT ![w] = "settled"]
    /\ UNCHANGED <<turn, runner, stopped, active, shown, ledger, by, late,
                   pausing, overlapped>>

\* The approval handler after the hook: whether the turn goes on is not asked.
AskApproval(w) ==
    /\ wait[w] = "checking"
    /\ wait' = [wait EXCEPT ![w] = "pending"]
    /\ late' = IF by[w] \in stopped THEN late \cup {w} ELSE late
    /\ EnterWaiting(w)
    /\ UNCHANGED <<turn, runner, stopped, active, by, pausing, overlapped>>

\* askUserTool.
AskUser(q, t) ==
    /\ q \in Questions
    /\ Begins(q, t, "pending")
    /\ EnterWaiting(q)
    /\ UNCHANGED <<turn, runner, stopped, active, late, pausing, overlapped>>

Settle(S) == wait' = [w \in Waits |-> IF w \in S THEN "settled" ELSE wait[w]]

\* replyPermission and cancelPermission: resolvePendingPermission.
ReplyPermission(w) ==
    /\ w \in Approvals /\ wait[w] = "pending"
    /\ Settle({w})
    /\ ExitWaiting({w})
    /\ UNCHANGED <<turn, runner, stopped, active, by, late, pausing, overlapped>>

\* replyAskUser finds the session of the question in the ledger, or does not.
ReplyAskUser(q) ==
    /\ q \in Questions /\ wait[q] = "pending"
    /\ Settle({q})
    /\ ExitWaiting({q} \cap ledger)
    /\ UNCHANGED <<turn, runner, stopped, active, by, late, pausing, overlapped>>

\* The 300 seconds of a question are over.
QuestionExpires(q) ==
    /\ q \in Questions /\ wait[q] = "pending"
    /\ Settle({q})
    /\ ExitWaiting({q})
    /\ UNCHANGED <<turn, runner, stopped, active, by, late, pausing, overlapped>>

-----------------------------------------------------------------------------
(* Stop.                                                                   *)

\* The turn whose signals are in the tables: the last one to have begun.
Latest == {t \in Live : \A u \in Turns : t < u => turn[u] = "none"}

\* Bug: only the approvals that the run state shows are cancelled.
SettledByStop_Shown ==
    {w \in Waits : /\ wait[w] = "pending"
                   /\ \/ w \in pendingToolCalls
                      \/ w \in Questions /\ by[w] \in Latest}

\* What a stop settles: every approval, and the questions of the turn whose
\* signal fires.
SettledByStop ==
    {w \in Waits : wait[w] = "pending" /\ (w \in Approvals \/ by[w] \in Latest)}

\* abort(), of the user or of the stall guard.  Turns that share the host with
\* the latest one may hear of it through the host's flag.
Stop ==
    /\ \E others \in SUBSET (Live \ Latest) :
        stopped' = stopped \cup Latest \cup others
    /\ Settle(SettledByStop)
    /\ ExitWaiting(SettledByStop)
    /\ IF gate = "none" THEN UNCHANGED <<runner, pausing>> ELSE OpenGate
    /\ UNCHANGED <<turn, active, by, late, overlapped>>

Next ==
    \/ \E t \in Turns : Chat(t) \/ Park(t) \/ RunnerCloses(t) \/ ChatEnds(t)
    \/ \E w \in Waits : \/ \E t \in Turns : Check(w, t) \/ AskUser(w, t)
                        \/ AnsweredByHook(w) \/ AskApproval(w)
                        \/ ReplyPermission(w) \/ ReplyAskUser(w)
                        \/ QuestionExpires(w)
    \/ Pause \/ Resume \/ Stop

Spec == Init /\ [][Next]_vars

\* The program goes on where it can; the user need not answer, resume or stop,
\* and a hook may never return.
FairSpec ==
    /\ Spec
    /\ \A t \in Turns : WF_vars(RunnerCloses(t)) /\ WF_vars(ChatEnds(t))
    /\ \A q \in Questions : WF_vars(QuestionExpires(q))

-----------------------------------------------------------------------------
(* Properties.                                                             *)

\* The status the clients are shown is true.  A session is shown as waiting for
\* the user only while something waits, an approval before a question, with the
\* approvals that wait (sessionWaitingRegistry.ts).  While one turn is in flight
\* at a time, it is counted as active and never shown as idle, and what it waits
\* for is in the ledger.
StatusTells ==
    /\ status = "awaiting_approval" =>
           pendingToolCalls = ledger \cap Approvals /\ pendingToolCalls # {}
    /\ status = "awaiting_user" => ledger # {} /\ ledger \subseteq Questions
    /\ ~overlapped =>
           /\ active <=> Live # {}
           /\ Live # {} => status # "idle"
           /\ \A w \in Waits :
                  wait[w] = "pending" /\ by[w] \in Live => w \in ledger

\* A stop, or the end of a turn, settles the approvals and questions that are
\* registered by then, in whatever order they were asked for.  The code leaves two
\* kinds pending for a turn that is over: approvals that were still with a hook
\* when the user stopped and are registered afterwards (late), and, once turns
\* have overlapped, questions of a turn whose own signal the stop did not fire.
WaitsDieWithTurn ==
    \A w \in Waits :
        wait[w] = "pending" /\ turn[by[w]] = "over" =>
            w \in late \/ (w \in Questions /\ overlapped)

\* A runner that waits at the gate can be woken: the controller says paused, and
\* the promise it resolves is the one the runner waits on.
ParkedCanResume ==
    \A t \in Turns : runner[t] = "parked" => gate = "paused" /\ t \in waiters

\* A turn that is stopped ends, paused or not, whatever its tools wait for.
StopEndsTurn == \A t \in Turns : t \in stopped ~> turn[t] = "over"

=============================================================================
