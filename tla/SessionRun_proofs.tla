-------------------------- MODULE SessionRun_proofs --------------------------
(***************************************************************************)
(* Proofs about SessionRun, for any number of turns, approvals and         *)
(* questions.  What the clients are shown depends on turns that overlap,   *)
(* and what a stop leaves pending on the order in which turns begin.       *)
(***************************************************************************)
EXTENDS SessionRun, TLAPS

\* Turns begin in their order, a call that waits was made by a turn that has
\* begun, and a runner closes when its tools have ended.
Order ==
    /\ \A t, u \in Turns : t < u /\ turn[u] # "none" => turn[t] # "none"
    /\ \A w \in Waits : /\ wait[w] # "none" =>
                              by[w] \in Turns /\ turn[by[w]] # "none"
                        /\ wait[w] = "checking" => w \in Approvals
    /\ \A t \in Turns : runner[t] = "closed" => Unsettled(t) = {}

\* Only a stopped turn ends before its runner, and only a runner that is parked
\* can be woken.
Runners ==
    /\ \A t \in Turns : turn[t] = "none" => runner[t] = "none"
    /\ \A t \in Turns : turn[t] = "over" => runner[t] = "closed" \/ t \in stopped
    /\ \A t \in waiters : runner[t] = "parked"

\* A turn that is in flight although a later one has begun overlaps it.
Overlaps ==
    \A t, u \in Turns :
        t < u /\ turn[t] = "live" /\ turn[u] # "none" => overlapped

\* What is still pending for a turn that was stopped.
Stopped ==
    \A w \in Waits :
        wait[w] = "pending" /\ by[w] \in stopped =>
            w \in late \/ (w \in Questions /\ overlapped)

\* The two halves of StatusTells: what is shown to wait, waits; and a session
\* with one turn in flight at a time is counted.
Shows ==
    /\ status = "awaiting_approval" =>
           pendingToolCalls = ledger \cap Approvals /\ pendingToolCalls # {}
    /\ status = "awaiting_user" => ledger # {} /\ ledger \subseteq Questions
Counts ==
    ~overlapped =>
        /\ active <=> Live # {}
        /\ Live # {} => status # "idle"
        /\ \A w \in Waits : wait[w] = "pending" /\ by[w] \in Live => w \in ledger

IInv == /\ TypeOK /\ Order /\ Runners /\ Overlaps /\ Stopped
        /\ Shows /\ Counts /\ WaitsDieWithTurn /\ ParkedCanResume

-----------------------------------------------------------------------------
(* The ledger and the status.                                              *)

Statuses == {"idle", "running", "paused", "awaiting_approval", "awaiting_user"}

LEMMA SyncFacts ==
    ASSUME TypeOK, Shows, NEW l, l \subseteq Waits, ledger' = l,
           SyncWaitingStatus(l)
    PROVE  /\ status' \in Statuses /\ pendingToolCalls' \subseteq Approvals
           /\ Shows'
           /\ status # "idle" => status' # "idle"
<1>1. CASE status \in {"idle", "paused"}
  BY <1>1 DEF SyncWaitingStatus, TypeOK, Shows, Statuses, shown
<1>2. CASE status \notin {"idle", "paused"}
  <2>1. status' = Resolve(l) /\ pendingToolCalls' = l \cap Approvals
    BY <1>2 DEF SyncWaitingStatus
  <2> QED BY <2>1 DEF Resolve, Shows, Statuses, Waits
<1> QED BY <1>1, <1>2

LEMMA EnterFacts ==
    ASSUME TypeOK, Shows, NEW w \in Waits, EnterWaiting(w)
    PROVE  /\ ledger' = ledger \cup {w} /\ ledger' \subseteq Waits
           /\ status' \in Statuses /\ pendingToolCalls' \subseteq Approvals
           /\ Shows'
           /\ status # "idle" => status' # "idle"
<1>1. ledger' = ledger \cup {w} /\ ledger' \subseteq Waits
  BY DEF EnterWaiting, TypeOK
<1>2. SyncWaitingStatus(ledger')
  BY DEF EnterWaiting
<1> QED BY <1>1, <1>2, SyncFacts

LEMMA ExitFacts ==
    ASSUME TypeOK, Shows, NEW S, ExitWaiting(S)
    PROVE  /\ ledger' = ledger \ S /\ ledger' \subseteq Waits
           /\ status' \in Statuses /\ pendingToolCalls' \subseteq Approvals
           /\ Shows'
           /\ status # "idle" => status' # "idle"
<1>1. ledger' = ledger \ S /\ ledger' \subseteq Waits
  BY DEF ExitWaiting, TypeOK
<1>2. CASE S = {}
  BY <1>1, <1>2 DEF ExitWaiting, TypeOK, Shows, Statuses, shown
<1>3. CASE S # {}
  <2>1. SyncWaitingStatus(ledger')
    BY <1>3 DEF ExitWaiting
  <2> QED BY <1>1, <2>1, SyncFacts
<1> QED BY <1>2, <1>3

-----------------------------------------------------------------------------
(* The inductive invariant.                                                *)

LEMMA InitIInv == Init => IInv
BY SessionAssumption DEF Init, IInv, TypeOK, Order, Runners, Overlaps, Stopped, Shows,
       Counts, Live, Unsettled, WaitsDieWithTurn, ParkedCanResume

\* A turn begins.
LEMMA ChatIInv ==
    ASSUME IInv, NEW t \in Turns, Chat(t)
    PROVE  IInv'
<1>1. /\ TypeOK /\ Order /\ Runners /\ Overlaps /\ Stopped
      /\ Shows /\ Counts /\ WaitsDieWithTurn /\ ParkedCanResume
  BY DEF IInv
<1>2. /\ turn[t] = "none" /\ \A u \in Turns : u < t => turn[u] # "none"
      /\ active' = TRUE /\ status' = "running" /\ pendingToolCalls' = {}
      /\ gate' = IF gate = "none" THEN "open" ELSE gate
      /\ overlapped' = (overlapped \/ Live # {})
      /\ UNCHANGED <<stopped, ledger, wait, by, late, waiters>>
  BY DEF Chat, waiting
<1>3. \A u \in Turns : /\ turn'[u] = IF u = t THEN "live" ELSE turn[u]
                       /\ runner'[u] = IF u = t THEN "working" ELSE runner[u]
  BY <1>1 DEF Chat, TypeOK
<1>4. overlapped => overlapped'
  BY <1>1, <1>2 DEF TypeOK
<1>5. TypeOK'
  <2>1. overlapped' \in BOOLEAN
    BY <1>1, <1>2
  <2> QED BY <1>1, <1>2, <2>1 DEF Chat, TypeOK
<1>6. Order'
  <2>1. \A u, v \in Turns : u < v /\ turn'[v] # "none" => turn'[u] # "none"
    BY <1>1, <1>2, <1>3 DEF Order
  <2>2. \A w \in Waits : /\ wait'[w] # "none" =>
                               by'[w] \in Turns /\ turn'[by'[w]] # "none"
                         /\ wait'[w] = "checking" => w \in Approvals
    BY <1>1, <1>2, <1>3 DEF Order
  <2>3. \A u \in Turns : runner'[u] = "closed" => Unsettled(u)' = {}
    BY <1>1, <1>2, <1>3 DEF Order, Unsettled
  <2> QED BY <2>1, <2>2, <2>3 DEF Order
<1>7. Overlaps'
  <2> SUFFICES ASSUME NEW u \in Turns, NEW v \in Turns,
                      u < v, turn'[u] = "live", turn'[v] # "none"
               PROVE  overlapped'
    BY DEF Overlaps
  <2>1. t \in Nat /\ u \in Nat /\ v \in Nat
    BY SessionAssumption
  <2>2. CASE u = t
    <3>1. turn[v] # "none"
      BY <1>3, <2>1, <2>2
    <3> QED BY <1>1, <1>2, <2>2, <3>1 DEF Order
  <2>3. CASE u # t
    BY <1>2, <1>3, <2>3 DEF Live
  <2> QED BY <2>2, <2>3
<1>8. Stopped'
  BY <1>1, <1>2, <1>4 DEF Stopped
<1>9. Shows'
  BY <1>2 DEF Shows
<1>10. Counts'
  <2> SUFFICES ASSUME ~overlapped' PROVE Counts'
    BY DEF Counts
  <2>1. Live = {} /\ t \in Live'
    BY <1>2, <1>3 DEF Live
  <2>2. \A w \in Waits : wait'[w] = "pending" => by'[w] \notin Live'
    BY <1>1, <1>2, <1>3, <2>1 DEF Live, Order
  <2> QED BY <1>2, <2>1, <2>2 DEF Counts
<1>11. WaitsDieWithTurn'
  BY <1>1, <1>2, <1>3, <1>4 DEF WaitsDieWithTurn, Order
<1>12. ParkedCanResume' /\ Runners'
  BY <1>1, <1>2, <1>3 DEF ParkedCanResume, Runners, TypeOK
<1> QED BY <1>5, <1>6, <1>7, <1>8, <1>9, <1>10, <1>11, <1>12 DEF IInv

\* The runner waits at the gate, ends, or is let through it.
LEMMA GateIInv ==
    ASSUME IInv,
           \/ \E t \in Turns : Park(t) \/ RunnerCloses(t)
           \/ Pause \/ Resume
    PROVE  IInv'
<1>1. /\ TypeOK /\ Order /\ Runners /\ Overlaps /\ Stopped
      /\ Shows /\ Counts /\ WaitsDieWithTurn /\ ParkedCanResume
  BY DEF IInv
<1>2. /\ UNCHANGED <<turn, stopped, active, pendingToolCalls, ledger, wait, by,
                     late, overlapped>>
      /\ \/ status' = status
         \/ status' \in {"paused", "running"}
  BY DEF Park, RunnerCloses, Pause, Resume, OpenGate, waiting, shown
<1>3. /\ gate' \in {"none", "open", "paused"} /\ waiters' \subseteq Turns
      /\ runner' \in [Turns -> {"none", "working", "parked", "closed"}]
      /\ \A u \in Turns : runner'[u] = "closed" =>
            runner[u] = "closed" \/ Unsettled(u) = {}
      /\ ParkedCanResume' /\ Runners'
  <2>1. CASE \E t \in Turns : Park(t)
    BY <1>1, <2>1 DEF Park, TypeOK, Runners, ParkedCanResume
  <2>2. CASE \E t \in Turns : RunnerCloses(t)
    <3>1. PICK t \in Turns : RunnerCloses(t)
      BY <2>2
    <3>2. CASE gate = "paused"
      BY <1>1, <3>1, <3>2 DEF RunnerCloses, TypeOK, Runners, ParkedCanResume
    <3>3. CASE gate # "paused"
      BY <1>1, <3>1, <3>3 DEF RunnerCloses, TypeOK, Runners, ParkedCanResume, pausing
    <3> QED BY <3>2, <3>3
  <2>3. CASE Pause
    BY <1>1, <2>3 DEF Pause, TypeOK, Runners, ParkedCanResume
  <2>4. CASE Resume
    BY <1>1, <2>4 DEF Resume, OpenGate, TypeOK, Runners, ParkedCanResume
  <2> QED BY <2>1, <2>2, <2>3, <2>4
<1>4. TypeOK'
  BY <1>1, <1>2, <1>3 DEF TypeOK
<1>5. Order'
  BY <1>1, <1>2, <1>3 DEF Order, Unsettled
<1>6. Overlaps' /\ Stopped' /\ WaitsDieWithTurn'
  BY <1>1, <1>2 DEF Overlaps, Stopped, WaitsDieWithTurn
<1>7. Shows'
  BY <1>1, <1>2 DEF Shows
<1>8. Counts'
  BY <1>1, <1>2 DEF Counts, Live
<1> QED BY <1>3, <1>4, <1>5, <1>6, <1>7, <1>8 DEF IInv

\* A turn ends, with its tools or without them.
LEMMA ChatEndsIInv ==
    ASSUME IInv, NEW t \in Turns, ChatEnds(t)
    PROVE  IInv'
<1>1. /\ TypeOK /\ Order /\ Runners /\ Overlaps /\ Stopped
      /\ Shows /\ Counts /\ WaitsDieWithTurn /\ ParkedCanResume
  BY DEF IInv
<1>2. /\ turn[t] = "live" /\ (runner[t] = "closed" \/ t \in stopped)
      /\ active' = FALSE /\ ledger' = {}
      /\ status' = IF status = "paused" THEN status ELSE "idle"
      /\ UNCHANGED <<runner, stopped, pendingToolCalls, wait, by, late, gate,
                     waiters, overlapped>>
  BY DEF ChatEnds, waiting, pausing
<1>3. \A u \in Turns : turn'[u] = IF u = t THEN "over" ELSE turn[u]
  BY <1>1 DEF ChatEnds, TypeOK
<1>4. TypeOK'
  BY <1>1, <1>2 DEF ChatEnds, TypeOK
<1>5. Order'
  BY <1>1, <1>2, <1>3 DEF Order, Unsettled
<1>6. Overlaps' /\ Stopped' /\ ParkedCanResume' /\ Runners' /\ Shows'
  BY <1>1, <1>2, <1>3 DEF Overlaps, Stopped, ParkedCanResume, Runners, Shows, TypeOK
<1>7. Counts'
  <2> SUFFICES ASSUME ~overlapped PROVE Live' = {}
    BY <1>2 DEF Counts
  <2>1. ASSUME NEW u \in Turns, u # t, turn[u] = "live" PROVE FALSE
    <3>1. u \in Nat /\ t \in Nat
      BY SessionAssumption
    <3>2. u < t \/ t < u
      BY <2>1, <3>1
    <3> QED BY <1>1, <1>2, <2>1, <3>2 DEF Overlaps
  <2> QED BY <1>3, <2>1 DEF Live
<1>8. WaitsDieWithTurn'
  <2> SUFFICES ASSUME NEW w \in Waits, wait[w] = "pending", turn'[by[w]] = "over"
               PROVE  w \in late \/ (w \in Questions /\ overlapped)
    BY <1>2 DEF WaitsDieWithTurn
  <2>1. by[w] \in Turns
    BY <1>1 DEF Order
  <2>2. CASE by[w] = t
    <3>1. t \in stopped
      BY <1>1, <1>2, <2>2 DEF Order, Unsettled
    <3> QED BY <1>1, <2>2, <3>1 DEF Stopped
  <2>3. CASE by[w] # t
    BY <1>1, <1>3, <2>1, <2>3 DEF WaitsDieWithTurn
  <2> QED BY <2>2, <2>3
<1> QED BY <1>4, <1>5, <1>6, <1>7, <1>8 DEF IInv

\* A tool begins to wait, or a hook answers for the user.
LEMMA AskIInv ==
    ASSUME IInv, NEW w \in Waits,
           \/ \E t \in Turns : Check(w, t) \/ AskUser(w, t)
           \/ AnsweredByHook(w) \/ AskApproval(w)
    PROVE  IInv'
<1>1. /\ TypeOK /\ Order /\ Runners /\ Overlaps /\ Stopped
      /\ Shows /\ Counts /\ WaitsDieWithTurn /\ ParkedCanResume
  BY DEF IInv
<1>2. UNCHANGED <<turn, runner, stopped, active, gate, waiters, overlapped>>
  BY DEF Check, AskUser, AnsweredByHook, AskApproval, pausing
\* A call that had not waited, of a turn in flight that has not been stopped.
<1>3. ASSUME NEW t \in Turns, NEW state \in {"checking", "pending"},
             Begins(w, t, state)
      PROVE  /\ wait' \in [Waits -> {"none", "checking", "pending", "settled"}]
             /\ by' \in [Waits -> Turns \cup {None}]
             /\ \A v \in Waits : /\ wait'[v] = IF v = w THEN state ELSE wait[v]
                                 /\ by'[v] = IF v = w THEN t ELSE by[v]
             /\ turn[t] = "live" /\ runner[t] = "working" /\ t \notin stopped
  BY <1>1, <1>3 DEF Begins, TypeOK
<1>4. ASSUME NEW q \in {"none", "checking", "pending", "settled"},
             wait' = [wait EXCEPT ![w] = q], wait[w] = "checking", by' = by
      PROVE  /\ wait' \in [Waits -> {"none", "checking", "pending", "settled"}]
             /\ \A v \in Waits : wait'[v] = IF v = w THEN q ELSE wait[v]
  BY <1>1, <1>4 DEF TypeOK
\* What the callers of each share: who asks is a turn that has begun, and a
\* new wait is that of a turn in flight.
<1>5. ASSUME wait' \in [Waits -> {"none", "checking", "pending", "settled"}],
             by' \in [Waits -> Turns \cup {None}],
             late' \subseteq Approvals, late \subseteq late',
             NEW t \in Turns, turn[t] # "none",
             NEW state \in {"checking", "pending", "settled"},
             \A v \in Waits : /\ wait'[v] = IF v = w THEN state ELSE wait[v]
                              /\ by'[v] = IF v = w THEN t ELSE by[v],
             runner[t] # "closed" \/ state = "settled",
             state = "checking" => w \in Approvals,
             state = "pending" =>
                 w \in late' \/ (t \notin stopped /\ turn[t] = "live"),
             ledger' \subseteq Waits, ledger \subseteq ledger',
             state = "pending" => w \in ledger',
             status' \in Statuses, pendingToolCalls' \subseteq Approvals,
             Shows', status # "idle" => status' # "idle"
      PROVE  IInv'
  <2>1. TypeOK'
    BY <1>1, <1>2, <1>5 DEF TypeOK, Statuses
  <2>2. Order'
    <3>1. \A u \in Turns : runner'[u] = "closed" => Unsettled(u)' = {}
      BY <1>1, <1>2, <1>5 DEF Order, Unsettled
    <3>2. \A v \in Waits : /\ wait'[v] # "none" =>
                                 by'[v] \in Turns /\ turn'[by'[v]] # "none"
                           /\ wait'[v] = "checking" => v \in Approvals
      BY <1>1, <1>2, <1>5 DEF Order
    <3> QED BY <1>1, <1>2, <3>1, <3>2 DEF Order
  <2>3. Overlaps' /\ ParkedCanResume' /\ Runners'
    BY <1>1, <1>2 DEF Overlaps, ParkedCanResume, Runners
  <2>4. Stopped' /\ WaitsDieWithTurn'
    BY <1>1, <1>2, <1>5 DEF Stopped, WaitsDieWithTurn
  <2>5. Counts'
    <3>1. Live' = Live
      BY <1>2 DEF Live
    <3>2. \A v \in Waits : wait'[v] = "pending" /\ by'[v] \in Live =>
              v \in ledger' \/ (wait[v] = "pending" /\ by[v] \in Live)
      BY <1>5
    <3> QED BY <1>1, <1>2, <1>5, <3>1, <3>2 DEF Counts
  <2> QED BY <1>5, <2>1, <2>2, <2>3, <2>4, <2>5 DEF IInv
<1>6. ASSUME NEW t \in Turns, Check(w, t) PROVE IInv'
  <2>1. /\ Begins(w, t, "checking") /\ w \in Approvals
        /\ UNCHANGED <<status, pendingToolCalls, ledger, late>>
    BY <1>6 DEF Check, shown
  <2>2. Shows' /\ status' \in Statuses /\ pendingToolCalls' \subseteq Approvals
        /\ late' \subseteq Approvals /\ ledger' \subseteq Waits
    BY <1>1, <2>1 DEF Shows, TypeOK, Statuses
  <2>3. /\ wait' \in [Waits -> {"none", "checking", "pending", "settled"}]
        /\ by' \in [Waits -> Turns \cup {None}]
        /\ \A v \in Waits : /\ wait'[v] = IF v = w THEN "checking" ELSE wait[v]
                            /\ by'[v] = IF v = w THEN t ELSE by[v]
        /\ turn[t] = "live" /\ runner[t] = "working" /\ t \notin stopped
    BY <1>3, <2>1
  <2>4. turn[t] # "none" /\ runner[t] # "closed"
    BY <2>3
  <2> QED BY <1>5, <2>1, <2>2, <2>3, <2>4
<1>7. ASSUME NEW t \in Turns, AskUser(w, t) PROVE IInv'
  <2>1. Begins(w, t, "pending") /\ EnterWaiting(w) /\ UNCHANGED late
    BY <1>7 DEF AskUser
  <2>2. /\ ledger' = ledger \cup {w} /\ ledger' \subseteq Waits
        /\ status' \in Statuses /\ pendingToolCalls' \subseteq Approvals
        /\ Shows' /\ (status # "idle" => status' # "idle")
    BY <1>1, <2>1, EnterFacts
  <2>3. /\ wait' \in [Waits -> {"none", "checking", "pending", "settled"}]
        /\ by' \in [Waits -> Turns \cup {None}]
        /\ \A v \in Waits : /\ wait'[v] = IF v = w THEN "pending" ELSE wait[v]
                            /\ by'[v] = IF v = w THEN t ELSE by[v]
        /\ turn[t] = "live" /\ runner[t] = "working" /\ t \notin stopped
    BY <1>3, <2>1
  <2>4. turn[t] # "none" /\ runner[t] # "closed" /\ late' \subseteq Approvals
    BY <1>1, <2>1, <2>3 DEF TypeOK
  <2> QED BY <1>5, <2>1, <2>2, <2>3, <2>4
<1>8. CASE AnsweredByHook(w) \/ AskApproval(w)
  <2>1. PICK t \in Turns : t = by[w] /\ turn[t] # "none" /\ runner[t] # "closed"
    BY <1>1, <1>8 DEF AnsweredByHook, AskApproval, Order, Unsettled
  <2>2. by' = by /\ by \in [Waits -> Turns \cup {None}]
        /\ \A v \in Waits : by'[v] = IF v = w THEN t ELSE by[v]
    BY <1>1, <1>8, <2>1 DEF AnsweredByHook, AskApproval, TypeOK
  <2>3. CASE AnsweredByHook(w)
    <3>1. /\ wait[w] = "checking" /\ wait' = [wait EXCEPT ![w] = "settled"]
          /\ UNCHANGED <<status, pendingToolCalls, ledger, late>>
      BY <2>3 DEF AnsweredByHook, shown
    <3>2. /\ Shows' /\ status' \in Statuses /\ pendingToolCalls' \subseteq Approvals
          /\ late' \subseteq Approvals /\ ledger' \subseteq Waits
      BY <1>1, <3>1 DEF Shows, TypeOK, Statuses
    <3>3. /\ wait' \in [Waits -> {"none", "checking", "pending", "settled"}]
          /\ \A v \in Waits : wait'[v] = IF v = w THEN "settled" ELSE wait[v]
      BY <1>4, <2>2, <3>1
    <3> QED BY <1>5, <2>1, <2>2, <3>1, <3>2, <3>3
  <2>4. CASE AskApproval(w)
    <3>1. /\ wait[w] = "checking" /\ wait' = [wait EXCEPT ![w] = "pending"]
          /\ late' = (IF by[w] \in stopped THEN late \cup {w} ELSE late)
          /\ EnterWaiting(w)
      BY <2>4 DEF AskApproval
    <3>2. /\ ledger' = ledger \cup {w} /\ ledger' \subseteq Waits
          /\ status' \in Statuses /\ pendingToolCalls' \subseteq Approvals
          /\ Shows' /\ (status # "idle" => status' # "idle")
      BY <1>1, <3>1, EnterFacts
    <3>3. /\ wait' \in [Waits -> {"none", "checking", "pending", "settled"}]
          /\ \A v \in Waits : wait'[v] = IF v = w THEN "pending" ELSE wait[v]
      BY <1>4, <2>2, <3>1
    <3>4. late' \subseteq Approvals /\ late \subseteq late'
      BY <1>1, <3>1 DEF Order, TypeOK
    <3>5. w \in late' \/ (t \notin stopped /\ turn[t] = "live")
      BY <1>1, <2>1, <3>1 DEF Runners, TypeOK
    <3> QED BY <1>5, <2>1, <2>2, <3>1, <3>2, <3>3, <3>4, <3>5
  <2> QED BY <1>8, <2>3, <2>4
<1> QED BY <1>6, <1>7, <1>8

\* The user answers, or the time for the answer is over.
LEMMA AnswerIInv ==
    ASSUME IInv, NEW w \in Waits,
           ReplyPermission(w) \/ ReplyAskUser(w) \/ QuestionExpires(w)
    PROVE  IInv'
<1>1. /\ TypeOK /\ Order /\ Runners /\ Overlaps /\ Stopped
      /\ Shows /\ Counts /\ WaitsDieWithTurn /\ ParkedCanResume
  BY DEF IInv
<1>2. /\ Settle({w}) /\ wait[w] = "pending"
      /\ UNCHANGED <<turn, runner, stopped, active, by, late, gate, waiters,
                     overlapped>>
  BY DEF ReplyPermission, ReplyAskUser, QuestionExpires, pausing
<1>3. PICK S \in SUBSET {w} : ExitWaiting(S)
  BY DEF ReplyPermission, ReplyAskUser, QuestionExpires
<1>4. /\ ledger' = ledger \ S /\ ledger' \subseteq Waits
      /\ status' \in Statuses /\ pendingToolCalls' \subseteq Approvals
      /\ Shows' /\ (status # "idle" => status' # "idle")
  BY <1>1, <1>3, ExitFacts
<1>5. /\ wait' \in [Waits -> {"none", "checking", "pending", "settled"}]
      /\ \A v \in Waits : wait'[v] = IF v = w THEN "settled" ELSE wait[v]
  BY <1>1, <1>2 DEF Settle, TypeOK
<1>6. TypeOK'
  BY <1>1, <1>2, <1>4, <1>5 DEF TypeOK, Statuses
<1>7. Order' /\ Runners'
  BY <1>1, <1>2, <1>5 DEF Order, Runners, Unsettled
<1>8. Overlaps' /\ Stopped' /\ WaitsDieWithTurn' /\ ParkedCanResume'
  BY <1>1, <1>2, <1>5 DEF Overlaps, Stopped, WaitsDieWithTurn, ParkedCanResume
<1>9. Counts'
  <2>1. \A v \in Waits : wait'[v] = "pending" =>
           wait[v] = "pending" /\ (v \in ledger => v \in ledger')
    BY <1>4, <1>5
  <2>2. Live' = Live
    BY <1>2 DEF Live
  <2> SUFFICES ASSUME ~overlapped
               PROVE  /\ active <=> Live # {}
                      /\ Live # {} => status' # "idle"
                      /\ \A v \in Waits :
                            wait'[v] = "pending" /\ by[v] \in Live => v \in ledger'
    BY <1>2, <2>2 DEF Counts
  <2>3. /\ active <=> Live # {}
        /\ Live # {} => status # "idle"
        /\ \A v \in Waits : wait[v] = "pending" /\ by[v] \in Live => v \in ledger
    BY <1>1 DEF Counts
  <2>4. Live # {} => status' # "idle"
    BY <1>4, <2>3
  <2>5. \A v \in Waits : wait'[v] = "pending" /\ by[v] \in Live => v \in ledger'
    BY <2>1, <2>3
  <2> QED BY <2>3, <2>4, <2>5, Zenon
<1> QED BY <1>4, <1>6, <1>7, <1>8, <1>9 DEF IInv

LEMMA StopIInv == ASSUME IInv, Stop PROVE IInv'
<1>1. /\ TypeOK /\ Order /\ Runners /\ Overlaps /\ Stopped
      /\ Shows /\ Counts /\ WaitsDieWithTurn /\ ParkedCanResume
  BY DEF IInv
<1>2. /\ Settle(SettledByStop) /\ ExitWaiting(SettledByStop)
      /\ UNCHANGED <<turn, active, by, late, overlapped>>
  BY DEF Stop
<1>3. PICK others \in SUBSET (Live \ Latest) :
           stopped' = stopped \cup Latest \cup others
  BY DEF Stop
<1>4. /\ ledger' = ledger \ SettledByStop /\ ledger' \subseteq Waits
      /\ status' \in Statuses /\ pendingToolCalls' \subseteq Approvals
      /\ Shows' /\ (status # "idle" => status' # "idle")
  BY <1>1, <1>2, ExitFacts
<1>5. /\ wait' \in [Waits -> {"none", "checking", "pending", "settled"}]
      /\ \A v \in Waits :
            wait'[v] = IF v \in SettledByStop THEN "settled" ELSE wait[v]
  BY <1>1, <1>2 DEF Settle, TypeOK
<1>6. /\ gate' \in {"none", "open", "paused"} /\ waiters' \subseteq Turns
      /\ runner' \in [Turns -> {"none", "working", "parked", "closed"}]
      /\ \A u \in Turns : \/ runner'[u] = runner[u]
                          \/ runner[u] = "parked" /\ runner'[u] = "working"
      /\ ParkedCanResume' /\ \A u \in waiters' : runner'[u] = "parked"
  <2>1. CASE gate = "none"
    BY <1>1, <2>1 DEF Stop, TypeOK, Runners, ParkedCanResume, pausing
  <2>2. CASE gate # "none"
    <3>1. OpenGate
      BY <2>2 DEF Stop
    <3> QED BY <1>1, <3>1 DEF OpenGate, TypeOK, Runners, ParkedCanResume
  <2> QED BY <2>1, <2>2
<1>7. TypeOK'
  <2>1. stopped' \subseteq Turns
    BY <1>1, <1>3 DEF TypeOK, Live, Latest
  <2> QED BY <1>1, <1>2, <1>4, <1>5, <1>6, <2>1 DEF TypeOK, Statuses
<1>8. Order' /\ Runners'
  <2>1. Order'
    <3>1. \A t, u \in Turns : t < u /\ turn'[u] # "none" => turn'[t] # "none"
      BY <1>1, <1>2 DEF Order
    <3>2. \A w \in Waits : /\ wait'[w] # "none" =>
                                 by'[w] \in Turns /\ turn'[by'[w]] # "none"
                           /\ wait'[w] = "checking" => w \in Approvals
      BY <1>1, <1>2, <1>5 DEF Order, SettledByStop
    <3>3. \A t \in Turns : runner'[t] = "closed" => Unsettled(t)' = {}
      BY <1>1, <1>2, <1>5, <1>6 DEF Order, Unsettled
    <3> QED BY <3>1, <3>2, <3>3 DEF Order
  <2>2. Runners'
    BY <1>1, <1>2, <1>3, <1>6 DEF Runners
  <2> QED BY <2>1, <2>2
<1>9. Overlaps'
  BY <1>1, <1>2 DEF Overlaps
\* A turn that hears of the stop and is not the latest overlaps a later one.
<1>10. \A t \in Live \ Latest : overlapped
  BY <1>1 DEF Live, Latest, Overlaps
<1>11. Stopped'
  <2> SUFFICES ASSUME NEW w \in Waits, wait'[w] = "pending", by[w] \in stopped'
               PROVE  w \in late \/ (w \in Questions /\ overlapped)
    BY <1>2 DEF Stopped
  <2>1. wait[w] = "pending" /\ w \notin SettledByStop
    BY <1>5
  <2>2. w \in Questions /\ by[w] \notin Latest
    BY <2>1 DEF SettledByStop, Waits
  <2>3. CASE by[w] \in stopped
    BY <1>1, <2>1, <2>3 DEF Stopped
  <2>4. CASE by[w] \in others
    BY <1>10, <2>2, <2>4
  <2> QED BY <1>3, <2>2, <2>3, <2>4
<1>12. WaitsDieWithTurn'
  BY <1>1, <1>2, <1>5 DEF WaitsDieWithTurn
<1>13. Counts'
  <2>1. \A v \in Waits : wait'[v] = "pending" =>
           wait[v] = "pending" /\ (v \in ledger => v \in ledger')
    BY <1>4, <1>5
  <2>2. Live' = Live
    BY <1>2 DEF Live
  <2> SUFFICES ASSUME ~overlapped
               PROVE  /\ active <=> Live # {}
                      /\ Live # {} => status' # "idle"
                      /\ \A v \in Waits :
                            wait'[v] = "pending" /\ by[v] \in Live => v \in ledger'
    BY <1>2, <2>2 DEF Counts
  <2>3. /\ active <=> Live # {}
        /\ Live # {} => status # "idle"
        /\ \A v \in Waits : wait[v] = "pending" /\ by[v] \in Live => v \in ledger
    BY <1>1 DEF Counts
  <2>4. Live # {} => status' # "idle"
    BY <1>4, <2>3
  <2>5. \A v \in Waits : wait'[v] = "pending" /\ by[v] \in Live => v \in ledger'
    BY <2>1, <2>3
  <2> QED BY <2>3, <2>4, <2>5, Zenon
<1> QED BY <1>4, <1>6, <1>7, <1>8, <1>9, <1>11, <1>12, <1>13 DEF IInv

LEMMA StepIInv == IInv /\ [Next]_vars => IInv'
<1> SUFFICES ASSUME IInv, [Next]_vars PROVE IInv'
  OBVIOUS
<1>1. ASSUME NEW t \in Turns, Chat(t) PROVE IInv'
  BY <1>1, ChatIInv
<1>2. ASSUME NEW t \in Turns, ChatEnds(t) PROVE IInv'
  BY <1>2, ChatEndsIInv
<1>3. CASE \/ \E t \in Turns : Park(t) \/ RunnerCloses(t)
           \/ Pause \/ Resume
  BY <1>3, GateIInv
<1>4. ASSUME NEW w \in Waits,
             \/ \E t \in Turns : Check(w, t) \/ AskUser(w, t)
             \/ AnsweredByHook(w) \/ AskApproval(w)
      PROVE  IInv'
  BY <1>4, AskIInv
<1>5. ASSUME NEW w \in Waits,
             ReplyPermission(w) \/ ReplyAskUser(w) \/ QuestionExpires(w)
      PROVE  IInv'
  BY <1>5, AnswerIInv
<1>6. CASE Stop
  BY <1>6, StopIInv
<1>7. CASE UNCHANGED vars
  BY <1>7 DEF IInv, TypeOK, Order, Runners, Overlaps, Stopped, Shows, Counts, Live,
              Unsettled, WaitsDieWithTurn, ParkedCanResume, vars, shown, waiting,
              pausing
<1> QED BY <1>1, <1>2, <1>3, <1>4, <1>5, <1>6, <1>7 DEF Next

LEMMA AlwaysIInv == Spec => []IInv
BY InitIInv, StepIInv, PTL DEF Spec

-----------------------------------------------------------------------------
(* The theorems.                                                           *)

\* The run state, the ledger and the pause controller have the shapes their
\* types declare, however many turns overlap.
THEOREM TypeCorrect == Spec => []TypeOK
<1>1. IInv => TypeOK
  BY DEF IInv
<1> QED BY AlwaysIInv, <1>1, PTL

\* The status the clients are shown is true: of what waits for the user always,
\* of the turn in flight as long as no two have been in flight at once.
THEOREM StatusTellsAlways == Spec => []StatusTells
<1>1. IInv => StatusTells
  BY DEF IInv, Shows, Counts, StatusTells
<1> QED BY AlwaysIInv, <1>1, PTL

\* What a stop or the end of a turn finds registered is settled, for any turns,
\* approvals and questions.  It does not say that nothing outlives a turn: an
\* approval registered after the stop does, and so may a question once turns have
\* overlapped.
THEOREM WaitsDieWithTurnAlways == Spec => []WaitsDieWithTurn
<1>1. IInv => WaitsDieWithTurn
  BY DEF IInv
<1> QED BY AlwaysIInv, <1>1, PTL

\* A runner at the gate can be woken, although turns share one controller and
\* any of them may open it.
THEOREM ParkedCanResumeAlways == Spec => []ParkedCanResume
<1>1. IInv => ParkedCanResume
  BY DEF IInv
<1> QED BY AlwaysIInv, <1>1, PTL
=============================================================================
