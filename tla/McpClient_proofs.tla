-------------------------- MODULE McpClient_proofs --------------------------
(***************************************************************************)
(* Proofs about McpClient, for any number of calls and connections and any *)
(* limits on errors and retries.  TablesAgree needs to know that an        *)
(* attempt is made only while there is no entry, and SentAgainElsewhere    *)
(* what a call has left behind when it is sent again.                      *)
(***************************************************************************)
EXTENDS McpClient, FiniteSetTheorems, TLAPS

\* An attempt is under way only while there is no entry, and whoever waits for
\* one waits for a connection.
Attempts ==
    /\ connecting # None => entry = None
    /\ \A c \in Callers : pc[c] = "connecting" => on[c] \in Conns

\* A request has gone over one connection more than it has been retried, if it
\* is on its way, and never over one that is still to be opened.  The one in the
\* table is among them only while the call waits for its answer.
Requests ==
    \A c \in Calls :
        /\ pc[c] = "disconnecting" => retries[c] < MaxRetries
        /\ IsFiniteSet(sent[c])
        /\ Cardinality(sent[c]) <=
              retries[c] + IF pc[c] \in {"calling", "disconnecting", "givingUp"}
                           THEN 1 ELSE 0
        /\ \A k \in sent[c] : conn[k] \in {"open", "closing", "gone"}
        /\ entry \in sent[c] => pc[c] = "calling"

IInv == TypeOK /\ TablesAgree /\ Attempts /\ Requests

-----------------------------------------------------------------------------
(* What the shared steps do.                                               *)

LEMMA CountedBound ==
    ASSUME TypeOK, NEW terminal \in BOOLEAN
    PROVE  Counted(terminal) \in 0..MaxErrors
BY McpAssumption DEF TypeOK, Counted

LEMMA DropEntryFacts ==
    ASSUME TypeOK, TablesAgree, DropEntry
    PROVE  /\ entry' = None
           /\ toolsCache' \in {None, Static}
           /\ conn' \in [Conns -> {"unused", "opening", "abandoned", "open",
                                   "closing", "gone"}]
           /\ \A k \in Conns : \/ conn'[k] = conn[k]
                               \/ conn[k] = "open" /\ conn'[k] = "closing"
<1>1. CASE entry = None
  BY <1>1 DEF DropEntry, TypeOK, TablesAgree
<1>2. CASE entry # None
  <2>1. entry \in Conns /\ conn[entry] = "open"
    BY <1>2 DEF TypeOK, TablesAgree
  <2> QED BY <1>2, <2>1 DEF DropEntry, TypeOK, TablesAgree
<1> QED BY <1>1, <1>2

LEMMA SettleFacts ==
    ASSUME TypeOK, NEW S \in SUBSET Callers, Settle(S)
    PROVE  /\ pc' \in [Callers -> {"ready", "connecting", "calling",
                                   "disconnecting", "givingUp", "ended"}]
           /\ on' \in [Callers -> Conns \cup {None}]
           /\ retries' \in [Callers -> 0..MaxRetries]
           /\ sent' \in [Callers -> SUBSET Conns]
           /\ \A c \in S : pc'[c] = "ended" /\ retries'[c] = 0 /\ sent'[c] = {}
           /\ \A c \in Callers \ S : /\ pc'[c] = pc[c] /\ on'[c] = on[c]
                                     /\ retries'[c] = retries[c]
                                     /\ sent'[c] = sent[c]
BY McpAssumption DEF Settle, TypeOK

LEMMA ProceedFacts ==
    ASSUME TypeOK, NEW S \in SUBSET Callers, NEW k \in Conns, Proceed(S, k)
    PROVE  /\ pc' \in [Callers -> {"ready", "connecting", "calling",
                                   "disconnecting", "givingUp", "ended"}]
           /\ on' \in [Callers -> Conns \cup {None}]
           /\ sent' \in [Callers -> SUBSET Conns]
           /\ retries' = retries
           /\ toolsCache' \in {None, toolsCache}
           /\ \A c \in S \cap Calls :
                 pc'[c] = "calling" /\ sent'[c] = sent[c] \cup {k}
           /\ User \in S => pc'[User] = "ended"
           /\ \A c \in Callers \ S :
                 pc'[c] = pc[c] /\ on'[c] = on[c] /\ sent'[c] = sent[c]
BY McpAssumption DEF Proceed, TypeOK, Callers

LEMMA RejectPendingFacts ==
    ASSUME TypeOK, NEW k \in Conns, RejectPending(k)
    PROVE  /\ pc' \in [Callers -> {"ready", "connecting", "calling",
                                   "disconnecting", "givingUp", "ended"}]
           /\ on' \in [Callers -> Conns \cup {None}]
           /\ retries' \in [Callers -> 0..MaxRetries]
           /\ sent' \in [Callers -> SUBSET Conns]
           /\ \A c \in Callers :
                 \/ /\ pc'[c] = pc[c] /\ on'[c] = on[c]
                    /\ retries'[c] = retries[c] /\ sent'[c] = sent[c]
                 \/ /\ pc[c] = "calling" /\ pc'[c] = "ready"
                    /\ retries'[c] = retries[c] + 1 /\ sent'[c] = sent[c]
                 \/ /\ pc'[c] = "ended" /\ retries'[c] = 0 /\ sent'[c] = {}
<1> DEFINE pending == {c \in Calls : pc[c] = "calling" /\ on[c] = k}
           again == {c \in pending : retries[c] < MaxRetries}
           last == pending \ again
<1>1. pending \subseteq Callers
  BY DEF Callers
<1>2. \A c \in again : retries[c] + 1 \in 0..MaxRetries
  BY <1>1, McpAssumption DEF TypeOK
<1>3. /\ pc' = [c \in Callers |-> IF c \in again THEN "ready" ELSE
                                  IF c \in last THEN "ended" ELSE pc[c]]
      /\ on' = [c \in Callers |-> IF c \in last THEN None ELSE on[c]]
      /\ retries' = [c \in Callers |-> IF c \in again THEN retries[c] + 1 ELSE
                                       IF c \in last THEN 0 ELSE retries[c]]
      /\ sent' = [c \in Callers |-> IF c \in last THEN {} ELSE sent[c]]
  BY DEF RejectPending
<1>4. \A c \in again : pc[c] = "calling"
  OBVIOUS
<1>5. again \cap last = {}
  OBVIOUS
<1> HIDE DEF pending, again, last
<1> QED BY <1>2, <1>3, <1>4, <1>5, McpAssumption DEF TypeOK

LEMMA AddOne ==
    ASSUME NEW S, IsFiniteSet(S), NEW x
    PROVE  /\ IsFiniteSet(S \cup {x})
           /\ Cardinality(S) \in Nat /\ Cardinality(S \cup {x}) \in Nat
           /\ Cardinality(S \cup {x}) <= Cardinality(S) + 1
<1>1. Cardinality(S) \in Nat
  BY FS_CardinalityType
<1>2. /\ IsFiniteSet(S \cup {x})
      /\ \/ Cardinality(S \cup {x}) = Cardinality(S)
         \/ Cardinality(S \cup {x}) = Cardinality(S) + 1
  BY FS_AddElement
<1> QED BY <1>1, <1>2

\* The callers of S are settled, and nothing the rest depends on has changed.
LEMMA SettleKeepsRequests ==
    ASSUME IInv, NEW S \in SUBSET Callers, Settle(S),
           entry' \in {entry, None},
           \A k \in Conns : conn[k] \in {"open", "closing", "gone"}
                             => conn'[k] \in {"open", "closing", "gone"}
    PROVE  Requests'
<1>1. SUFFICES ASSUME NEW c \in Calls
               PROVE  /\ pc'[c] = "disconnecting" => retries'[c] < MaxRetries
                      /\ IsFiniteSet(sent'[c])
                      /\ Cardinality(sent'[c]) <= retries'[c] +
                           IF pc'[c] \in {"calling", "disconnecting", "givingUp"}
                           THEN 1 ELSE 0
                      /\ \A k \in sent'[c] : conn'[k] \in {"open", "closing", "gone"}
                      /\ entry' \in sent'[c] => pc'[c] = "calling"
  BY DEF Requests
<1>2. c \in Callers /\ None \notin Conns
  BY McpAssumption DEF Callers
<1>3. TypeOK /\ Requests
  BY DEF IInv
<1>4. CASE c \in S
  <2>1. pc'[c] = "ended" /\ retries'[c] = 0 /\ sent'[c] = {}
    BY <1>2, <1>3, <1>4, SettleFacts
  <2> QED BY <2>1, FS_EmptySet
<1>5. CASE c \notin S
  <2>1. /\ pc'[c] = pc[c] /\ retries'[c] = retries[c] /\ sent'[c] = sent[c]
        /\ sent[c] \subseteq Conns
    BY <1>2, <1>3, <1>5, SettleFacts DEF TypeOK
  <2> QED BY <1>2, <1>3, <2>1 DEF Requests
<1> QED BY <1>4, <1>5

\* The callers stay as they are, and a connection is only taken away.
LEMMA FrameKeepsRequests ==
    ASSUME IInv, UNCHANGED callers, entry' \in {entry, None},
           \A k \in Conns : conn[k] \in {"open", "closing", "gone"}
                             => conn'[k] \in {"open", "closing", "gone"}
    PROVE  Requests'
<1>1. TypeOK /\ Requests /\ None \notin Conns
  BY McpAssumption DEF IInv
<1>2. \A c \in Calls : sent[c] \subseteq Conns
  BY <1>1 DEF TypeOK, Callers
<1> QED BY <1>1, <1>2 DEF Requests, callers

\* Whoever gets connection k was ready for it or waiting, and has not used it.
LEMMA ProceedKeepsRequests ==
    ASSUME IInv, NEW S \in SUBSET Callers, NEW k \in Conns, Proceed(S, k),
           \A c \in S \cap Calls :
              pc[c] \in {"ready", "connecting"} /\ k \notin sent[c],
           entry' = k, \A c \in Calls \ S : k \notin sent[c] \/ entry = k,
           conn'[k] = "open",
           \A j \in Conns \ {k} : conn'[j] = conn[j]
    PROVE  Requests'
<1>1. SUFFICES ASSUME NEW c \in Calls
               PROVE  /\ pc'[c] = "disconnecting" => retries'[c] < MaxRetries
                      /\ IsFiniteSet(sent'[c])
                      /\ Cardinality(sent'[c]) <= retries'[c] +
                           IF pc'[c] \in {"calling", "disconnecting", "givingUp"}
                           THEN 1 ELSE 0
                      /\ \A j \in sent'[c] : conn'[j] \in {"open", "closing", "gone"}
                      /\ entry' \in sent'[c] => pc'[c] = "calling"
  BY DEF Requests
<1>2. c \in Callers
  BY DEF Callers
<1>3. TypeOK /\ Requests
  BY DEF IInv
<1>4. sent[c] \subseteq Conns /\ retries[c] \in Nat
  BY <1>2, <1>3, McpAssumption DEF TypeOK
<1>5. CASE c \in S
  <2>1. /\ pc'[c] = "calling" /\ sent'[c] = sent[c] \cup {k}
        /\ retries' = retries
    <3>1. /\ retries' = retries
          /\ \A d \in S \cap Calls :
                pc'[d] = "calling" /\ sent'[d] = sent[d] \cup {k}
      BY <1>3, ProceedFacts
    <3> QED BY <1>5, <3>1
  <2>2. /\ IsFiniteSet(sent[c]) /\ Cardinality(sent[c]) <= retries[c]
        /\ \A j \in sent[c] : conn[j] \in {"open", "closing", "gone"}
    <3>1. IsFiniteSet(sent[c])
      BY <1>3 DEF Requests
    <3>2. Cardinality(sent[c]) \in Nat
      BY <3>1, FS_CardinalityType
    <3> QED BY <1>3, <1>4, <1>5, <3>1, <3>2 DEF Requests
  <2>3. /\ IsFiniteSet(sent'[c])
        /\ Cardinality(sent'[c]) <= retries[c] + 1
    <3>1. /\ IsFiniteSet(sent[c] \cup {k})
          /\ Cardinality(sent[c]) \in Nat
          /\ Cardinality(sent[c] \cup {k}) \in Nat
          /\ Cardinality(sent[c] \cup {k}) <= Cardinality(sent[c]) + 1
      BY <2>2, AddOne
    <3> QED BY <1>4, <2>1, <2>2, <3>1
  <2> QED BY <1>4, <2>1, <2>2, <2>3
<1>6. CASE c \notin S
  <2>1. pc'[c] = pc[c] /\ sent'[c] = sent[c] /\ retries' = retries
    BY <1>2, <1>3, <1>6, ProceedFacts
  <2>2. \A j \in sent[c] : conn'[j] \in {"open", "closing", "gone"}
    BY <1>3, <1>4 DEF Requests
  <2> QED BY <1>3, <1>6, <2>1, <2>2 DEF Requests
<1> QED BY <1>5, <1>6

-----------------------------------------------------------------------------
(* The inductive invariant.                                                *)

LEMMA InitIInv == Init => IInv
<1> SUFFICES ASSUME Init PROVE IInv
  OBVIOUS
<1>1. TypeOK
  <2>1. 0 \in 0..MaxErrors /\ 0 \in 0..MaxRetries
    BY McpAssumption
  <2> QED BY <2>1 DEF Init, TypeOK
<1>2. TablesAgree /\ Attempts
  BY McpAssumption DEF Init, TablesAgree, Attempts
<1>3. Requests
  BY McpAssumption, FS_EmptySet DEF Init, Requests, Callers
<1> QED BY <1>1, <1>2, <1>3 DEF IInv

\* ensureConnected.
LEMMA EnsureConnectedIInv ==
    ASSUME IInv, NEW c \in Callers, EnsureConnected(c)
    PROVE  IInv'
<1>1. /\ TypeOK /\ TablesAgree /\ Attempts /\ Requests
      /\ None \notin Conns /\ Static \notin Conns /\ None # Static
      /\ {c} \in SUBSET Callers
  BY McpAssumption DEF IInv
<1>2. CASE UseEntry(c)
  <2>1. entry \in Conns /\ pc[c] = "ready" /\ Proceed({c}, entry)
    BY <1>1, <1>2 DEF UseEntry, TypeOK
  <2>2. UNCHANGED <<conn, entry, connecting, coolingDown, errors>>
    BY <1>2 DEF UseEntry
  <2>3. TypeOK'
    BY <1>1, <2>1, <2>2, ProceedFacts DEF TypeOK
  <2>4. toolsCache' \in {None, toolsCache}
    BY <1>1, <2>1, ProceedFacts
  <2>5. \A d \in Callers : pc'[d] = "connecting" => /\ d # c
                                                   /\ pc[d] = "connecting"
                                                   /\ on'[d] = on[d]
    BY <2>1 DEF Proceed
  <2>6. TablesAgree' /\ Attempts'
    BY <1>1, <2>2, <2>4, <2>5 DEF TablesAgree, Attempts
  <2>7. Requests'
    <3>1. conn[entry] = "open"
      BY <1>1, <2>1 DEF TablesAgree
    <3>2. c \in Calls => entry \notin sent[c]
      BY <1>1, <2>1 DEF Requests
    <3> QED
      <4>1. CASE c \in Calls
        BY <1>1, <2>1, <2>2, <3>1, <3>2, <4>1, ProceedKeepsRequests
      <4>2. CASE c \notin Calls
        <5>1. /\ \A d \in Calls : /\ pc'[d] = pc[d] /\ sent'[d] = sent[d]
                                  /\ retries' = retries
          BY <1>1, <2>1, <4>2, ProceedFacts DEF Callers
        <5> QED BY <1>1, <2>2, <5>1 DEF Requests
      <4> QED BY <4>1, <4>2
  <2> QED BY <2>3, <2>6, <2>7 DEF IInv
<1>3. CASE JoinAttempt(c) \/ BeginAttempt(c)
  <2>1. PICK k \in Conns :
             /\ pc[c] = "ready" /\ Await(c, k)
             /\ entry = None /\ connecting' = k
             /\ \/ connecting = k /\ conn' = conn
                \/ /\ connecting = None /\ conn[k] = "unused"
                   /\ conn' = [conn EXCEPT ![k] = "opening"]
    BY <1>1, <1>3 DEF JoinAttempt, BeginAttempt, Fresh, tables, TypeOK
  <2>2. UNCHANGED <<entry, coolingDown, errors, toolsCache, retries, sent>>
    BY <1>3 DEF JoinAttempt, BeginAttempt, Await, tables
  <2>3. /\ pc' = [pc EXCEPT ![c] = "connecting"]
        /\ on' = [on EXCEPT ![c] = k]
    BY <2>1 DEF Await
  <2>4. TypeOK'
    BY <1>1, <2>1, <2>2, <2>3 DEF TypeOK
  <2>5. \A d \in Callers : pc'[d] = "connecting" => on'[d] = k
    BY <1>1, <2>1, <2>3 DEF TypeOK, TablesAgree, Attempts
  <2>6. \A j \in Conns : conn'[j] = "opening" => j = k
    BY <1>1, <2>1 DEF TypeOK, TablesAgree
  <2>7. TablesAgree' /\ Attempts'
    BY <1>1, <2>1, <2>2, <2>5, <2>6 DEF TablesAgree, Attempts
  <2>8. \A d \in Calls : /\ d # c => pc'[d] = pc[d]
                         /\ d = c => pc'[d] = "connecting" /\ pc[d] = "ready"
    BY <1>1, <2>1, <2>3 DEF TypeOK, Callers
  <2>9. \A d \in Calls : \A j \in sent[d] :
             conn'[j] \in {"open", "closing", "gone"}
    <3> SUFFICES ASSUME NEW d \in Calls, NEW j \in sent[d]
                 PROVE  conn'[j] \in {"open", "closing", "gone"}
      OBVIOUS
    <3>1. j \in Conns /\ conn[j] \in {"open", "closing", "gone"}
      BY <1>1 DEF Requests, TypeOK, Callers
    <3> QED BY <1>1, <2>1, <3>1 DEF TypeOK
  <2>10. Requests'
    BY <1>1, <2>2, <2>8, <2>9 DEF Requests
  <2> QED BY <2>4, <2>7, <2>10 DEF IInv
<1>4. CASE RefuseWhileCooling(c)
  <2>1. Settle({c}) /\ UNCHANGED <<conn, tables>>
    BY <1>4 DEF RefuseWhileCooling
  <2>2. TypeOK'
    BY <1>1, <2>1, SettleFacts DEF TypeOK, tables
  <2>3. \A d \in Callers : pc'[d] = "connecting" => /\ pc[d] = "connecting"
                                                   /\ on'[d] = on[d]
    BY <2>1 DEF Settle
  <2>4. TablesAgree' /\ Attempts'
    BY <1>1, <2>1, <2>3 DEF TablesAgree, Attempts, tables
  <2>5. Requests'
    BY <1>1, <2>1, SettleKeepsRequests DEF tables
  <2> QED BY <2>2, <2>4, <2>5 DEF IInv
<1> QED BY <1>2, <1>3, <1>4 DEF EnsureConnected

\* The attempt to connect: it opens, fails, and is given up.
LEMMA AttemptIInv ==
    ASSUME IInv, NEW k \in Conns, Opened(k) \/ OpenFails(k) \/ GivesUp(k)
    PROVE  IInv'
<1>1. /\ TypeOK /\ TablesAgree /\ Attempts /\ Requests
      /\ None \notin Conns /\ Static \notin Conns /\ None # Static
      /\ Waiters(k) \in SUBSET Callers
  BY McpAssumption DEF IInv, Waiters
<1>2. \A c \in Calls : sent[c] \subseteq Conns
  BY <1>1 DEF TypeOK, Callers
<1>3. CASE Opened(k)
  <2>1. /\ conn[k] = "opening" /\ conn' = [conn EXCEPT ![k] = "open"]
        /\ entry' = k /\ connecting' = None
        /\ coolingDown' = FALSE /\ errors' = 0
        /\ Proceed(Waiters(k), k)
    BY <1>3 DEF Opened
  <2>2. connecting = k /\ entry = None
    BY <1>1, <2>1 DEF TablesAgree, Attempts
  <2>3. TypeOK'
    <3>1. errors' \in 0..MaxErrors
      BY <2>1, McpAssumption
    <3> QED BY <1>1, <2>1, <3>1, ProceedFacts DEF TypeOK
  <2>4. toolsCache' \in {None, toolsCache} /\ toolsCache \notin Conns
    BY <1>1, <2>1, <2>2, ProceedFacts DEF TablesAgree
  <2>5. \A d \in Callers : pc'[d] # "connecting"
    BY <1>1, <2>1, <2>2 DEF Proceed, Waiters, TablesAgree
  <2>6. \A j \in Conns : conn'[j] # "opening"
    BY <1>1, <2>1, <2>2 DEF TypeOK, TablesAgree
  <2>7. conn'[k] = "open"
    BY <1>1, <2>1 DEF TypeOK
  <2>8. TablesAgree' /\ Attempts'
    BY <1>1, <2>1, <2>4, <2>5, <2>6, <2>7 DEF TablesAgree, Attempts
  <2>9. Requests'
    <3>1. \A c \in Calls : k \notin sent[c]
      BY <1>1, <2>1 DEF Requests
    <3>2. \A c \in Waiters(k) \cap Calls :
             pc[c] \in {"ready", "connecting"} /\ k \notin sent[c]
      BY <3>1 DEF Waiters
    <3>3. \A j \in Conns \ {k} : conn'[j] = conn[j]
      BY <1>1, <2>1 DEF TypeOK
    <3> QED BY <1>1, <2>1, <2>7, <3>1, <3>2, <3>3, ProceedKeepsRequests
  <2> QED BY <2>3, <2>8, <2>9 DEF IInv
<1>4. CASE OpenFails(k)
  <2>1. /\ conn[k] = "opening" /\ conn' = [conn EXCEPT ![k] = "abandoned"]
        /\ UNCHANGED <<tables, callers>>
    BY <1>4 DEF OpenFails
  <2>2. \A j \in Conns : /\ conn'[j] # "opening"
                         /\ conn[j] # "opening" => conn'[j] = conn[j]
    BY <1>1, <2>1 DEF TypeOK, TablesAgree
  <2>3. TypeOK'
    BY <1>1, <2>1 DEF TypeOK, tables, callers
  <2>4. TablesAgree' /\ Attempts'
    BY <1>1, <2>1, <2>2 DEF TypeOK, TablesAgree, Attempts, tables, callers
  <2>5. Requests'
    BY <2>1, <2>2, FrameKeepsRequests DEF tables
  <2> QED BY <2>3, <2>4, <2>5 DEF IInv
<1>5. CASE GivesUp(k)
  <2>1. /\ connecting = k /\ conn[k] = "abandoned"
        /\ conn' = [conn EXCEPT ![k] = "gone"]
        /\ connecting' = None /\ coolingDown' = TRUE
        /\ \E terminal \in BOOLEAN : errors' = Counted(terminal)
        /\ Settle(Waiters(k))
        /\ UNCHANGED <<entry, toolsCache>>
    BY <1>5 DEF GivesUp, Rejected
  <2>2. \A j \in Conns : /\ conn'[j] # "opening"
                         /\ j # k => conn'[j] = conn[j]
    BY <1>1, <2>1 DEF TypeOK, TablesAgree
  <2>3. TypeOK'
    <3>1. errors' \in 0..MaxErrors
      BY <1>1, <2>1, CountedBound
    <3> QED BY <1>1, <2>1, <3>1, SettleFacts DEF TypeOK
  <2>4. \A d \in Callers : pc'[d] # "connecting"
    BY <1>1, <2>1 DEF Settle, Waiters, TablesAgree
  <2>5. TablesAgree' /\ Attempts'
    BY <1>1, <2>1, <2>2, <2>4 DEF TypeOK, TablesAgree, Attempts
  <2>6. Requests'
    BY <1>1, <2>1, <2>2, SettleKeepsRequests
  <2> QED BY <2>3, <2>5, <2>6 DEF IInv
<1> QED BY <1>3, <1>4, <1>5

\* A tool call with its request sent.
LEMMA CallIInv ==
    ASSUME IInv, NEW c \in Calls,
           \/ Answered(c) \/ SessionExpired(c) \/ RetriesSession(c)
           \/ CallFails(c) \/ ThrowsAfterDisconnect(c)
    PROVE  IInv'
<1>1. /\ TypeOK /\ TablesAgree /\ Attempts /\ Requests
      /\ None \notin Conns /\ Static \notin Conns /\ None # Static
      /\ c \in Callers /\ {c} \in SUBSET Callers
  BY McpAssumption DEF IInv, Callers
<1>2. \A d \in Calls : d \in Callers /\ sent[d] \subseteq Conns
  BY <1>1 DEF TypeOK, Callers
\* The call ends, and the tables stay.
<1>3. ASSUME Settle({c}), errors' \in 0..MaxErrors,
             UNCHANGED <<conn, entry, connecting, coolingDown, toolsCache>>
      PROVE  IInv'
  <2>1. TypeOK'
    BY <1>1, <1>3, SettleFacts DEF TypeOK
  <2>2. \A d \in Callers : pc'[d] = "connecting" => /\ pc[d] = "connecting"
                                                   /\ on'[d] = on[d]
    BY <1>3 DEF Settle
  <2>3. TablesAgree' /\ Attempts'
    BY <1>1, <1>3, <2>2 DEF TablesAgree, Attempts
  <2>4. Requests'
    BY <1>1, <1>3, SettleKeepsRequests
  <2> QED BY <2>1, <2>3, <2>4 DEF IInv
\* The call waits for a disconnect of whatever is in the table.
<1>4. ASSUME pc[c] = "calling", DropEntry, errors' \in 0..MaxErrors,
             NEW q \in {"disconnecting", "givingUp"},
             q = "disconnecting" => retries[c] < MaxRetries,
             pc' = [pc EXCEPT ![c] = q],
             UNCHANGED <<connecting, coolingDown, on, retries, sent>>
      PROVE  IInv'
  <2>1. /\ entry' = None /\ toolsCache' \in {None, Static}
        /\ conn' \in [Conns -> {"unused", "opening", "abandoned", "open",
                                "closing", "gone"}]
        /\ \A k \in Conns : \/ conn'[k] = conn[k]
                            \/ conn[k] = "open" /\ conn'[k] = "closing"
    BY <1>1, <1>4, DropEntryFacts
  <2>2. TypeOK'
    BY <1>1, <1>4, <2>1 DEF TypeOK
  <2>3. \A d \in Callers : /\ pc'[d] = IF d = c THEN q ELSE pc[d]
                           /\ on'[d] = on[d]
    BY <1>1, <1>4 DEF TypeOK
  <2>4. TablesAgree' /\ Attempts'
    <3>1. \A k \in Conns : conn'[k] = "opening" => connecting' = k
      BY <1>1, <1>4, <2>1 DEF TablesAgree
    <3>2. \A d \in Callers : pc'[d] = "connecting" =>
             connecting' = on'[d] /\ on'[d] \in Conns
      BY <1>1, <1>4, <2>3 DEF TablesAgree, Attempts
    <3> QED BY <1>1, <2>1, <3>1, <3>2 DEF TablesAgree, Attempts
  <2>5. Requests'
    BY <1>1, <1>2, <1>4, <2>1, <2>3 DEF Requests
  <2> QED BY <2>2, <2>4, <2>5 DEF IInv
<1>5. CASE Answered(c)
  <2>1. 0 \in 0..MaxErrors
    BY McpAssumption
  <2> QED BY <1>3, <1>5, <2>1 DEF Answered
<1>6. CASE SessionExpired(c)
  BY <1>1, <1>4, <1>6 DEF SessionExpired, TypeOK
<1>7. CASE RetriesSession(c)
  <2>1. /\ pc[c] = "disconnecting" /\ errors' = 0
        /\ retries' = [retries EXCEPT ![c] = @ + 1]
        /\ pc' = [pc EXCEPT ![c] = "ready"]
        /\ UNCHANGED <<conn, entry, connecting, coolingDown, toolsCache, on, sent>>
    BY <1>7 DEF RetriesSession
  <2>2. retries[c] \in Nat /\ retries[c] < MaxRetries
    BY <1>1, <2>1, McpAssumption DEF TypeOK, Requests
  <2>3. TypeOK'
    <3>1. retries[c] + 1 \in 0..MaxRetries /\ 0 \in 0..MaxErrors
      BY <2>2, McpAssumption
    <3> QED BY <1>1, <2>1, <3>1 DEF TypeOK
  <2>4. \A d \in Callers :
           /\ pc'[d] = IF d = c THEN "ready" ELSE pc[d]
           /\ retries'[d] = IF d = c THEN retries[d] + 1 ELSE retries[d]
    BY <1>1, <2>1 DEF TypeOK
  <2>5. TablesAgree' /\ Attempts'
    BY <1>1, <2>1, <2>4 DEF TablesAgree, Attempts
  <2>6. Requests'
    <3>1. Cardinality(sent[c]) <= retries[c] + 1
      BY <1>1, <2>1 DEF Requests
    <3> QED BY <1>1, <1>2, <2>1, <2>2, <2>4, <3>1 DEF Requests
  <2> QED BY <2>3, <2>5, <2>6 DEF IInv
<1>8. CASE CallFails(c)
  <2>1. PICK terminal \in BOOLEAN :
             /\ errors' = Counted(terminal)
             /\ IF Counted(terminal) = MaxErrors
                THEN /\ DropEntry
                     /\ pc' = [pc EXCEPT ![c] = "givingUp"]
                     /\ UNCHANGED <<on, retries, sent>>
                ELSE Settle({c}) /\ UNCHANGED <<conn, entry, toolsCache>>
    BY <1>8 DEF CallFails
  <2>2. errors' \in 0..MaxErrors
    BY <1>1, <2>1, CountedBound
  <2>3. pc[c] = "calling" /\ UNCHANGED <<connecting, coolingDown>>
    BY <1>8 DEF CallFails
  <2> QED BY <1>3, <1>4, <2>1, <2>2, <2>3
<1>9. CASE ThrowsAfterDisconnect(c)
  BY <1>1, <1>3, <1>9 DEF ThrowsAfterDisconnect, tables, TypeOK
<1> QED BY <1>5, <1>6, <1>7, <1>8, <1>9

\* A connection ends: whatever is pending on it is rejected.
LEMMA TransportIInv ==
    ASSUME IInv, NEW k \in Conns, TransportCloses(k) \/ TransportError(k)
    PROVE  IInv'
<1>1. /\ TypeOK /\ TablesAgree /\ Attempts /\ Requests
      /\ None \notin Conns /\ Static \notin Conns /\ None # Static
  BY McpAssumption DEF IInv
<1>2. \A d \in Calls : d \in Callers /\ sent[d] \subseteq Conns
  BY <1>1 DEF TypeOK, Callers
<1>3. CASE TransportCloses(k)
  <2>1. /\ conn[k] \in {"open", "closing"}
        /\ conn' = [conn EXCEPT ![k] = "gone"]
        /\ entry' = None /\ toolsCache' = None /\ errors' = 0
        /\ RejectPending(k)
        /\ UNCHANGED <<connecting, coolingDown>>
    BY <1>3 DEF TransportCloses, OnClose
  <2>2. /\ pc' \in [Callers -> {"ready", "connecting", "calling",
                                "disconnecting", "givingUp", "ended"}]
        /\ on' \in [Callers -> Conns \cup {None}]
        /\ retries' \in [Callers -> 0..MaxRetries]
        /\ sent' \in [Callers -> SUBSET Conns]
    BY <1>1, <2>1, RejectPendingFacts
  <2>3. \A c \in Callers :
           \/ /\ pc'[c] = pc[c] /\ on'[c] = on[c]
              /\ retries'[c] = retries[c] /\ sent'[c] = sent[c]
           \/ /\ pc[c] = "calling" /\ pc'[c] = "ready"
              /\ retries'[c] = retries[c] + 1 /\ sent'[c] = sent[c]
           \/ /\ pc'[c] = "ended" /\ retries'[c] = 0 /\ sent'[c] = {}
    BY <1>1, <2>1, RejectPendingFacts
  <2>4. \A j \in Conns : /\ j # k => conn'[j] = conn[j]
                         /\ j = k => conn'[j] = "gone"
    BY <1>1, <2>1 DEF TypeOK
  <2>5. TypeOK'
    <3>1. 0 \in 0..MaxErrors
      BY McpAssumption
    <3> QED BY <1>1, <2>1, <2>2, <3>1 DEF TypeOK
  <2>6. TablesAgree' /\ Attempts'
    <3>1. \A j \in Conns : conn'[j] = "opening" => connecting' = j
      BY <1>1, <2>1, <2>4 DEF TablesAgree
    <3>2. \A d \in Callers : pc'[d] = "connecting" =>
             connecting' = on'[d] /\ on'[d] \in Conns
      BY <1>1, <2>1, <2>3 DEF TablesAgree, Attempts
    <3> QED BY <1>1, <2>1, <3>1, <3>2 DEF TablesAgree, Attempts
  <2>7. SUFFICES ASSUME NEW c \in Calls
                 PROVE  /\ pc'[c] = "disconnecting" => retries'[c] < MaxRetries
                        /\ IsFiniteSet(sent'[c])
                        /\ Cardinality(sent'[c]) <= retries'[c] +
                             IF pc'[c] \in {"calling", "disconnecting", "givingUp"}
                             THEN 1 ELSE 0
                        /\ \A j \in sent'[c] : conn'[j] \in {"open", "closing", "gone"}
                        /\ entry' \in sent'[c] => pc'[c] = "calling"
    BY <2>5, <2>6 DEF IInv, Requests
  <2>8. \A j \in sent[c] : conn'[j] \in {"open", "closing", "gone"}
    BY <1>1, <1>2, <2>4 DEF Requests
  <2>9. entry' \notin sent[c]
    BY <1>1, <1>2, <2>1
  <2>10. CASE /\ pc'[c] = pc[c] /\ retries'[c] = retries[c] /\ sent'[c] = sent[c]
    BY <1>1, <2>8, <2>9, <2>10 DEF Requests
  <2>11. CASE /\ pc[c] = "calling" /\ pc'[c] = "ready"
              /\ retries'[c] = retries[c] + 1 /\ sent'[c] = sent[c]
    <3>1. retries[c] \in Nat
      BY <1>1, <1>2, McpAssumption DEF TypeOK
    <3>2. IsFiniteSet(sent[c]) /\ Cardinality(sent[c]) <= retries[c] + 1
      BY <1>1, <2>11 DEF Requests
    <3> QED BY <2>8, <2>9, <2>11, <3>1, <3>2
  <2>12. CASE pc'[c] = "ended" /\ retries'[c] = 0 /\ sent'[c] = {}
    BY <2>12, FS_EmptySet
  <2> QED BY <1>2, <2>3, <2>10, <2>11, <2>12
<1>4. CASE TransportError(k)
  <2>1. /\ \E terminal \in BOOLEAN : errors' = Counted(terminal)
        /\ UNCHANGED <<conn, entry, connecting, coolingDown, toolsCache, callers>>
    BY <1>4 DEF TransportError
  <2>2. errors' \in 0..MaxErrors
    BY <1>1, <2>1, CountedBound
  <2>3. TypeOK' /\ TablesAgree' /\ Attempts'
    BY <1>1, <2>1, <2>2 DEF TypeOK, TablesAgree, Attempts, callers
  <2>4. Requests'
    BY <2>1, FrameKeepsRequests
  <2> QED BY <2>3, <2>4 DEF IInv
<1> QED BY <1>3, <1>4

\* The timer, the settings page and the tool table.
LEMMA OthersIInv ==
    ASSUME IInv, CooledDown \/ UserDisconnects \/ GetTools
    PROVE  IInv'
<1>1. /\ TypeOK /\ TablesAgree /\ Attempts /\ Requests
      /\ None \notin Conns /\ Static \notin Conns /\ None # Static
  BY McpAssumption DEF IInv
<1>2. CASE CooledDown
  <2>1. TypeOK' /\ TablesAgree' /\ Attempts'
    BY <1>1, <1>2 DEF CooledDown, TypeOK, TablesAgree, Attempts, callers
  <2>2. Requests'
    BY <1>2, FrameKeepsRequests DEF CooledDown
  <2> QED BY <2>1, <2>2 DEF IInv
<1>3. CASE UserDisconnects
  <2>1. DropEntry /\ UNCHANGED <<connecting, coolingDown, errors, callers>>
    BY <1>3 DEF UserDisconnects
  <2>2. /\ entry' = None /\ toolsCache' \in {None, Static}
        /\ conn' \in [Conns -> {"unused", "opening", "abandoned", "open",
                                "closing", "gone"}]
        /\ \A k \in Conns : \/ conn'[k] = conn[k]
                            \/ conn[k] = "open" /\ conn'[k] = "closing"
    BY <1>1, <2>1, DropEntryFacts
  <2>3. TypeOK' /\ TablesAgree' /\ Attempts'
    BY <1>1, <2>1, <2>2 DEF TypeOK, TablesAgree, Attempts, callers
  <2>4. Requests'
    BY <2>1, <2>2, FrameKeepsRequests
  <2> QED BY <2>3, <2>4 DEF IInv
<1>4. CASE GetTools
  <2>1. TypeOK' /\ TablesAgree' /\ Attempts'
    BY <1>1, <1>4 DEF GetTools, TypeOK, TablesAgree, Attempts, callers
  <2>2. Requests'
    BY <1>4, FrameKeepsRequests DEF GetTools
  <2> QED BY <2>1, <2>2 DEF IInv
<1> QED BY <1>2, <1>3, <1>4

LEMMA StepIInv == IInv /\ [Next]_vars => IInv'
<1> SUFFICES ASSUME IInv, [Next]_vars PROVE IInv'
  OBVIOUS
<1>1. ASSUME NEW c \in Callers, EnsureConnected(c) PROVE IInv'
  BY <1>1, EnsureConnectedIInv
<1>2. ASSUME NEW c \in Calls,
             \/ Answered(c) \/ SessionExpired(c) \/ RetriesSession(c)
             \/ CallFails(c) \/ ThrowsAfterDisconnect(c)
      PROVE  IInv'
  BY <1>2, CallIInv
<1>3. ASSUME NEW k \in Conns, Opened(k) \/ OpenFails(k) \/ GivesUp(k)
      PROVE  IInv'
  BY <1>3, AttemptIInv
<1>4. ASSUME NEW k \in Conns, TransportCloses(k) \/ TransportError(k)
      PROVE  IInv'
  BY <1>4, TransportIInv
<1>5. CASE CooledDown \/ UserDisconnects \/ GetTools
  BY <1>5, OthersIInv
<1>6. CASE UNCHANGED vars
  BY <1>6 DEF IInv, TypeOK, TablesAgree, Attempts, Requests, vars, tables, callers
<1> QED BY <1>1, <1>2, <1>3, <1>4, <1>5, <1>6 DEF Next

LEMMA AlwaysIInv == Spec => []IInv
BY InitIInv, StepIInv, PTL DEF Spec

-----------------------------------------------------------------------------
(* The theorems.                                                           *)

\* The counters stay within the limits the manager is built with, and every
\* reference to a connection is to one that was made.
THEOREM TypeCorrect == Spec => []TypeOK
<1>1. IInv => TypeOK
  BY DEF IInv
<1> QED BY AlwaysIInv, <1>1, PTL

\* However the calls, the user and the server interleave, one connection is
\* being made at most, those who wait, wait for that one, the connection in the
\* table is open, and the cached list belongs to it.
THEOREM TablesAgreeAlways == Spec => []TablesAgree
<1>1. IInv => TablesAgree
  BY DEF IInv
<1> QED BY AlwaysIInv, <1>1, PTL

\* A call is sent again only over a connection it has not used, and over
\* MaxRetries + 1 connections at most.
THEOREM SentAgainAlways == Spec => SentAgainElsewhere
<1> DEFINE A == \A c \in Calls :
                   /\ pc[c] # "calling" /\ pc'[c] = "calling"
                   => sent'[c] # sent[c] /\ Cardinality(sent'[c]) <= MaxRetries + 1
<1>1. IInv /\ IInv' /\ [Next]_vars => [A]_vars
  <2> SUFFICES ASSUME IInv, IInv', [Next]_vars, NEW c \in Calls,
                      pc[c] # "calling", pc'[c] = "calling"
               PROVE  sent'[c] # sent[c] /\ Cardinality(sent'[c]) <= MaxRetries + 1
    OBVIOUS
  <2>1. /\ TypeOK /\ TablesAgree /\ Attempts /\ Requests /\ c \in Callers
        /\ TypeOK' /\ Requests'
    BY DEF IInv, Callers
  <2>2. Cardinality(sent'[c]) <= MaxRetries + 1
    <3>1. /\ Cardinality(sent'[c]) <= retries'[c] + 1
          /\ IsFiniteSet(sent'[c])
          /\ retries'[c] \in 0..MaxRetries
      BY <2>1 DEF Requests, TypeOK
    <3>2. Cardinality(sent'[c]) \in Nat
      BY <3>1, FS_CardinalityType
    <3> QED BY <3>1, <3>2, McpAssumption
  \* Only those who are given a connection start to call.
  <2>3. ASSUME NEW S, NEW k \in Conns, Proceed(S, k), k \notin sent[c]
        PROVE  sent'[c] # sent[c]
    <3>1. c # User
      BY McpAssumption
    <3> QED BY <2>1, <2>3, <3>1 DEF Proceed, TypeOK
  <2>4. ASSUME NEW d \in Callers, EnsureConnected(d)
        PROVE  sent'[c] # sent[c]
    <3>1. CASE UseEntry(d)
      <4>1. entry \in Conns /\ entry \notin sent[c] /\ Proceed({d}, entry)
        BY <2>1, <3>1 DEF UseEntry, TypeOK, Requests
      <4> QED BY <2>3, <4>1
    <3>2. CASE JoinAttempt(d) \/ BeginAttempt(d)
      BY <2>1, <3>2 DEF JoinAttempt, BeginAttempt, Await, TypeOK
    <3>3. CASE RefuseWhileCooling(d)
      BY <2>1, <3>3 DEF RefuseWhileCooling, Settle, TypeOK
    <3> QED BY <2>4, <3>1, <3>2, <3>3 DEF EnsureConnected
  <2>5. ASSUME NEW d \in Calls,
               \/ Answered(d) \/ SessionExpired(d) \/ RetriesSession(d)
               \/ CallFails(d) \/ ThrowsAfterDisconnect(d)
        PROVE  FALSE
    BY <2>1, <2>5 DEF Answered, SessionExpired, RetriesSession, CallFails,
                      ThrowsAfterDisconnect, Settle, TypeOK
  <2>6. ASSUME NEW k \in Conns,
               \/ Opened(k) \/ OpenFails(k) \/ GivesUp(k)
               \/ TransportCloses(k) \/ TransportError(k)
        PROVE  sent'[c] # sent[c]
    <3>1. CASE Opened(k)
      <4>1. k \notin sent[c] /\ Proceed(Waiters(k), k)
        BY <2>1, <3>1 DEF Opened, Requests
      <4> QED BY <2>3, <4>1
    <3>2. CASE OpenFails(k) \/ TransportError(k)
      BY <3>2 DEF OpenFails, TransportError, callers
    <3>3. CASE GivesUp(k)
      BY <2>1, <3>3 DEF GivesUp, Rejected, Settle, TypeOK
    <3>4. CASE TransportCloses(k)
      <4>1. RejectPending(k)
        BY <3>4 DEF TransportCloses, OnClose
      <4>2. pc'[c] = pc[c] \/ pc'[c] \in {"ready", "ended"}
        BY <2>1, <4>1, RejectPendingFacts
      <4> QED BY <4>2
    <3> QED BY <2>6, <3>1, <3>2, <3>3, <3>4
  <2>7. CASE CooledDown \/ UserDisconnects \/ GetTools \/ UNCHANGED vars
    BY <2>7 DEF CooledDown, UserDisconnects, GetTools, vars, callers
  <2>8. sent'[c] # sent[c]
    BY <2>4, <2>5, <2>6, <2>7 DEF Next
  <2> QED BY <2>2, <2>8
<1>2. Spec => [][A]_vars
  BY AlwaysIInv, <1>1, PTL DEF Spec
<1> QED BY <1>2 DEF SentAgainElsewhere
=============================================================================
