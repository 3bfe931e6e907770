-------------------------- MODULE WriteLocks_proofs --------------------------
(***************************************************************************)
(* Proofs about WriteLocks, for any number of calls and files, whatever    *)
(* agent ids the calls use: the lock table (IInv), and on top of it the    *)
(* promise chains (Chains).                                                *)
(***************************************************************************)
EXTENDS WriteLocks, TLAPS

Pcs == {"idle", "acquiring", "waiting", "reading", "chained", "writing", "done"}

\* TypeOK, without the promise chain.
Typed ==
    /\ kind \in [Writers -> Kinds]
    /\ pc \in [Writers -> Pcs]
    /\ acquired \in [Writers -> SUBSET Files]
    /\ owner \in [Files -> Writers \cup {NoWriter}]
    /\ expired \subseteq Files
    /\ waitQueues \in [Files -> Seq(Writers)]
    /\ overdue \subseteq Writers

\* A call is in one queue once, and waits there for the least of the files it
\* still lacks.
Queued ==
    /\ \A f \in Files : \A i \in 1..Len(waitQueues[f]) :
          /\ pc[waitQueues[f][i]] = "waiting"
          /\ Target(waitQueues[f][i], f)
    /\ \A f, g \in Files :
          \A i \in 1..Len(waitQueues[f]), j \in 1..Len(waitQueues[g]) :
              waitQueues[f][i] = waitQueues[g][j] => f = g /\ i = j

\* An entry is that of a call at work, which counts it among its own; files
\* are waited for only while they have one; and one that has expired has put
\* its owner among those who have exceeded their time.
Entries ==
    \A f \in Files :
        /\ owner[f] # NoWriter => /\ f \in acquired[owner[f]]
                                  /\ pc[owner[f]] \notin {"idle", "done"}
        /\ waitQueues[f] # <<>> => owner[f] # NoWriter
        /\ f \in expired => owner[f] # NoWriter /\ owner[f] \in overdue

\* The files of a call are acquired in their order.
Sorted ==
    \A w \in Writers :
        /\ acquired[w] \subseteq kind[w].targets
        /\ \A a \in acquired[w], r \in Remaining(w) : a < r
        /\ pc[w] = "idle" => acquired[w] = {}
        /\ pc[w] \in {"reading", "chained", "writing"} => Remaining(w) = {}

\* Who has lost an entry has exceeded its time, or shares its agent id with a
\* call that has.
Robbed ==
    \A w \in Writers : \A f \in acquired[w] :
        pc[w] # "done" /\ owner[f] # w => \E u \in overdue : AgentOf[u] = AgentOf[w]

IInv == Typed /\ Queued /\ Entries /\ Sorted /\ Robbed

-----------------------------------------------------------------------------
(* Helpers.                                                                *)

LEMMA KindFacts ==
    ASSUME Typed, NEW w \in Writers
    PROVE  /\ kind[w].targets \subseteq Files
           /\ Remaining(w) \subseteq Files
           /\ Files \subseteq Int
BY LockAssumption DEF Typed, Remaining

LEMMA TailFacts ==
    ASSUME NEW S, NEW q \in Seq(S), q # <<>>
    PROVE  /\ Head(q) \in S /\ Head(q) = q[1] /\ 1 \in 1..Len(q)
           /\ Tail(q) \in Seq(S)
           /\ \A i \in 1..Len(Tail(q)) :
                 i + 1 \in 1..Len(q) /\ Tail(q)[i] = q[i + 1]
OBVIOUS

\* What Free does to one file.
FileFreed(f, S, queues) ==
    \/ f \notin S /\ owner'[f] = owner[f] /\ waitQueues'[f] = queues[f]
    \/ /\ f \in S /\ queues[f] = <<>>
       /\ owner'[f] = NoWriter /\ waitQueues'[f] = <<>>
    \/ /\ f \in S /\ queues[f] # <<>>
       /\ owner'[f] = Head(queues[f]) /\ owner'[f] \in Writers
       /\ waitQueues'[f] = Tail(queues[f])

\* What Free does to one call.
CallFreed(w, S, queues, pcs) ==
    \/ /\ acquired'[w] = acquired[w] /\ pc'[w] = pcs[w]
       /\ \A f \in S : queues[f] # <<>> => Head(queues[f]) # w
    \/ /\ \E f \in S : queues[f] # <<>> /\ Head(queues[f]) = w
       /\ pc'[w] = "acquiring"
       /\ acquired'[w] = acquired[w] \cup
             {f \in S : queues[f] # <<>> /\ Head(queues[f]) = w}

LEMMA FreeFacts ==
    ASSUME Typed, NEW S \in SUBSET Files, NEW queues \in [Files -> Seq(Writers)],
           NEW pcs \in [Writers -> Pcs], Free(S, queues, pcs)
    PROVE  /\ pc' \in [Writers -> Pcs]
           /\ acquired' \in [Writers -> SUBSET Files]
           /\ owner' \in [Files -> Writers \cup {NoWriter}]
           /\ waitQueues' \in [Files -> Seq(Writers)]
           /\ expired' = expired \ S
           /\ \A f \in Files : FileFreed(f, S, queues)
           /\ \A w \in Writers : CallFreed(w, S, queues, pcs)
<1> DEFINE passed == {f \in S : queues[f] # <<>>}
           lucky(w) == {f \in passed : Head(queues[f]) = w}
<1>1. /\ owner' = [f \in Files |->
                      IF f \in passed THEN Head(queues[f])
                      ELSE IF f \in S THEN NoWriter ELSE owner[f]]
      /\ expired' = expired \ S
      /\ waitQueues' = [f \in Files |-> IF f \in passed THEN Tail(queues[f])
                                        ELSE queues[f]]
      /\ acquired' = [w \in Writers |-> acquired[w] \cup lucky(w)]
      /\ pc' = [w \in Writers |-> IF lucky(w) # {} THEN "acquiring" ELSE pcs[w]]
  BY DEF Free
<1>2. \A f \in passed : Head(queues[f]) \in Writers /\ Tail(queues[f]) \in Seq(Writers)
  BY TailFacts
<1>3. /\ pc' \in [Writers -> Pcs]
      /\ acquired' \in [Writers -> SUBSET Files]
  BY <1>1 DEF Typed, Pcs
<1>4. /\ owner' \in [Files -> Writers \cup {NoWriter}]
      /\ waitQueues' \in [Files -> Seq(Writers)]
  BY <1>1, <1>2 DEF Typed
<1>5. \A f \in Files : FileFreed(f, S, queues)
  BY <1>1, <1>2 DEF FileFreed
<1>6. ASSUME NEW w \in Writers
      PROVE  CallFreed(w, S, queues, pcs)
  <2>1. lucky(w) = {f \in S : queues[f] # <<>> /\ Head(queues[f]) = w}
    OBVIOUS
  <2> HIDE DEF lucky
  <2>2. CASE lucky(w) = {}
    BY <1>1, <2>1, <2>2 DEF CallFreed
  <2>3. CASE lucky(w) # {}
    BY <1>1, <2>1, <2>3 DEF CallFreed
  <2> QED BY <2>2, <2>3
<1> QED BY <1>1, <1>3, <1>4, <1>5, <1>6

\* Who waits in `queues', the queues when some call may have stopped to wait.
StillQueued(queues, pcs) ==
    /\ \A f \in Files : \A i \in 1..Len(queues[f]) :
          /\ pc[queues[f][i]] = "waiting" /\ pcs[queues[f][i]] = "waiting"
          /\ Target(queues[f][i], f)
    /\ \A f, g \in Files :
          \A i \in 1..Len(queues[f]), j \in 1..Len(queues[g]) :
              queues[f][i] = queues[g][j] => f = g /\ i = j
    /\ \A f \in Files : queues[f] # <<>> => owner[f] # NoWriter

\* A call that has returned, by `pcs', has all its entries among those freed, and
\* another call's entry is freed only when somebody with its agent id has
\* exceeded its time.
Freeable(S, pcs) ==
    /\ \A w \in Writers : pcs[w] # pc[w] =>
          pcs[w] = "done" /\ \A f \in Files : owner[f] = w => f \in S
    /\ \A f \in S : owner[f] # NoWriter /\ pcs[owner[f]] # "done" =>
          \E u \in overdue : AgentOf[u] = AgentOf[owner[f]]

\* Entries are freed and passed on.
LEMMA FreeIInv ==
    ASSUME IInv, NEW S \in SUBSET Files, NEW queues \in [Files -> Seq(Writers)],
           NEW pcs \in [Writers -> Pcs], Free(S, queues, pcs),
           UNCHANGED <<kind, overdue>>,
           StillQueued(queues, pcs), Freeable(S, pcs)
    PROVE  IInv'
<1>1. Typed /\ Queued /\ Entries /\ Sorted /\ Robbed
  BY DEF IInv
<1>2. /\ pc' \in [Writers -> Pcs]
      /\ acquired' \in [Writers -> SUBSET Files]
      /\ owner' \in [Files -> Writers \cup {NoWriter}]
      /\ waitQueues' \in [Files -> Seq(Writers)]
      /\ expired' = expired \ S
  BY <1>1, FreeFacts
<1>3. \A f \in Files : FileFreed(f, S, queues)
  BY <1>1, FreeFacts
<1>4. \A w \in Writers : CallFreed(w, S, queues, pcs)
  BY <1>1, FreeFacts
<1>5. Typed'
  BY <1>1, <1>2 DEF Typed
\* Whoever still waits was in the queue, behind whoever has been let in.
<1>6. \A f \in Files : \A i \in 1..Len(waitQueues'[f]) :
         \E j \in 1..Len(queues[f]) :
             /\ waitQueues'[f][i] = queues[f][j]
             /\ f \in S => j = i + 1
             /\ f \notin S => j = i
  <2> SUFFICES ASSUME NEW f \in Files, NEW i \in 1..Len(waitQueues'[f])
               PROVE  \E j \in 1..Len(queues[f]) :
                          /\ waitQueues'[f][i] = queues[f][j]
                          /\ f \in S => j = i + 1
                          /\ f \notin S => j = i
    OBVIOUS
  <2>1. CASE f \notin S
    BY <1>3, <2>1 DEF FileFreed
  <2>2. CASE f \in S /\ queues[f] = <<>>
    BY <1>3, <2>2 DEF FileFreed
  <2>3. CASE f \in S /\ queues[f] # <<>>
    BY <1>3, <2>3, TailFacts DEF FileFreed
  <2> QED BY <2>1, <2>2, <2>3
<1>7. \A f \in Files : queues[f] # <<>> =>
         1 \in 1..Len(queues[f]) /\ Head(queues[f]) = queues[f][1]
  BY TailFacts
<1>8. Queued'
  <2>1. ASSUME NEW f \in Files, NEW i \in 1..Len(waitQueues'[f])
        PROVE  (pc[waitQueues[f][i]] = "waiting" /\ Target(waitQueues[f][i], f))'
    <3>1. PICK j \in 1..Len(queues[f]) :
              /\ waitQueues'[f][i] = queues[f][j]
              /\ f \in S => j = i + 1
              /\ f \notin S => j = i
      BY <1>6
    <3> DEFINE v == queues[f][j]
    <3>2. v \in Writers
      BY <3>1
    <3>3. \A g \in S : queues[g] # <<>> => Head(queues[g]) # v
      <4> SUFFICES ASSUME NEW g \in S, queues[g] # <<>>, Head(queues[g]) = v
                   PROVE  FALSE
        OBVIOUS
      <4>1. 1 \in 1..Len(queues[g]) /\ queues[g][1] = queues[f][j]
        BY <1>7
      <4>2. g = f /\ 1 = j
        BY <4>1 DEF StillQueued
      <4> QED BY <3>1, <4>2
    <3>4. pcs[v] = "waiting" /\ Target(v, f)
      BY <3>1 DEF StillQueued
    <3> HIDE DEF v
    <3>5. acquired'[v] = acquired[v] /\ pc'[v] = pcs[v]
      BY <1>4, <3>2, <3>3 DEF CallFreed
    <3>6. waitQueues'[f][i] = v
      BY <3>1 DEF v
    <3> QED BY <3>4, <3>5, <3>6 DEF Target, Remaining
  <2>2. ASSUME NEW f \in Files, NEW g \in Files,
               NEW i \in 1..Len(waitQueues'[f]), NEW j \in 1..Len(waitQueues'[g]),
               waitQueues'[f][i] = waitQueues'[g][j]
        PROVE  f = g /\ i = j
    <3>1. PICK k \in 1..Len(queues[f]) :
              /\ waitQueues'[f][i] = queues[f][k]
              /\ f \in S => k = i + 1
              /\ f \notin S => k = i
      BY <1>6
    <3>2. PICK l \in 1..Len(queues[g]) :
              /\ waitQueues'[g][j] = queues[g][l]
              /\ g \in S => l = j + 1
              /\ g \notin S => l = j
      BY <1>6
    <3>3. f = g /\ k = l
      <4>1. queues[f][k] = queues[g][l]
        BY <2>2, <3>1, <3>2
      <4>2. \A a, b \in Files :
               \A m \in 1..Len(queues[a]), n \in 1..Len(queues[b]) :
                   queues[a][m] = queues[b][n] => a = b /\ m = n
        BY DEF StillQueued
      <4> QED BY <4>1, <4>2
    <3> QED BY <3>1, <3>2, <3>3
  <2>3. \A f \in Files : \A i \in 1..Len(waitQueues'[f]) :
           (pc[waitQueues[f][i]] = "waiting" /\ Target(waitQueues[f][i], f))'
    BY <2>1
  <2>4. \A f, g \in Files :
           \A i \in 1..Len(waitQueues'[f]), j \in 1..Len(waitQueues'[g]) :
               waitQueues'[f][i] = waitQueues'[g][j] => f = g /\ i = j
    BY <2>2
  <2> QED BY <2>3, <2>4 DEF Queued
\* Whoever is let in was waiting for that file alone.
<1>9. ASSUME NEW w \in Writers, NEW f \in S, queues[f] # <<>>, Head(queues[f]) = w
      PROVE  /\ acquired'[w] = acquired[w] \cup {f} /\ pc'[w] = "acquiring"
             /\ pc[w] = "waiting" /\ pcs[w] = "waiting" /\ Target(w, f)
  <2>1. \A g \in S : queues[g] # <<>> /\ Head(queues[g]) = w => g = f
    BY <1>7, <1>9 DEF StillQueued
  <2>2. {g \in S : queues[g] # <<>> /\ Head(queues[g]) = w} = {f}
    BY <1>9, <2>1
  <2>3. pc[w] = "waiting" /\ pcs[w] = "waiting" /\ Target(w, f)
    BY <1>7, <1>9 DEF StillQueued
  <2> QED BY <1>4, <1>9, <2>2, <2>3 DEF CallFreed
<1>10. \A w \in Writers :
          \/ acquired'[w] = acquired[w] /\ pc'[w] = pcs[w]
          \/ \E f \in S : /\ acquired'[w] = acquired[w] \cup {f}
                          /\ pc'[w] = "acquiring" /\ owner'[f] = w
                          /\ pc[w] = "waiting" /\ pcs[w] = "waiting" /\ Target(w, f)
  BY <1>3, <1>4, <1>9 DEF FileFreed, CallFreed
<1>11. Entries'
  <2> SUFFICES ASSUME NEW f \in Files
               PROVE  /\ owner'[f] # NoWriter =>
                            /\ f \in acquired'[owner'[f]]
                            /\ pc'[owner'[f]] \notin {"idle", "done"}
                      /\ waitQueues'[f] # <<>> => owner'[f] # NoWriter
                      /\ f \in expired' => owner'[f] # NoWriter /\ owner'[f] \in overdue
    BY DEF Entries
  <2>1. CASE f \notin S
    <3>1. owner'[f] = owner[f] /\ waitQueues'[f] = queues[f] /\ (f \in expired' => f \in expired)
      BY <1>2, <1>3, <2>1 DEF FileFreed
    <3>2. ASSUME owner[f] # NoWriter
          PROVE  /\ f \in acquired'[owner[f]]
                 /\ pc'[owner[f]] \notin {"idle", "done"}
      <4>1. owner[f] \in Writers /\ f \in acquired[owner[f]]
            /\ pc[owner[f]] \notin {"idle", "done"}
        BY <1>1, <3>2 DEF Typed, Entries
      <4>2. pcs[owner[f]] = pc[owner[f]]
        BY <2>1, <4>1 DEF Freeable
      <4> QED BY <1>10, <4>1, <4>2
    <3>3. waitQueues'[f] # <<>> => owner[f] # NoWriter
      BY <3>1 DEF StillQueued
    <3> QED BY <1>1, <3>1, <3>2, <3>3 DEF Entries
  <2>2. CASE f \in S /\ queues[f] = <<>>
    BY <1>2, <1>3, <2>2 DEF FileFreed
  <2>3. CASE f \in S /\ queues[f] # <<>>
    <3>1. owner'[f] = Head(queues[f]) /\ owner'[f] \in Writers /\ f \notin expired'
      BY <1>2, <1>3, <2>3 DEF FileFreed
    <3>2. f \in acquired'[owner'[f]] /\ pc'[owner'[f]] = "acquiring"
      BY <1>9, <2>3, <3>1
    <3> QED BY <3>1, <3>2, LockAssumption
  <2> QED BY <2>1, <2>2, <2>3
<1>12. Sorted'
  <2> SUFFICES ASSUME NEW w \in Writers
               PROVE  /\ acquired'[w] \subseteq kind[w].targets
                      /\ \A a \in acquired'[w], r \in Remaining(w)' : a < r
                      /\ pc'[w] = "idle" => acquired'[w] = {}
                      /\ pc'[w] \in {"reading", "chained", "writing"} =>
                            Remaining(w)' = {}
    BY DEF Sorted
  <2>1. CASE acquired'[w] = acquired[w] /\ pc'[w] = pcs[w]
    <3>1. Remaining(w)' = Remaining(w)
      BY <2>1 DEF Remaining
    <3>2. pcs[w] = pc[w] \/ pcs[w] = "done"
      BY DEF Freeable
    <3> QED BY <1>1, <2>1, <3>1, <3>2 DEF Sorted
  <2>2. ASSUME NEW f \in S, acquired'[w] = acquired[w] \cup {f},
               pc'[w] = "acquiring", Target(w, f)
        PROVE  /\ acquired'[w] \subseteq kind[w].targets
               /\ \A a \in acquired'[w], r \in Remaining(w)' : a < r
    <3>1. f \in Remaining(w) /\ \A g \in Remaining(w) : f <= g
      BY <2>2 DEF Target
    <3>2. Remaining(w)' = Remaining(w) \ {f}
      BY <2>2 DEF Remaining
    <3>3. Remaining(w) \subseteq Int
      BY <1>1, KindFacts
    <3>4. \A r \in Remaining(w) \ {f} : f < r
      BY <3>1, <3>3
    <3>5. \A a \in acquired[w], r \in Remaining(w) : a < r
      BY <1>1 DEF Sorted
    <3>6. acquired'[w] \subseteq kind[w].targets
      BY <1>1, <2>2, <3>1 DEF Sorted, Remaining
    <3> QED BY <2>2, <3>2, <3>4, <3>5, <3>6
  <2> QED BY <1>10, <2>1, <2>2
<1>13. Robbed'
  <2> SUFFICES ASSUME NEW w \in Writers, NEW f \in acquired'[w],
                      pc'[w] # "done", owner'[f] # w
               PROVE  \E u \in overdue : AgentOf[u] = AgentOf[w]
    BY DEF Robbed
  <2>1. f \in acquired[w] /\ pc[w] # "done" /\ pcs[w] # "done"
    BY <1>10 DEF Freeable
  <2>2. CASE owner[f] # w
    BY <1>1, <2>1, <2>2 DEF Robbed
  <2>3. CASE owner[f] = w
    <3>1. f \in Files /\ w # NoWriter
      BY <1>1, <2>1, LockAssumption DEF Typed
    <3>2. f \in S
      BY <1>3, <2>3, <3>1 DEF FileFreed
    <3> QED BY <2>1, <2>3, <3>1, <3>2 DEF Freeable
  <2> QED BY <2>2, <2>3
<1> QED BY <1>5, <1>8, <1>11, <1>12, <1>13 DEF IInv

-----------------------------------------------------------------------------
(* One lemma per action.                                                   *)

LEMMA InitIInv == Init => IInv
<1> SUFFICES ASSUME Init PROVE IInv
  OBVIOUS
<1>1. Typed
  BY DEF Init, Typed, Pcs
<1>2. Queued /\ Entries
  BY DEF Init, Queued, Entries
<1>3. Sorted /\ Robbed
  BY DEF Init, Sorted, Robbed, Remaining
<1> QED BY <1>1, <1>2, <1>3 DEF IInv

LEMMA AcquireIInv ==
    ASSUME IInv, NEW w \in Writers, Acquire(w)
    PROVE  IInv'
<1>1. Typed /\ Queued /\ Entries /\ Sorted /\ Robbed
  BY DEF IInv
<1>2. PICK f \in Files :
          /\ Target(w, f)
          /\ owner[f] = NoWriter \/ f \in expired
          /\ owner' = [owner EXCEPT ![f] = w]
          /\ expired' = expired \ {f}
          /\ acquired' = [acquired EXCEPT ![w] = @ \cup {f}]
  BY DEF Acquire
<1>3. /\ pc[w] \in {"idle", "acquiring"}
      /\ pc' = [pc EXCEPT ![w] = "acquiring"]
      /\ UNCHANGED <<kind, waitQueues, overdue>>
  BY DEF Acquire, Asks
<1>4. Typed'
  BY <1>1, <1>2, <1>3 DEF Typed, Pcs
<1>5. /\ acquired'[w] = acquired[w] \cup {f} /\ pc'[w] = "acquiring"
      /\ \A v \in Writers : v # w => acquired'[v] = acquired[v] /\ pc'[v] = pc[v]
      /\ owner'[f] = w /\ w # NoWriter
      /\ \A g \in Files : g # f => owner'[g] = owner[g]
  BY <1>1, <1>2, <1>3, LockAssumption DEF Typed
<1>6. Queued'
  <2>1. ASSUME NEW g \in Files, NEW i \in 1..Len(waitQueues[g])
        PROVE  (pc[waitQueues[g][i]] = "waiting" /\ Target(waitQueues[g][i], g))'
    <3> DEFINE v == waitQueues[g][i]
    <3>1. pc[v] = "waiting" /\ Target(v, g)
      BY <1>1 DEF Queued
    <3>2. v \in Writers
      BY <1>1 DEF Typed
    <3> HIDE DEF v
    <3>3. acquired'[v] = acquired[v] /\ pc'[v] = pc[v]
      BY <1>3, <1>5, <3>1, <3>2
    <3>4. waitQueues'[g][i] = v
      BY <1>3 DEF v
    <3> QED BY <1>3, <3>1, <3>3, <3>4 DEF Target, Remaining
  <2> QED BY <1>1, <1>3, <2>1 DEF Queued
<1>7. Entries'
  BY <1>1, <1>2, <1>3, <1>5 DEF Typed, Entries
<1>8. Sorted'
  <2>1. ASSUME NEW v \in Writers, v # w
        PROVE  (/\ acquired[v] \subseteq kind[v].targets
                /\ \A a \in acquired[v], r \in Remaining(v) : a < r
                /\ pc[v] = "idle" => acquired[v] = {}
                /\ pc[v] \in {"reading", "chained", "writing"} => Remaining(v) = {})'
    BY <1>1, <1>3, <1>5, <2>1 DEF Sorted, Remaining
  <2>2. /\ acquired'[w] \subseteq kind'[w].targets
        /\ \A a \in acquired'[w], r \in Remaining(w)' : a < r
    <3>1. f \in Remaining(w) /\ \A g \in Remaining(w) : f <= g
      BY <1>2 DEF Target
    <3>2. Remaining(w)' = Remaining(w) \ {f}
      BY <1>3, <1>5 DEF Remaining
    <3>3. Remaining(w) \subseteq Int
      BY <1>1, KindFacts
    <3>4. \A r \in Remaining(w) \ {f} : f < r
      BY <3>1, <3>3
    <3>5. acquired'[w] \subseteq kind'[w].targets
      BY <1>1, <1>3, <1>5, <3>1 DEF Sorted, Remaining
    <3> QED BY <1>1, <1>5, <3>2, <3>4, <3>5 DEF Sorted
  <2> QED BY <1>5, <2>1, <2>2 DEF Sorted
<1>9. Robbed'
  <2> SUFFICES ASSUME NEW v \in Writers, NEW g \in acquired'[v],
                      pc'[v] # "done", owner'[g] # v
               PROVE  \E u \in overdue : AgentOf[u] = AgentOf[v]
    BY <1>3 DEF Robbed
  <2>1. g \in acquired[v] /\ pc[v] # "done" /\ g \in Files
    BY <1>1, <1>3, <1>5 DEF Typed
  <2>2. CASE owner[g] # v
    BY <1>1, <2>1, <2>2 DEF Robbed
  <2>3. CASE owner[g] = v
    <3>1. g = f /\ f \in expired
      BY <1>2, <1>5, <2>1, <2>3, LockAssumption
    <3> QED BY <1>1, <2>3, <3>1 DEF Entries
  <2> QED BY <2>2, <2>3
<1> QED BY <1>4, <1>6, <1>7, <1>8, <1>9 DEF IInv

LEMMA WaitForLockIInv ==
    ASSUME IInv, NEW w \in Writers, WaitForLock(w)
    PROVE  IInv'
<1>1. Typed /\ Queued /\ Entries /\ Sorted /\ Robbed
  BY DEF IInv
<1>2. PICK f \in Files :
          /\ Target(w, f)
          /\ owner[f] # NoWriter /\ f \notin expired
          /\ waitQueues' = [waitQueues EXCEPT ![f] = Append(@, w)]
          /\ pc' = [pc EXCEPT ![w] = "waiting"]
  BY DEF WaitForLock
<1>3. /\ pc[w] \in {"idle", "acquiring"}
      /\ UNCHANGED <<kind, acquired, owner, expired, overdue>>
  BY DEF WaitForLock, Asks
<1>4. Typed'
  BY <1>1, <1>2, <1>3 DEF Typed, Pcs
\* The queues are as they were, but for w at the end of that of f.
<1>5. \A g \in Files : \A i \in 1..Len(waitQueues'[g]) :
         \/ i \in 1..Len(waitQueues[g]) /\ waitQueues'[g][i] = waitQueues[g][i]
         \/ g = f /\ i = Len(waitQueues[f]) + 1 /\ waitQueues'[g][i] = w
  BY <1>1, <1>2 DEF Typed
<1>6. \A g \in Files : \A i \in 1..Len(waitQueues[g]) :
         waitQueues[g][i] # w /\ waitQueues[g][i] \in Writers
  BY <1>1, <1>3 DEF Queued, Typed
<1>7. pc'[w] = "waiting" /\ \A v \in Writers : v # w => pc'[v] = pc[v]
  BY <1>1, <1>2 DEF Typed
<1>8. Queued'
  <2>1. ASSUME NEW g \in Files, NEW i \in 1..Len(waitQueues'[g])
        PROVE  (pc[waitQueues[g][i]] = "waiting" /\ Target(waitQueues[g][i], g))'
    <3>1. pc'[waitQueues'[g][i]] = "waiting"
      BY <1>1, <1>5, <1>6, <1>7 DEF Queued
    <3>2. Target(waitQueues[g][i], g)'
      <4>1. CASE i \in 1..Len(waitQueues[g]) /\ waitQueues'[g][i] = waitQueues[g][i]
        BY <1>1, <1>3, <4>1 DEF Queued, Target, Remaining
      <4>2. CASE g = f /\ waitQueues'[g][i] = w
        BY <1>2, <1>3, <4>2 DEF Target, Remaining
      <4> QED BY <1>5, <4>1, <4>2
    <3> QED BY <3>1, <3>2
  <2>2. ASSUME NEW g \in Files, NEW h \in Files,
               NEW i \in 1..Len(waitQueues'[g]), NEW j \in 1..Len(waitQueues'[h]),
               waitQueues'[g][i] = waitQueues'[h][j]
        PROVE  g = h /\ i = j
    <3>1. \A a, b \in Files :
             \A m \in 1..Len(waitQueues[a]), n \in 1..Len(waitQueues[b]) :
                 waitQueues[a][m] = waitQueues[b][n] => a = b /\ m = n
      BY <1>1 DEF Queued
    <3>2. CASE waitQueues'[g][i] = w
      <4>1. g = f /\ i = Len(waitQueues[f]) + 1
        BY <1>5, <1>6, <3>2
      <4>2. h = f /\ j = Len(waitQueues[f]) + 1
        BY <1>5, <1>6, <2>2, <3>2
      <4> QED BY <4>1, <4>2
    <3>3. CASE waitQueues'[g][i] # w
      <4>1. /\ i \in 1..Len(waitQueues[g]) /\ waitQueues'[g][i] = waitQueues[g][i]
            /\ j \in 1..Len(waitQueues[h]) /\ waitQueues'[h][j] = waitQueues[h][j]
        BY <1>5, <2>2, <3>3
      <4>2. waitQueues[g][i] = waitQueues[h][j]
        BY <2>2, <4>1
      <4> QED BY <3>1, <4>1, <4>2
    <3> QED BY <3>2, <3>3
  <2>3. \A g \in Files : \A i \in 1..Len(waitQueues'[g]) :
           (pc[waitQueues[g][i]] = "waiting" /\ Target(waitQueues[g][i], g))'
    BY <2>1
  <2>4. \A g, h \in Files :
           \A i \in 1..Len(waitQueues'[g]), j \in 1..Len(waitQueues'[h]) :
               waitQueues'[g][i] = waitQueues'[h][j] => g = h /\ i = j
    BY <2>2
  <2> QED BY <2>3, <2>4 DEF Queued
<1>9. Entries'
  <2>1. \A g \in Files : waitQueues'[g] # <<>> =>
           waitQueues[g] # <<>> \/ g = f
    BY <1>1, <1>2 DEF Typed
  <2> QED BY <1>1, <1>2, <1>3, <1>7, <2>1 DEF Typed, Entries
<1>10. Sorted'
  BY <1>1, <1>3, <1>7 DEF Sorted, Remaining
<1>11. Robbed'
  BY <1>1, <1>3, <1>7 DEF Robbed
<1> QED BY <1>4, <1>8, <1>9, <1>10, <1>11 DEF IInv

\* A call that has all its locks goes on.
LEMMA GoesOnIInv ==
    ASSUME IInv, NEW w \in Writers, NEW to \in {"reading", "chained", "writing"},
           pc[w] \in {"acquiring", "reading", "chained"}, Remaining(w) = {},
           pc' = [pc EXCEPT ![w] = to],
           UNCHANGED <<kind, acquired, table, overdue>>
    PROVE  IInv'
<1>1. Typed /\ Queued /\ Entries /\ Sorted /\ Robbed
  BY DEF IInv
<1>2. UNCHANGED <<kind, acquired, owner, expired, waitQueues, overdue>>
  BY DEF table
<1>3. pc'[w] = to /\ \A v \in Writers : v # w => pc'[v] = pc[v]
  BY <1>1 DEF Typed
<1>4. Typed'
  BY <1>1, <1>2 DEF Typed, Pcs
<1>5. Queued'
  <2>1. \A g \in Files : \A i \in 1..Len(waitQueues[g]) :
           pc'[waitQueues[g][i]] = "waiting"
    BY <1>1, <1>3 DEF Queued, Typed
  <2> QED BY <1>1, <1>2, <2>1 DEF Queued, Target, Remaining
<1>6. Entries'
  BY <1>1, <1>2, <1>3 DEF Typed, Entries
<1>7. Sorted'
  BY <1>1, <1>2, <1>3 DEF Sorted, Remaining
<1>8. Robbed'
  BY <1>1, <1>2, <1>3 DEF Robbed
<1> QED BY <1>4, <1>5, <1>6, <1>7, <1>8 DEF IInv

LEMMA StepIInv ==
    ASSUME IInv, NEW w \in Writers, Step(w)
    PROVE  IInv'
<1>1. CASE Acquire(w)
  BY <1>1, AcquireIInv
<1>2. CASE WaitForLock(w)
  BY <1>2, WaitForLockIInv
<1>3. CASE BeginWrite(w)
  <2>1. PICK to \in {"reading", "chained", "writing"} : pc' = [pc EXCEPT ![w] = to]
    BY <1>3 DEF BeginWrite
  <2> QED BY <1>3, <2>1, GoesOnIInv DEF BeginWrite
<1>4. CASE JoinChain(w) \/ ChainTurn(w)
  <2>1. PICK to \in {"reading", "chained", "writing"} : pc' = [pc EXCEPT ![w] = to]
    BY <1>4 DEF JoinChain, ChainTurn
  <2>2. pc[w] \in {"reading", "chained"} /\ Remaining(w) = {}
    BY <1>4 DEF JoinChain, ChainTurn, IInv, Sorted
  <2> QED BY <1>4, <2>1, <2>2, GoesOnIInv DEF JoinChain, ChainTurn
<1> QED BY <1>1, <1>2, <1>3, <1>4 DEF Step

\* What the returning call lets go is its own, or of its agent id.
LEMMA ReturnFreeable ==
    ASSUME IInv, NEW w \in Writers, pc[w] # "done"
    PROVE  Freeable(Releasable(w), [pc EXCEPT ![w] = "done"])
<1>1. Typed /\ Entries /\ Robbed
  BY DEF IInv
<1> DEFINE pcs == [pc EXCEPT ![w] = "done"]
<1>2. pcs[w] = "done" /\ \A v \in Writers : v # w => pcs[v] = pc[v]
  BY <1>1 DEF Typed
<1>3. ASSUME NEW f \in Files, owner[f] = w
      PROVE  f \in Releasable(w)
  BY <1>1, <1>3, LockAssumption DEF Entries, Releasable
<1>4. ASSUME NEW f \in Releasable(w), owner[f] # NoWriter, pcs[owner[f]] # "done"
      PROVE  \E u \in overdue : AgentOf[u] = AgentOf[owner[f]]
  <2>1. f \in acquired[w] /\ AgentOf[owner[f]] = AgentOf[w] /\ owner[f] # w
    BY <1>2, <1>4 DEF Releasable
  <2> QED BY <1>1, <2>1 DEF Robbed
<1> QED BY <1>2, <1>3, <1>4 DEF Freeable

LEMMA WaitTimesOutIInv ==
    ASSUME IInv, NEW w \in Writers, WaitTimesOut(w)
    PROVE  IInv'
<1>1. Typed /\ Queued /\ Entries
  BY DEF IInv
<1>2. PICK f \in Files :
          /\ waitQueues[f] # <<>> /\ Head(waitQueues[f]) = w
          /\ Return(w, [waitQueues EXCEPT ![f] = Tail(@)])
  BY DEF WaitTimesOut
<1> DEFINE queues == [waitQueues EXCEPT ![f] = Tail(@)]
           pcs == [pc EXCEPT ![w] = "done"]
<1>3. pc[w] = "waiting"
  BY DEF WaitTimesOut
<1>4. \A v \in Writers : v # w => pcs[v] = pc[v]
  BY <1>1 DEF Typed
<1>5. pcs \in [Writers -> Pcs]
  BY <1>1 DEF Typed, Pcs
<1>6. 1 \in 1..Len(waitQueues[f]) /\ waitQueues[f][1] = w
      /\ Tail(waitQueues[f]) \in Seq(Writers)
      /\ \A i \in 1..Len(Tail(waitQueues[f])) :
            /\ i + 1 \in 1..Len(waitQueues[f])
            /\ Tail(waitQueues[f])[i] = waitQueues[f][i + 1]
  <2>1. waitQueues[f] \in Seq(Writers) /\ waitQueues[f] # <<>>
    BY <1>1, <1>2 DEF Typed
  <2> QED BY <1>2, <2>1, TailFacts
<1>7. queues \in [Files -> Seq(Writers)]
      /\ queues[f] = Tail(waitQueues[f])
      /\ \A g \in Files : g # f => queues[g] = waitQueues[g]
  BY <1>1, <1>6 DEF Typed
<1>8. Return(w, queues)
  BY <1>2
<1> HIDE DEF queues, pcs
\* Each place in the queues that are left is one behind w's.
<1>9. \A g \in Files : \A i \in 1..Len(queues[g]) :
         \E k \in 1..Len(waitQueues[g]) :
             /\ queues[g][i] = waitQueues[g][k]
             /\ g = f => k = i + 1
             /\ g # f => k = i
  <2> SUFFICES ASSUME NEW g \in Files, NEW i \in 1..Len(queues[g])
               PROVE  \E k \in 1..Len(waitQueues[g]) :
                          /\ queues[g][i] = waitQueues[g][k]
                          /\ g = f => k = i + 1
                          /\ g # f => k = i
    OBVIOUS
  <2>1. CASE g = f
    BY <1>6, <1>7, <2>1
  <2>2. CASE g # f
    BY <1>7, <2>2
  <2> QED BY <2>1, <2>2
<1>10. \A a, b \in Files :
          \A m \in 1..Len(waitQueues[a]), n \in 1..Len(waitQueues[b]) :
              waitQueues[a][m] = waitQueues[b][n] => a = b /\ m = n
  BY <1>1 DEF Queued
<1>11. StillQueued(queues, pcs)
  <2>1. ASSUME NEW g \in Files, NEW i \in 1..Len(queues[g])
        PROVE  /\ pc[queues[g][i]] = "waiting" /\ pcs[queues[g][i]] = "waiting"
               /\ Target(queues[g][i], g)
    <3>1. PICK k \in 1..Len(waitQueues[g]) :
              /\ queues[g][i] = waitQueues[g][k]
              /\ g = f => k = i + 1
              /\ g # f => k = i
      BY <1>9
    <3>2. waitQueues[g][k] \in Writers
      BY <1>1, <3>1 DEF Typed
    <3>3. waitQueues[g][k] # w
      BY <1>6, <1>10, <3>1
    <3>4. pc[waitQueues[g][k]] = "waiting" /\ Target(waitQueues[g][k], g)
      BY <1>1 DEF Queued
    <3> QED BY <1>4, <3>1, <3>2, <3>3, <3>4
  <2>2. ASSUME NEW g \in Files, NEW h \in Files,
               NEW i \in 1..Len(queues[g]), NEW j \in 1..Len(queues[h]),
               queues[g][i] = queues[h][j]
        PROVE  g = h /\ i = j
    <3>1. PICK k \in 1..Len(waitQueues[g]) :
              /\ queues[g][i] = waitQueues[g][k]
              /\ g = f => k = i + 1
              /\ g # f => k = i
      BY <1>9
    <3>2. PICK l \in 1..Len(waitQueues[h]) :
              /\ queues[h][j] = waitQueues[h][l]
              /\ h = f => l = j + 1
              /\ h # f => l = j
      BY <1>9
    <3>3. waitQueues[g][k] = waitQueues[h][l]
      BY <2>2, <3>1, <3>2
    <3>4. g = h /\ k = l
      BY <1>10, <3>3
    <3> QED BY <3>1, <3>2, <3>4
  <2>3. \A g \in Files : queues[g] # <<>> => owner[g] # NoWriter
    BY <1>1, <1>2, <1>7 DEF Entries
  <2>4. \A g \in Files : \A i \in 1..Len(queues[g]) :
           /\ pc[queues[g][i]] = "waiting" /\ pcs[queues[g][i]] = "waiting"
           /\ Target(queues[g][i], g)
    BY <2>1
  <2>5. \A g, h \in Files :
           \A i \in 1..Len(queues[g]), j \in 1..Len(queues[h]) :
               queues[g][i] = queues[h][j] => g = h /\ i = j
    BY <2>2
  <2> QED BY <2>3, <2>4, <2>5 DEF StillQueued
<1>12. Freeable(Releasable(w), pcs)
  BY <1>3, ReturnFreeable DEF pcs
<1>13. Free(Releasable(w), queues, pcs) /\ UNCHANGED <<kind, overdue>>
  BY <1>8 DEF Return, pcs
<1>14. Releasable(w) \in SUBSET Files
  BY <1>1 DEF Releasable, Typed
<1> QED BY <1>5, <1>7, <1>11, <1>12, <1>13, <1>14, FreeIInv

LEMMA WriteEndsIInv ==
    ASSUME IInv, NEW w \in Writers, WriteEnds(w)
    PROVE  IInv'
<1>1. Typed /\ Queued /\ Entries
  BY DEF IInv
<1> DEFINE pcs == [pc EXCEPT ![w] = "done"]
<1>2. pc[w] = "writing" /\ Return(w, waitQueues)
  BY DEF WriteEnds
<1>3. \A v \in Writers : v # w => pcs[v] = pc[v]
  BY <1>1 DEF Typed
<1>4. pcs \in [Writers -> Pcs] /\ waitQueues \in [Files -> Seq(Writers)]
  BY <1>1 DEF Typed, Pcs
<1> HIDE DEF pcs
<1>5. StillQueued(waitQueues, pcs)
  <2>1. \A g \in Files : \A i \in 1..Len(waitQueues[g]) :
           pc[waitQueues[g][i]] = "waiting" /\ waitQueues[g][i] \in Writers
    BY <1>1 DEF Queued, Typed
  <2>2. \A g \in Files : \A i \in 1..Len(waitQueues[g]) :
           pcs[waitQueues[g][i]] = "waiting"
    BY <1>2, <1>3, <2>1
  <2> QED BY <1>1, <2>2 DEF Queued, Entries, StillQueued
<1>6. Freeable(Releasable(w), pcs)
  BY <1>2, ReturnFreeable DEF pcs
<1>7. Free(Releasable(w), waitQueues, pcs) /\ UNCHANGED <<kind, overdue>>
  BY <1>2 DEF Return, pcs
<1>8. Releasable(w) \in SUBSET Files
  BY <1>1 DEF Releasable, Typed
<1> QED BY <1>4, <1>5, <1>6, <1>7, <1>8, FreeIInv

LEMMA CleanupIInv ==
    ASSUME IInv, CleanupExpiredLocks
    PROVE  IInv'
<1>1. Typed /\ Queued /\ Entries
  BY DEF IInv
<1>2. Free(expired, waitQueues, pc) /\ UNCHANGED <<kind, overdue>>
  BY DEF CleanupExpiredLocks
<1>3. StillQueued(waitQueues, pc)
  BY <1>1 DEF Queued, Entries, StillQueued
<1>4. Freeable(expired, pc)
  BY <1>1 DEF Entries, Freeable, Typed
<1>5. expired \in SUBSET Files /\ pc \in [Writers -> Pcs]
      /\ waitQueues \in [Files -> Seq(Writers)]
  BY <1>1 DEF Typed
<1> QED BY <1>2, <1>3, <1>4, <1>5, FreeIInv

LEMMA ExpireIInv ==
    ASSUME IInv, NEW f \in Files, Expire(f)
    PROVE  IInv'
<1>1. Typed /\ Queued /\ Entries /\ Sorted /\ Robbed
  BY DEF IInv
<1>2. /\ owner[f] # NoWriter
      /\ expired' = expired \cup {f}
      /\ overdue' = overdue \cup {owner[f]}
      /\ UNCHANGED <<kind, pc, acquired, owner, waitQueues>>
  BY DEF Expire, calls
<1>3. Typed'
  BY <1>1, <1>2 DEF Typed
<1>4. Queued' /\ Sorted'
  BY <1>1, <1>2 DEF Queued, Sorted, Target, Remaining
<1>5. Entries'
  BY <1>1, <1>2 DEF Entries
<1>6. Robbed'
  BY <1>1, <1>2 DEF Robbed
<1> QED BY <1>3, <1>4, <1>5, <1>6 DEF IInv

LEMMA NextIInv == IInv /\ [Next]_vars => IInv'
<1> SUFFICES ASSUME IInv, [Next]_vars PROVE IInv'
  OBVIOUS
<1>1. ASSUME NEW w \in Writers, Step(w) PROVE IInv'
  BY <1>1, StepIInv
<1>2. ASSUME NEW w \in Writers, WaitTimesOut(w) PROVE IInv'
  BY <1>2, WaitTimesOutIInv
<1>3. ASSUME NEW w \in Writers, WriteEnds(w) PROVE IInv'
  BY <1>3, WriteEndsIInv
<1>4. ASSUME NEW f \in Files, Expire(f) PROVE IInv'
  BY <1>4, ExpireIInv
<1>5. CASE CleanupExpiredLocks
  BY <1>5, CleanupIInv
<1>6. CASE Quiet \/ UNCHANGED vars
  BY <1>6 DEF Quiet, vars, calls, table, IInv, Typed, Queued, Entries, Sorted,
              Robbed, Target, Remaining
<1> QED BY <1>1, <1>2, <1>3, <1>4, <1>5, <1>6 DEF Next

-----------------------------------------------------------------------------
(* The promise chain of withFileWriteLock.                                 *)

\* The call is in its file's chain.
InChain(w) == kind[w].chained /\ pc[w] \in {"chained", "writing"}

\* A chain holds, once each, the calls that are in it, and only its first one
\* writes; only edit and write_file look at the file first.
Chains ==
    /\ chain \in [Files -> Seq(Writers)]
    /\ \A f \in Files : \A i \in 1..Len(chain[f]) :
          /\ InChain(chain[f][i]) /\ kind[chain[f][i]].targets = {f}
          /\ pc[chain[f][i]] = "writing" => i = 1
    /\ \A f \in Files : \A i, j \in 1..Len(chain[f]) :
          chain[f][i] = chain[f][j] => i = j
    /\ \A w \in Writers : InChain(w) =>
          \A f \in kind[w].targets : \E i \in 1..Len(chain[f]) : chain[f][i] = w
    /\ \A w \in Writers : pc[w] \in {"reading", "chained"} => kind[w].chained

LEMMA ChainSeqs ==
    ASSUME Chains, NEW f \in Files
    PROVE  /\ chain[f] \in Seq(Writers) /\ Len(chain[f]) \in Nat
           /\ \A i \in 1..Len(chain[f]) : chain[f][i] \in Writers
           /\ chain[f] # <<>> => 1 \in 1..Len(chain[f]) /\ Head(chain[f]) = chain[f][1]
<1>1. chain[f] \in Seq(Writers)
  BY DEF Chains
<1> QED BY <1>1

\* A chained call has one file.
LEMMA OneTarget ==
    ASSUME Typed, NEW w \in Writers, kind[w].chained
    PROVE  \E f \in Files : kind[w].targets = {f}
BY LockAssumption DEF Typed

LEMMA InitChains == Init => Chains
<1> SUFFICES ASSUME Init PROVE Chains
  OBVIOUS
<1>1. chain = [f \in Files |-> <<>>] /\ pc = [w \in Writers |-> "idle"]
  BY DEF Init
<1>2. \A f \in Files : chain[f] = <<>> /\ Len(chain[f]) = 0
  BY <1>1
<1> QED BY <1>1, <1>2 DEF Chains, InChain

\* A step that leaves the chains alone, and nobody enters or leaves one.
LEMMA ChainsStay ==
    ASSUME Chains, UNCHANGED <<kind, chain>>,
           \A w \in Writers :
              \/ pc'[w] = pc[w]
              \/ ~InChain(w) /\ ~InChain(w)'
                 /\ (pc'[w] \in {"reading", "chained"} => kind[w].chained)
    PROVE  Chains'
<1>1. \A w \in Writers : InChain(w)' <=> InChain(w)
  BY DEF InChain
<1>2. \A f \in Files : \A i \in 1..Len(chain[f]) :
         chain[f][i] \in Writers /\ pc'[chain[f][i]] = pc[chain[f][i]]
  BY ChainSeqs DEF Chains
<1>3. \A w \in Writers : pc'[w] \in {"reading", "chained"} => kind[w].chained
  BY DEF Chains
<1>4. \A f \in Files : \A i \in 1..Len(chain[f]) :
         /\ InChain(chain[f][i])' /\ kind[chain[f][i]].targets = {f}
         /\ pc'[chain[f][i]] = "writing" => i = 1
  BY <1>1, <1>2 DEF Chains
<1>5. chain' = chain /\ kind' = kind
  OBVIOUS
<1>6. \A f \in Files : \A i \in 1..Len(chain'[f]) :
         /\ kind'[chain'[f][i]].chained /\ pc'[chain'[f][i]] \in {"chained", "writing"}
         /\ kind'[chain'[f][i]].targets = {f}
         /\ pc'[chain'[f][i]] = "writing" => i = 1
  BY ONLY <1>4, <1>5 DEF InChain
<1>7. /\ chain' \in [Files -> Seq(Writers)]
      /\ \A f \in Files : \A i, j \in 1..Len(chain'[f]) :
            chain'[f][i] = chain'[f][j] => i = j
      /\ \A w \in Writers : kind'[w].chained /\ pc'[w] \in {"chained", "writing"} =>
            \A f \in kind'[w].targets : \E i \in 1..Len(chain'[f]) : chain'[f][i] = w
      /\ \A w \in Writers : pc'[w] \in {"reading", "chained"} => kind'[w].chained
  BY <1>1, <1>3, <1>5 DEF Chains, InChain
<1> QED BY ONLY <1>6, <1>7 DEF Chains, InChain

\* A call whom a freed lock is passed to was waiting.
LEMMA FreePcs ==
    ASSUME IInv, NEW S \in SUBSET Files, NEW queues \in [Files -> Seq(Writers)],
           NEW pcs \in [Writers -> Pcs], Free(S, queues, pcs),
           \A f \in Files : queues[f] # <<>> => pc[Head(queues[f])] = "waiting"
    PROVE  \A w \in Writers : pc'[w] = pcs[w] \/ (pc[w] = "waiting" /\ pc'[w] = "acquiring")
<1>1. \A w \in Writers : CallFreed(w, S, queues, pcs)
  BY FreeFacts DEF IInv
<1> QED BY <1>1 DEF CallFreed

LEMMA HeadsWait ==
    ASSUME IInv, NEW f \in Files, waitQueues[f] # <<>>
    PROVE  /\ pc[Head(waitQueues[f])] = "waiting"
           /\ Tail(waitQueues[f]) \in Seq(Writers)
           /\ Tail(waitQueues[f]) # <<>> => pc[Head(Tail(waitQueues[f]))] = "waiting"
<1> DEFINE q == waitQueues[f]
<1>1. q \in Seq(Writers) /\ q # <<>> /\ \A i \in 1..Len(q) : pc[q[i]] = "waiting"
  BY DEF IInv, Typed, Queued
<1> HIDE DEF q
<1>2. Head(q) = q[1] /\ 1 \in 1..Len(q) /\ Tail(q) \in Seq(Writers)
      /\ \A i \in 1..Len(Tail(q)) : i + 1 \in 1..Len(q) /\ Tail(q)[i] = q[i + 1]
  BY <1>1, TailFacts
<1>3. CASE Tail(q) # <<>>
  <2>1. Head(Tail(q)) = Tail(q)[1] /\ 1 \in 1..Len(Tail(q))
    BY <1>2, <1>3, TailFacts
  <2> QED BY <1>1, <1>2, <2>1 DEF q
<1> QED BY <1>1, <1>2, <1>3 DEF q

LEMMA ReturnPcs ==
    ASSUME IInv, NEW w \in Writers, pc[w] # "done",
           NEW queues \in [Files -> Seq(Writers)], Return(w, queues),
           \A f \in Files : queues[f] # <<>> => pc[Head(queues[f])] = "waiting"
    PROVE  /\ kind' = kind
           /\ \A v \in Writers :
                 \/ v # w /\ pc'[v] = pc[v]
                 \/ v = w /\ pc'[v] = "done"
                 \/ pc[v] = "waiting" /\ pc'[v] = "acquiring"
<1> DEFINE pcs == [pc EXCEPT ![w] = "done"]
<1>1. pcs \in [Writers -> Pcs] /\ pcs[w] = "done"
      /\ \A v \in Writers : v # w => pcs[v] = pc[v]
  BY DEF IInv, Typed, Pcs
<1>2. Free(Releasable(w), queues, pcs) /\ kind' = kind
  BY DEF Return
<1>3. Releasable(w) \in SUBSET Files
  BY DEF Releasable, IInv, Typed
<1> HIDE DEF pcs
<1>4. \A v \in Writers : pc'[v] = pcs[v] \/ (pc[v] = "waiting" /\ pc'[v] = "acquiring")
  BY <1>1, <1>2, <1>3, FreePcs
<1> QED BY <1>1, <1>2, <1>4

\* A call puts itself at the end of its file's chain.
LEMMA JoinChains ==
    ASSUME IInv, Chains, NEW w \in Writers, JoinChain(w)
    PROVE  Chains'
<1>1. pc[w] = "reading" /\ pc' = [pc EXCEPT ![w] = "chained"] /\ kind' = kind
      /\ chain' = [f \in Files |-> IF f \in kind[w].targets
                                   THEN Append(chain[f], w) ELSE chain[f]]
  BY DEF JoinChain
<1>2. kind[w].chained /\ ~InChain(w)
  BY <1>1 DEF Chains, InChain
<1>3. PICK e \in Files : kind[w].targets = {e}
  BY <1>2, OneTarget DEF IInv
<1>4. pc'[w] = "chained" /\ \A v \in Writers : v # w => pc'[v] = pc[v]
  BY <1>1 DEF IInv, Typed
<1>5. InChain(w)' /\ \A v \in Writers : v # w => (InChain(v)' <=> InChain(v))
  BY <1>1, <1>2, <1>4 DEF InChain
<1>6. /\ chain'[e] = Append(chain[e], w)
      /\ \A f \in Files : f # e => chain'[f] = chain[f]
  BY <1>1, <1>3
<1>7. chain[e] \in Seq(Writers) /\ Len(chain[e]) \in Nat
      /\ \A f \in Files : \A i \in 1..Len(chain[f]) : chain[f][i] \in Writers
  BY ChainSeqs
<1>8. /\ chain'[e] \in Seq(Writers) /\ Len(chain'[e]) = Len(chain[e]) + 1
      /\ chain'[e][Len(chain[e]) + 1] = w
      /\ \A i \in 1..Len(chain[e]) : chain'[e][i] = chain[e][i]
  BY <1>6, <1>7
<1>9. \A i \in 1..Len(chain'[e]) :
         \/ i \in 1..Len(chain[e]) /\ chain'[e][i] = chain[e][i]
         \/ i = Len(chain[e]) + 1 /\ chain'[e][i] = w
  BY <1>7, <1>8
<1>10. \A f \in Files : \A i \in 1..Len(chain[f]) : chain[f][i] # w
  BY <1>2 DEF Chains
<1>11. chain' \in [Files -> Seq(Writers)]
  <2>1. \A f \in Files : chain'[f] \in Seq(Writers)
    BY <1>6, <1>8 DEF Chains
  <2> QED BY <1>1, <2>1
<1>12. ASSUME NEW f \in Files, NEW i \in 1..Len(chain'[f]),
              NEW v \in Writers, v = chain'[f][i]
       PROVE  /\ InChain(v)' /\ kind[v].targets = {f}
              /\ pc'[v] = "writing" => i = 1
  <2>1. CASE f = e /\ v = w
    BY <1>3, <1>4, <1>5, <2>1
  <2>2. CASE i \in 1..Len(chain[f]) /\ v = chain[f][i]
    <3>1. v # w
      BY <1>10, <2>2
    <3>2. /\ InChain(v) /\ kind[v].targets = {f}
          /\ pc[v] = "writing" => i = 1
      BY <2>2 DEF Chains
    <3> QED BY <1>4, <1>5, <3>1, <3>2
  <2> QED BY <1>6, <1>9, <1>12, <2>1, <2>2
<1>13. ASSUME NEW f \in Files, NEW i \in 1..Len(chain'[f]), NEW j \in 1..Len(chain'[f]),
              chain'[f][i] = chain'[f][j]
       PROVE  i = j
  <2>1. CASE f # e
    BY <1>6, <1>13, <2>1 DEF Chains
  <2>2. CASE f = e
    <3>1. CASE i \in 1..Len(chain[e]) /\ j \in 1..Len(chain[e])
      <4>1. chain[e][i] = chain[e][j]
        BY <1>8, <1>13, <2>2, <3>1
      <4> QED BY <3>1, <4>1 DEF Chains
    <3>2. CASE i \in 1..Len(chain[e]) /\ chain'[e][j] = w
      BY <1>8, <1>10, <1>13, <2>2, <3>2
    <3>3. CASE chain'[e][i] = w /\ j \in 1..Len(chain[e])
      BY <1>8, <1>10, <1>13, <2>2, <3>3
    <3> QED BY <1>9, <2>2, <3>1, <3>2, <3>3
  <2> QED BY <2>1, <2>2
<1>14. ASSUME NEW v \in Writers, InChain(v)', NEW f \in kind[v].targets
       PROVE  \E i \in 1..Len(chain'[f]) : chain'[f][i] = v
  <2>1. CASE v = w
    <3>1. f = e /\ Len(chain[e]) + 1 \in 1..Len(chain'[e])
      BY <1>3, <1>7, <1>8, <2>1
    <3> QED BY <1>8, <2>1, <3>1
  <2>2. CASE v # w
    <3>1. PICK i \in 1..Len(chain[f]) : chain[f][i] = v
      BY <1>5, <1>14, <2>2 DEF Chains
    <3>2. f \in Files
      BY <1>14, KindFacts DEF IInv
    <3>3. CASE f = e
      <4>1. i \in 1..Len(chain'[e]) /\ chain'[e][i] = v
        BY <1>7, <1>8, <3>1, <3>3
      <4> QED BY <3>3, <4>1
    <3>4. CASE f # e
      BY <1>6, <3>1, <3>2, <3>4
    <3> QED BY <3>3, <3>4
  <2> QED BY <2>1, <2>2
<1>15. \A v \in Writers : pc'[v] \in {"reading", "chained"} => kind[v].chained
  BY <1>2, <1>4 DEF Chains
<1>16. \A f \in Files : \A i \in 1..Len(chain'[f]) : chain'[f][i] \in Writers
  BY <1>11
<1>17. ASSUME NEW f \in Files, NEW i \in 1..Len(chain'[f])
       PROVE  /\ InChain(chain[f][i])' /\ kind'[chain'[f][i]].targets = {f}
              /\ pc'[chain'[f][i]] = "writing" => i = 1
  <2>1. PICK v \in Writers : v = chain'[f][i]
    BY <1>16
  <2>2. /\ InChain(v)' /\ kind[v].targets = {f}
        /\ pc'[v] = "writing" => i = 1
    BY <1>12, <2>1
  <2> QED BY <1>1, <2>1, <2>2 DEF InChain
<1>18. \A v \in Writers : InChain(v)' =>
          \A f \in kind'[v].targets : \E i \in 1..Len(chain'[f]) : chain'[f][i] = v
  BY <1>1, <1>14
<1>19. \A v \in Writers : pc'[v] \in {"reading", "chained"} => kind'[v].chained
  BY <1>1, <1>15
<1> QED BY <1>11, <1>13, <1>17, <1>18, <1>19 DEF Chains

\* The first of a chain begins to write.
LEMMA TurnChains ==
    ASSUME IInv, Chains, NEW w \in Writers, ChainTurn(w)
    PROVE  Chains'
<1>1. pc[w] = "chained" /\ pc' = [pc EXCEPT ![w] = "writing"] /\ UNCHANGED <<kind, chain>>
      /\ \A f \in kind[w].targets : Head(chain[f]) = w
  BY DEF ChainTurn
<1>2. kind[w].chained /\ InChain(w)
  BY <1>1 DEF Chains, InChain
<1>3. pc'[w] = "writing" /\ \A v \in Writers : v # w => pc'[v] = pc[v]
  BY <1>1 DEF IInv, Typed
<1>4. \A v \in Writers : InChain(v)' <=> InChain(v)
  BY <1>1, <1>2, <1>3 DEF InChain
<1>5. ASSUME NEW f \in Files, NEW i \in 1..Len(chain[f]),
             NEW v \in Writers, v = chain[f][i]
      PROVE  /\ InChain(v)' /\ kind[v].targets = {f}
             /\ pc'[v] = "writing" => i = 1
  <2>1. /\ InChain(v) /\ kind[v].targets = {f}
        /\ pc[v] = "writing" => i = 1
    BY <1>5 DEF Chains
  <2>2. chain[f] # <<>>
    BY ChainSeqs
  <2>3. CASE v = w
    <3>1. Head(chain[f]) = w
      BY <1>1, <2>1, <2>3
    <3>2. 1 \in 1..Len(chain[f]) /\ chain[f][1] = w
      BY <2>2, <3>1, ChainSeqs
    <3>3. \A j, k \in 1..Len(chain[f]) : chain[f][j] = chain[f][k] => j = k
      BY DEF Chains
    <3>4. i = 1
      BY ONLY <1>5, <2>3, <3>2, <3>3
    <3> QED BY <1>4, <2>1, <3>4
  <2>4. CASE v # w
    BY <1>3, <1>4, <2>1, <2>4
  <2> QED BY <2>3, <2>4
<1>6. \A v \in Writers : pc'[v] \in {"reading", "chained"} => kind[v].chained
  BY <1>3 DEF Chains
<1>7. \A f \in Files : \A i \in 1..Len(chain[f]) : chain[f][i] \in Writers
  BY ChainSeqs
<1>8. ASSUME NEW f \in Files, NEW i \in 1..Len(chain'[f])
      PROVE  /\ InChain(chain[f][i])' /\ kind'[chain'[f][i]].targets = {f}
             /\ pc'[chain'[f][i]] = "writing" => i = 1
  BY <1>1, <1>5, <1>7 DEF InChain
<1> QED BY <1>1, <1>4, <1>6, <1>8 DEF Chains

\* The call leaves its chain when it returns.
LEMMA EndChains ==
    ASSUME IInv, Chains, NEW w \in Writers, WriteEnds(w)
    PROVE  Chains'
<1>1. pc[w] = "writing" /\ Return(w, waitQueues)
      /\ chain' = [f \in Files |-> IF chain[f] # <<>> /\ Head(chain[f]) = w
                                   THEN Tail(chain[f]) ELSE chain[f]]
  BY DEF WriteEnds
<1>2. waitQueues \in [Files -> Seq(Writers)]
  BY DEF IInv, Typed
<1>3. /\ kind' = kind
      /\ \A v \in Writers :
            \/ v # w /\ pc'[v] = pc[v]
            \/ v = w /\ pc'[v] = "done"
            \/ pc[v] = "waiting" /\ pc'[v] = "acquiring"
  BY <1>1, <1>2, HeadsWait, ReturnPcs
<1>4. pc'[w] = "done" /\ ~InChain(w)'
  BY <1>1, <1>3 DEF InChain
<1>5. \A v \in Writers : v # w => (InChain(v)' <=> InChain(v))
                                  /\ (InChain(v) => pc'[v] = pc[v])
  BY <1>3 DEF InChain
<1>6. \A v \in Writers : pc'[v] \in {"reading", "chained"} => kind[v].chained
  BY <1>3 DEF Chains
<1>7. \A f \in Files : \A i \in 1..Len(chain[f]) :
         /\ chain[f][i] \in Writers
         /\ InChain(chain[f][i]) /\ kind[chain[f][i]].targets = {f}
         /\ pc[chain[f][i]] = "writing" => i = 1
  BY ChainSeqs DEF Chains
<1>8. ASSUME NEW f \in Files
      PROVE  /\ chain'[f] \in Seq(Writers)
             /\ \A i \in 1..Len(chain[f]) : chain[f][i] # w =>
                   \E k \in 1..Len(chain'[f]) : chain'[f][k] = chain[f][i]
             /\ \A k \in 1..Len(chain'[f]) : \E i \in 1..Len(chain[f]) :
                   chain'[f][k] = chain[f][i] /\ chain[f][i] # w
             /\ \A k, l \in 1..Len(chain'[f]) : chain'[f][k] = chain'[f][l] => k = l
  <2>1. chain[f] \in Seq(Writers) /\ Len(chain[f]) \in Nat
        /\ (chain[f] # <<>> => 1 \in 1..Len(chain[f]) /\ Head(chain[f]) = chain[f][1])
    BY ChainSeqs
  <2>2. \A i, j \in 1..Len(chain[f]) : chain[f][i] = chain[f][j] => i = j
    BY DEF Chains
  <2>3. CASE chain[f] # <<>> /\ Head(chain[f]) = w
    <3>1. chain'[f] = Tail(chain[f]) /\ chain[f][1] = w
      BY <1>1, <2>1, <2>3
    <3>2. /\ chain'[f] \in Seq(Writers) /\ Len(chain'[f]) = Len(chain[f]) - 1
          /\ \A k \in 1..Len(chain'[f]) : chain'[f][k] = chain[f][k + 1]
                                          /\ k + 1 \in 1..Len(chain[f])
      BY <2>1, <2>3, <3>1
    <3>3. \A i \in 1..Len(chain[f]) : i # 1 => i - 1 \in 1..Len(chain'[f])
                                               /\ chain'[f][i - 1] = chain[f][i]
      BY <2>1, <3>2
    <3>4. \A i \in 1..Len(chain[f]) : chain[f][i] # w => i # 1
      BY <3>1
    <3>5. \A k \in 1..Len(chain'[f]) : chain[f][k + 1] # w
      BY <2>1, <2>2, <2>3, <3>1, <3>2
    <3>6. ASSUME NEW k \in 1..Len(chain'[f]), NEW l \in 1..Len(chain'[f]),
                 chain'[f][k] = chain'[f][l]
          PROVE  k = l
      <4>1. k + 1 = l + 1
        BY <2>2, <3>2, <3>6
      <4> QED BY <4>1
    <3> QED BY <3>2, <3>3, <3>4, <3>5, <3>6
  <2>4. CASE ~(chain[f] # <<>> /\ Head(chain[f]) = w)
    <3>1. chain'[f] = chain[f]
      BY <1>1, <2>4
    <3>2. \A i \in 1..Len(chain[f]) : chain[f][i] # w
      <4>1. ASSUME NEW i \in 1..Len(chain[f]), chain[f][i] = w PROVE FALSE
        <5>1. i = 1 /\ chain[f] # <<>>
          BY <1>1, <1>7, <2>1, <4>1
        <5> QED BY <2>1, <2>4, <4>1, <5>1
      <4> QED BY <4>1
    <3> QED BY <2>1, <2>2, <3>1, <3>2
  <2> QED BY <2>3, <2>4
<1>9. chain' \in [Files -> Seq(Writers)]
  BY <1>1, <1>8
<1>10. ASSUME NEW f \in Files, NEW k \in 1..Len(chain'[f]),
              NEW v \in Writers, v = chain'[f][k]
       PROVE  /\ InChain(v)' /\ kind[v].targets = {f}
              /\ pc'[v] = "writing" => k = 1
  <2>1. PICK i \in 1..Len(chain[f]) : v = chain[f][i] /\ v # w
    BY <1>8, <1>10
  <2>2. InChain(v) /\ kind[v].targets = {f} /\ (pc[v] = "writing" => i = 1)
    BY <1>7, <2>1
  <2>3. InChain(v)' /\ pc'[v] = pc[v]
    BY <1>5, <2>1, <2>2
  <2>4. CASE pc[v] = "writing"
    <3>1. chain[f] # <<>> /\ Head(chain[f]) = v
      BY <2>1, <2>2, <2>4, ChainSeqs
    <3>2. chain'[f] = chain[f]
      BY <1>1, <2>1, <3>1
    <3>3. k = i
      <4>1. k \in 1..Len(chain[f]) /\ chain[f][k] = chain[f][i]
        BY <1>10, <2>1, <3>2
      <4> QED BY <2>1, <4>1 DEF Chains
    <3> QED BY <2>2, <2>3, <2>4, <3>3
  <2> QED BY <2>2, <2>3, <2>4
<1>11. ASSUME NEW v \in Writers, InChain(v)', NEW f \in kind[v].targets
       PROVE  \E k \in 1..Len(chain'[f]) : chain'[f][k] = v
  <2>1. v # w /\ InChain(v) /\ f \in Files
    BY <1>4, <1>5, <1>11, KindFacts DEF IInv
  <2>2. PICK i \in 1..Len(chain[f]) : chain[f][i] = v
    BY <2>1 DEF Chains
  <2>3. \E k \in 1..Len(chain'[f]) : chain'[f][k] = chain[f][i]
    BY <1>8, <2>1, <2>2
  <2> QED BY <2>2, <2>3
<1>12. \A f \in Files : \A k \in 1..Len(chain'[f]) : chain'[f][k] \in Writers
  BY <1>9
<1>13. ASSUME NEW f \in Files, NEW k \in 1..Len(chain'[f])
       PROVE  /\ InChain(chain[f][k])' /\ kind'[chain'[f][k]].targets = {f}
              /\ pc'[chain'[f][k]] = "writing" => k = 1
  BY <1>3, <1>10, <1>12 DEF InChain
<1>14. \A v \in Writers : InChain(v)' =>
          \A f \in kind'[v].targets : \E i \in 1..Len(chain'[f]) : chain'[f][i] = v
  BY <1>3, <1>11
<1>15. \A v \in Writers : pc'[v] \in {"reading", "chained"} => kind'[v].chained
  BY <1>3, <1>6
<1>16. \A f \in Files : \A k, l \in 1..Len(chain'[f]) :
          chain'[f][k] = chain'[f][l] => k = l
  BY <1>8
<1> QED BY <1>9, <1>13, <1>14, <1>15, <1>16 DEF Chains

LEMMA NextChains == IInv /\ Chains /\ [Next]_vars => Chains'
<1> SUFFICES ASSUME IInv, Chains, [Next]_vars PROVE Chains'
  OBVIOUS
<1>1. pc \in [Writers -> Pcs] /\ waitQueues \in [Files -> Seq(Writers)]
      /\ expired \in SUBSET Files
  BY DEF IInv, Typed
<1>2. ASSUME NEW w \in Writers, Acquire(w) \/ WaitForLock(w) \/ BeginWrite(w)
      PROVE  Chains'
  <2>1. UNCHANGED <<kind, chain>> /\ \A v \in Writers : v # w => pc'[v] = pc[v]
    BY <1>1, <1>2 DEF Acquire, WaitForLock, BeginWrite
  <2>2. ~InChain(w)
    BY <1>2 DEF Acquire, WaitForLock, BeginWrite, Asks, InChain
  <2>3. CASE Acquire(w) \/ WaitForLock(w)
    <3>1. pc'[w] \in {"acquiring", "waiting"}
      BY <1>1, <2>3 DEF Acquire, WaitForLock
    <3> QED BY <2>1, <2>2, <3>1, ChainsStay DEF InChain
  <2>4. CASE BeginWrite(w)
    <3>1. \/ kind[w].chained /\ pc'[w] = "reading"
          \/ ~kind[w].chained /\ pc'[w] = "writing"
      BY <1>1, <2>4 DEF BeginWrite
    <3> QED BY <2>1, <2>2, <3>1, ChainsStay DEF InChain
  <2> QED BY <1>2, <2>3, <2>4
<1>3. ASSUME NEW w \in Writers, JoinChain(w) \/ ChainTurn(w) \/ WriteEnds(w)
      PROVE  Chains'
  BY <1>3, JoinChains, TurnChains, EndChains
<1>4. ASSUME NEW w \in Writers, WaitTimesOut(w) PROVE Chains'
  <2>1. PICK f \in Files :
            /\ waitQueues[f] # <<>> /\ Head(waitQueues[f]) = w
            /\ Return(w, [waitQueues EXCEPT ![f] = Tail(@)])
    BY <1>4 DEF WaitTimesOut
  <2>2. pc[w] = "waiting" /\ chain' = chain
    BY <1>4 DEF WaitTimesOut
  <2> DEFINE queues == [waitQueues EXCEPT ![f] = Tail(@)]
  <2>3. queues \in [Files -> Seq(Writers)] /\ queues[f] = Tail(waitQueues[f])
        /\ \A g \in Files : g # f => queues[g] = waitQueues[g]
    BY <1>1, <2>1, HeadsWait
  <2>4. \A g \in Files : queues[g] # <<>> => pc[Head(queues[g])] = "waiting"
    BY <2>1, <2>3, HeadsWait
  <2>5. Return(w, queues)
    BY <2>1
  <2> HIDE DEF queues
  <2>6. /\ kind' = kind
        /\ \A v \in Writers :
              \/ v # w /\ pc'[v] = pc[v]
              \/ v = w /\ pc'[v] = "done"
              \/ pc[v] = "waiting" /\ pc'[v] = "acquiring"
    BY <2>2, <2>3, <2>4, <2>5, ReturnPcs
  <2> QED BY <2>2, <2>6, ChainsStay DEF InChain
<1>5. ASSUME NEW f \in Files, Expire(f) PROVE Chains'
  BY <1>5, ChainsStay DEF Expire, calls
<1>6. CASE CleanupExpiredLocks
  <2>1. Free(expired, waitQueues, pc) /\ UNCHANGED <<kind, chain>>
    BY <1>6 DEF CleanupExpiredLocks
  <2>2. \A w \in Writers : pc'[w] = pc[w] \/ (pc[w] = "waiting" /\ pc'[w] = "acquiring")
    BY <1>1, <2>1, HeadsWait, FreePcs
  <2> QED BY <2>1, <2>2, ChainsStay DEF InChain
<1>7. CASE Quiet \/ UNCHANGED vars
  BY <1>7, ChainsStay DEF Quiet, vars, calls
<1> QED BY <1>2, <1>3, <1>4, <1>5, <1>6, <1>7 DEF Next, Step

\* Two chained calls at work on one file would both be the first of its chain.
LEMMA ChainsSerialize ==
    ASSUME Typed, Chains PROVE ChainSerializes
<1> SUFFICES ASSUME NEW v \in Writers, NEW w \in Writers, Overlap(v, w),
                    kind[v].chained, kind[w].chained
             PROVE  FALSE
  BY DEF ChainSerializes
<1>1. PICK f : f \in kind[v].targets /\ f \in kind[w].targets
  BY DEF Overlap
<1>2. f \in Files
  BY <1>1, KindFacts
<1>3. ASSUME NEW u \in {v, w} PROVE chain[f][1] = u
  <2>1. PICK i \in 1..Len(chain[f]) : chain[f][i] = u
    BY <1>1 DEF Chains, InChain, Overlap
  <2>2. i = 1
    BY <1>2, <2>1 DEF Chains, Overlap
  <2> QED BY <2>1, <2>2
<1> QED BY <1>3 DEF Overlap

-----------------------------------------------------------------------------
(* What the locks promise.                                                 *)

\* Who has all its locks and is at work has acquired the file it writes, and
\* has lost its entry only as Robbed says.
LEMMA IInvWriters == IInv => WritersHoldEntries
<1> SUFFICES ASSUME IInv, NEW w \in Writers, NEW f \in Files,
                    pc[w] \in {"reading", "chained", "writing"},
                    f \in kind[w].targets, owner[f] # w
             PROVE  \E u \in overdue : AgentOf[u] = AgentOf[w]
  BY DEF WritersHoldEntries
<1>1. f \in acquired[w]
  BY DEF IInv, Sorted, Remaining
<1> QED BY <1>1 DEF IInv, Robbed

\* Two calls that waited for each other would each have acquired a file less
\* than the one it waits for, which the other one has.
LEMMA IInvWaits == IInv => WaitsAreSound
<1> SUFFICES ASSUME IInv PROVE WaitsAreSound
  OBVIOUS
<1>1. Typed /\ Queued /\ Entries /\ Sorted
  BY DEF IInv
<1>2. ASSUME NEW v \in Writers, NEW w \in Writers, NEW f \in Files,
             owner[f] = w,
             NEW i \in 1..Len(waitQueues[f]), waitQueues[f][i] = v
      PROVE  f \in Remaining(v) /\ f \in acquired[w]
  <2>1. Target(v, f)
    BY <1>1, <1>2 DEF Queued
  <2>2. f \in acquired[w]
    BY <1>1, <1>2, LockAssumption DEF Entries
  <2> QED BY <2>1, <2>2 DEF Target
<1>3. ASSUME NEW v \in Writers, NEW w \in Writers,
             NEW f \in Files, owner[f] = w,
             NEW i \in 1..Len(waitQueues[f]), waitQueues[f][i] = v,
             NEW g \in Files, owner[g] = v,
             NEW j \in 1..Len(waitQueues[g]), waitQueues[g][j] = w
      PROVE  FALSE
  <2>1. f \in Remaining(v) /\ f \in acquired[w]
    BY <1>2, <1>3
  <2>2. g \in Remaining(w) /\ g \in acquired[v]
    BY <1>2, <1>3
  <2>3. f < g /\ g < f
    BY <1>1, <2>1, <2>2 DEF Sorted
  <2> QED BY <2>3, LockAssumption
<1>4. \A f \in Files :
         /\ owner[f] # NoWriter => pc[owner[f]] \notin {"idle", "done"}
         /\ waitQueues[f] # <<>> => owner[f] # NoWriter
         /\ \A i \in 1..Len(waitQueues[f]) : pc[waitQueues[f][i]] = "waiting"
  BY <1>1 DEF Entries, Queued
<1> QED BY <1>3, <1>4 DEF WaitsAreSound

LEMMA IInvAlways == Spec => []IInv
BY InitIInv, NextIInv, PTL DEF Spec

LEMMA ChainsAlways == Spec => []Chains
BY InitChains, NextChains, IInvAlways, PTL DEF Spec

\* The locks, the queues and the chains keep to their types, whatever expires and
\* is released in another's place.
THEOREM TypeCorrect == Spec => []TypeOK
<1>1. IInv /\ Chains => TypeOK
  BY DEF IInv, Typed, Pcs, Chains, TypeOK
<1> QED BY <1>1, IInvAlways, ChainsAlways, PTL

\* edit and write_file never write one file at once, even after the manager has
\* given a lock away: the chain of the file lets one of them at a time.
THEOREM ChainSerializesAlways == Spec => []ChainSerializes
<1>1. IInv /\ Chains => ChainSerializes
  BY ChainsSerialize DEF IInv
<1> QED BY <1>1, IInvAlways, ChainsAlways, PTL

\* While a call reads and writes its files, its entries are in the manager's
\* table, unless it or a call of its agent id has outlived an entry.
THEOREM WritersHoldEntriesAlways == Spec => []WritersHoldEntries
BY IInvAlways, IInvWriters, PTL

\* No queue of the manager waits for an entry nobody will release, and no two
\* calls wait for each other's locks.
THEOREM WaitsAreSoundAlways == Spec => []WaitsAreSound
BY IInvAlways, IInvWaits, PTL
=============================================================================
