------------------------- MODULE MessageFlow_proofs -------------------------
(***************************************************************************)
(* Proofs about what flows into a session and out of it, for any messages, *)
(* any number of turns and events and any size of the ring: the messages   *)
(* the user injects (AgentTurn) and the events a client reads              *)
(* (EventStream).  Both filter sequences with Array.prototype.filter, so   *)
(* the first part proves what its recursive definition Kept returns for    *)
(* every sequence: a proof by the least counterexample, since the          *)
(* induction theorems of the library take an operator.                     *)
(***************************************************************************)
EXTENDS AgentTurnRefinement, EventStreamRefinement, WellFoundedInduction, FiniteSetTheorems,
        SequenceTheorems, TLAPS

-----------------------------------------------------------------------------
(* What a filter returns.                                                  *)

\* The least number in a set of numbers.
LEMMA LeastOf ==
    ASSUME NEW T \in SUBSET Nat, T # {}
    PROVE  \E n \in T : \A k \in T : n <= k
<1> DEFINE R == {ss \in Nat \X Nat : ss[1] < ss[2]}
<1>1. IsWellFoundedOn(R, Nat)
  BY NatLessThanWellFounded DEF OpToRel
<1>2. \A k, n \in Nat : k < n => <<k, n>> \in R
  OBVIOUS
<1> HIDE DEF R
<1>3. PICK n \in T : \A k \in T : ~(<<k, n>> \in R)
  BY <1>1, WFMin
<1>4. \A k \in T : ~(k < n)
  BY <1>2, <1>3
<1> QED BY <1>4

\* A set of numbers with 0 and every successor holds them all.
LEMMA Induction ==
    ASSUME NEW T \in SUBSET Nat, 0 \in T, \A n \in T : n + 1 \in T
    PROVE  T = Nat
<1> SUFFICES ASSUME Nat \ T # {} PROVE FALSE
  OBVIOUS
<1>1. PICK n \in Nat \ T : \A k \in Nat \ T : n <= k
  BY LeastOf
<1>2. n # 0 /\ n - 1 \in Nat /\ n = (n - 1) + 1
  BY <1>1
<1>3. n - 1 \in T
  BY <1>1, <1>2
<1> QED BY <1>2, <1>3

\* g is the recursion of Kept over the first n elements.
FilterSteps(s, S, n, g) ==
    g = [i \in 0..n |-> IF i = 0 THEN <<>>
                        ELSE IF s[i] \in S THEN Append(g[i - 1], s[i])
                        ELSE g[i - 1]]

LEMMA StepsExist ==
    ASSUME NEW s, NEW S, NEW n \in Nat
    PROVE  \E g : FilterSteps(s, S, n, g)
<1> DEFINE T == {m \in Nat : \E g : FilterSteps(s, S, m, g)}
<1>1. 0 \in T
  <2> DEFINE g == [i \in 0..0 |-> <<>>]
  <2>1. FilterSteps(s, S, 0, g)
    BY DEF FilterSteps
  <2> QED BY <2>1
<1>2. ASSUME NEW m \in T
      PROVE  m + 1 \in T
  <2>1. PICK g : FilterSteps(s, S, m, g)
    OBVIOUS
  <2> DEFINE h == [i \in 0..(m + 1) |->
                      IF i = m + 1 THEN IF s[i] \in S THEN Append(g[m], s[i])
                                        ELSE g[m]
                      ELSE g[i]]
  <2>2. \A i \in 0..m : g[i] = IF i = 0 THEN <<>>
                               ELSE IF s[i] \in S THEN Append(g[i - 1], s[i])
                               ELSE g[i - 1]
    BY <2>1 DEF FilterSteps
  <2>3. \A i \in 0..(m + 1) : i # 0 => i - 1 \in 0..m /\ h[i - 1] = g[i - 1]
    OBVIOUS
  <2>4. \A i \in 0..(m + 1) :
           h[i] = IF i = 0 THEN <<>>
                  ELSE IF s[i] \in S THEN Append(h[i - 1], s[i])
                  ELSE h[i - 1]
    BY <2>2, <2>3
  <2>5. FilterSteps(s, S, m + 1, h)
    <3> DEFINE k == [i \in 0..(m + 1) |->
                        IF i = 0 THEN <<>>
                        ELSE IF s[i] \in S THEN Append(h[i - 1], s[i])
                        ELSE h[i - 1]]
    <3>1. h = [i \in 0..(m + 1) |-> h[i]]
      OBVIOUS
    <3> HIDE DEF h
    <3>2. h = k
      BY <2>4, <3>1
    <3> QED BY <3>2 DEF FilterSteps
  <2> QED BY <2>5
<1> HIDE DEF T
<1>3. T = Nat
  <2>1. T \in SUBSET Nat
    BY DEF T
  <2> QED BY <1>1, <1>2, <2>1, Induction
<1> QED BY <1>3 DEF T

LEMMA KeptSteps ==
    ASSUME NEW s, NEW S, Len(s) \in Nat
    PROVE  \E g : FilterSteps(s, S, Len(s), g) /\ Kept(s, S) = g[Len(s)]
<1> DEFINE u == CHOOSE g : FilterSteps(s, S, Len(s), g)
<1>1. FilterSteps(s, S, Len(s), u)
  BY StepsExist
<1>2. Kept(s, S) = u[Len(s)]
  BY DEF Kept, FilterSteps
<1> QED BY <1>1, <1>2

\* h names, in their order, the places of s[1] .. s[n] that hold an element of
\* S, and q is what is there.
Picks(h, q, s, S, n) ==
    /\ h \in [1..Len(q) -> 1..n]
    /\ \A k, l \in 1..Len(q) : k < l => h[k] < h[l]
    /\ \A k \in 1..Len(q) : q[k] = s[h[k]] /\ s[h[k]] \in S
    /\ \A i \in 1..n : s[i] \in S => \E k \in 1..Len(q) : h[k] = i

\* What a filter keeps is what is in the set, in the order it had.
LEMMA KeptPicks ==
    ASSUME NEW E, NEW s \in Seq(E), NEW S
    PROVE  /\ Kept(s, S) \in Seq(E)
           /\ \E h : Picks(h, Kept(s, S), s, S, Len(s))
<1>1. PICK g : FilterSteps(s, S, Len(s), g) /\ Kept(s, S) = g[Len(s)]
  BY KeptSteps
<1> DEFINE Good(n) == g[n] \in Seq(E) /\ \E h : Picks(h, g[n], s, S, n)
           T == {n \in Nat : n <= Len(s) => Good(n)}
<1>2. /\ g[0] = <<>>
      /\ \A i \in 1..Len(s) : g[i] = IF s[i] \in S THEN Append(g[i - 1], s[i])
                                     ELSE g[i - 1]
  <2>1. Len(s) \in Nat
    OBVIOUS
  <2>2. \A i \in 0..Len(s) :
           g[i] = IF i = 0 THEN <<>>
                  ELSE IF s[i] \in S THEN Append(g[i - 1], s[i]) ELSE g[i - 1]
    BY <1>1, <2>1 DEF FilterSteps
  <2>3. \A i \in 1..Len(s) : i \in 0..Len(s) /\ i # 0
    BY <2>1
  <2> QED BY <2>1, <2>2, <2>3
<1>3. 0 \in T
  <2> DEFINE h == [k \in 1..0 |-> 0]
  <2>1. Picks(h, <<>>, s, S, 0)
    BY DEF Picks
  <2> HIDE DEF h
  <2>2. <<>> \in Seq(E)
    OBVIOUS
  <2>3. Good(0)
    BY <1>2, <2>1, <2>2
  <2> HIDE DEF Good
  <2> QED BY <2>3
<1>4. ASSUME NEW n \in T, n + 1 <= Len(s)
      PROVE  Good(n + 1)
  <2>1. g[n] \in Seq(E) /\ \E h : Picks(h, g[n], s, S, n)
    BY <1>4
  <2>2. PICK h : Picks(h, g[n], s, S, n)
    BY <2>1
  <2>3. n \in Nat /\ n + 1 \in 1..Len(s) /\ s[n + 1] \in E
    BY <1>4
  <2>4. CASE s[n + 1] \in S
    <3> DEFINE q == g[n]
               r == Append(q, s[n + 1])
               f == [k \in 1..Len(r) |-> IF k = Len(r) THEN n + 1 ELSE h[k]]
    <3>1. /\ r \in Seq(E) /\ Len(r) = Len(q) + 1 /\ r[Len(r)] = s[n + 1]
          /\ Len(q) \in Nat /\ \A k \in 1..Len(q) : r[k] = q[k]
      BY <2>1, <2>3
    <3>2. g[n + 1] = r
      <4>1. g[n + 1] = Append(g[(n + 1) - 1], s[n + 1])
        BY <1>2, <2>3, <2>4
      <4>2. (n + 1) - 1 = n
        BY <2>3
      <4> QED BY <4>1, <4>2
    <3> HIDE DEF r
    <3>3. f \in [1..Len(r) -> 1..(n + 1)]
      BY <2>2, <2>3, <3>1 DEF Picks
    <3>4. \A k, l \in 1..Len(r) : k < l => f[k] < f[l]
      <4> SUFFICES ASSUME NEW k \in 1..Len(r), NEW l \in 1..Len(r), k < l
                   PROVE  f[k] < f[l]
        OBVIOUS
      <4>1. k \in 1..Len(q) /\ f[k] = h[k] /\ h[k] \in 1..n
        <5>1. k # Len(r) /\ k \in 1..Len(q)
          BY <3>1
        <5>2. h[k] \in 1..n
          BY <2>2, <5>1 DEF Picks
        <5> QED BY <5>1, <5>2
      <4>2. CASE l = Len(r)
        BY <2>3, <4>1, <4>2
      <4>3. CASE l # Len(r)
        <5>1. l \in 1..Len(q) /\ f[l] = h[l]
          BY <3>1, <4>3
        <5>2. h[k] < h[l]
          BY <2>2, <4>1, <5>1 DEF Picks
        <5> QED BY <4>1, <5>1, <5>2
      <4> QED BY <4>2, <4>3
    <3>5. \A k \in 1..Len(r) : r[k] = s[f[k]] /\ s[f[k]] \in S
      BY <2>2, <2>3, <2>4, <3>1 DEF Picks
    <3>6. \A i \in 1..(n + 1) : s[i] \in S => \E k \in 1..Len(r) : f[k] = i
      <4>1. \A i \in 1..n : s[i] \in S => \E k \in 1..Len(q) : h[k] = i
        BY <2>2 DEF Picks
      <4>2. \A k \in 1..Len(q) : k \in 1..Len(r) /\ f[k] = h[k]
        BY <3>1
      <4>3. Len(r) \in 1..Len(r) /\ f[Len(r)] = n + 1
        BY <3>1
      <4> HIDE DEF f
      <4>4. ASSUME NEW i \in 1..(n + 1), s[i] \in S
            PROVE  \E k \in 1..Len(r) : f[k] = i
        <5>1. CASE i = n + 1
          BY <4>3, <5>1
        <5>2. CASE i # n + 1
          <6>1. i \in 1..n
            BY <2>3, <5>2
          <6>2. PICK k \in 1..Len(q) : h[k] = i
            BY <4>1, <4>4, <6>1
          <6> QED BY <4>2, <6>2
        <5> QED BY <5>1, <5>2
      <4> QED BY <4>4
    <3> HIDE DEF f
    <3>7. Picks(f, r, s, S, n + 1)
      BY <3>3, <3>4, <3>5, <3>6 DEF Picks
    <3> QED BY <3>1, <3>2, <3>7
  <2>5. CASE s[n + 1] \notin S
    <3>1. g[n + 1] = g[n]
      BY <1>2, <2>3, <2>5
    <3>2. Picks(h, g[n], s, S, n + 1)
      BY <2>1, <2>2, <2>3, <2>5 DEF Picks
    <3> QED BY <2>1, <3>1, <3>2
  <2> QED BY <2>4, <2>5
<1>5. ASSUME NEW n \in T
      PROVE  n + 1 \in T
  <2>1. n + 1 <= Len(s) => Good(n + 1)
    BY <1>4
  <2> HIDE DEF Good
  <2> QED BY <2>1
<1>6. T = Nat
  <2> HIDE DEF T
  <2>1. T \in SUBSET Nat
    BY DEF T
  <2> QED BY <1>3, <1>5, <2>1, Induction
<1>7. Good(Len(s))
  BY <1>6
<1> QED BY <1>1, <1>7

-----------------------------------------------------------------------------
(* The messages into a turn.                                               *)

Fates == {"unsent", "queued", "placed", "withdrawn", "returned"}

\* No message has two entries.
Distinct(q) == \A i, j \in 1..Len(q) : q[i].id = q[j].id => i = j

\* A message's fate says where it is: queued or placed once, or in neither.
Fated ==
    /\ Distinct(queue)
    /\ \A i, j \in 1..Len(memory) : memory[i] = memory[j] => i = j
    /\ \A m \in Msgs :
          /\ fate[m] = "queued" <=> \E i \in 1..Len(queue) : queue[i].id = m
          /\ fate[m] = "placed" <=> \E i \in 1..Len(memory) : memory[i] = m

\* The loop is left with the queue closed, and with messages in it only after an
\* interrupt or an exception.
Left ==
    phase = "closing" => crashed \/ (closed /\ (interrupted \/ queue = <<>>))

\* Every phase but the last is one of a running turn, and only a running turn
\* has messages waiting.
Running ==
    /\ phase # "off" => isRunning
    /\ ~isRunning => queue = <<>>

TurnInv == TypeOK /\ Fated /\ Left /\ Running

LEMMA InitTurnInv == Init => TurnInv
<1> SUFFICES ASSUME Init PROVE TurnInv
  OBVIOUS
<1>1. TypeOK
  <2>1. queue \in Seq(Entry) /\ memory \in Seq(Msgs)
    BY DEF Init
  <2>2. turn \in 0..MaxTurns /\ fate \in [Msgs -> {"unsent", "queued", "placed",
                                                 "withdrawn", "returned"}]
    BY TurnAssumption DEF Init
  <2> QED BY <2>1, <2>2 DEF Init, TypeOK
<1>2. Fated /\ Left /\ Running
  BY DEF Init, Fated, Distinct, Left, Running
<1> QED BY <1>1, <1>2 DEF TurnInv

LEMMA IdsFacts ==
    ASSUME NEW q \in Seq(Entry)
    PROVE  /\ Ids(q) \in Seq(Msgs) /\ Len(Ids(q)) = Len(q) /\ Len(q) \in Nat
           /\ \A i \in 1..Len(q) : Ids(q)[i] = q[i].id /\ q[i].id \in Msgs
                                   /\ q[i] \in Entry
           /\ \A m : m \in Elements(Ids(q)) <=> \E i \in 1..Len(q) : q[i].id = m
<1>1. \A i \in 1..Len(q) : q[i].id \in Msgs /\ q[i] \in Entry
  <2>1. \A i \in 1..Len(q) : q[i] \in Entry
    OBVIOUS
  <2>2. \A e \in Entry : e.id \in Msgs
    BY DEF Entry
  <2> QED BY <2>1, <2>2
<1>2. Len(q) \in Nat
  OBVIOUS
<1>3. Ids(q) \in Seq(Msgs) /\ Len(Ids(q)) = Len(q)
      /\ \A i \in 1..Len(q) : Ids(q)[i] = q[i].id
  BY <1>1, <1>2 DEF Ids
<1>4. \A m : m \in Elements(Ids(q)) <=> \E i \in 1..Len(q) : q[i].id = m
  BY <1>3 DEF Elements
<1> QED BY <1>1, <1>2, <1>3, <1>4

\* What one sequence after another holds.
LEMMA ConcatFacts ==
    ASSUME NEW E, NEW a \in Seq(E), NEW b \in Seq(E)
    PROVE  /\ a \o b \in Seq(E) /\ Len(a \o b) = Len(a) + Len(b)
           /\ \A i \in 1..Len(a) : (a \o b)[i] = a[i]
           /\ \A i \in 1..Len(b) : (a \o b)[Len(a) + i] = b[i]
<1>1. a \o b \in Seq(E) /\ Len(a \o b) = Len(a) + Len(b)
  OBVIOUS
<1>2. \A i \in 1..Len(a) : (a \o b)[i] = a[i]
  OBVIOUS
<1>3. \A i \in 1..Len(b) : (a \o b)[Len(a) + i] = b[i]
  <2> SUFFICES ASSUME NEW i \in 1..Len(b) PROVE (a \o b)[Len(a) + i] = b[i]
    OBVIOUS
  <2>1. Len(a) \in Nat /\ Len(a) + i \in 1..(Len(a) + Len(b)) /\ ~(Len(a) + i <= Len(a))
        /\ (Len(a) + i) - Len(a) = i
    OBVIOUS
  <2> QED BY <2>1
<1> QED BY <1>1, <1>2, <1>3

\* What PlaceNextStep and ContinueTurn do with what they take: it goes to the end of
\* the conversation, in its order.
LEMMA PlaceFacts ==
    ASSUME TypeOK, NEW taken \in Seq(Entry), Place(taken)
    PROVE  /\ memory' \in Seq(Msgs) /\ Len(memory') = Len(memory) + Len(taken)
           /\ Len(memory) \in Nat /\ Len(taken) \in Nat
           /\ \A i \in 1..Len(memory) : memory'[i] = memory[i] /\ i \in 1..Len(memory')
           /\ \A i \in 1..Len(taken) : memory'[Len(memory) + i] = taken[i].id
                                       /\ Len(memory) + i \in 1..Len(memory')
           /\ fate' \in [Msgs -> Fates]
           /\ \A m \in Msgs : fate'[m] = IF \E i \in 1..Len(taken) : taken[i].id = m
                                         THEN "placed" ELSE fate[m]
<1>1. /\ memory' = memory \o Ids(taken)
      /\ fate' = [m \in Msgs |-> IF m \in Elements(Ids(taken)) THEN "placed"
                                 ELSE fate[m]]
  BY DEF Place
<1>2. memory \in Seq(Msgs) /\ fate \in [Msgs -> Fates] /\ Len(memory) \in Nat
      /\ \A i \in 1..Len(memory) : memory[i] \in Msgs
  BY DEF TypeOK, Fates
<1>3. /\ Ids(taken) \in Seq(Msgs) /\ Len(Ids(taken)) = Len(taken)
      /\ Len(taken) \in Nat
      /\ \A i \in 1..Len(taken) : Ids(taken)[i] = taken[i].id /\ taken[i].id \in Msgs
      /\ \A m : m \in Elements(Ids(taken)) <=> \E i \in 1..Len(taken) : taken[i].id = m
  BY IdsFacts
<1>4. /\ memory' \in Seq(Msgs) /\ Len(memory') = Len(memory) + Len(taken)
      /\ \A i \in 1..Len(memory) : memory'[i] = memory[i] /\ i \in 1..Len(memory')
      /\ \A i \in 1..Len(taken) : memory'[Len(memory) + i] = taken[i].id
                                  /\ Len(memory) + i \in 1..Len(memory')
  <2>1. /\ memory' \in Seq(Msgs) /\ Len(memory') = Len(memory) + Len(taken)
        /\ \A i \in 1..Len(memory) : memory'[i] = memory[i]
        /\ \A i \in 1..Len(taken) : memory'[Len(memory) + i] = Ids(taken)[i]
    <3> DEFINE b == Ids(taken)
    <3>1. memory' = memory \o b /\ b \in Seq(Msgs) /\ Len(b) = Len(taken)
      BY <1>1, <1>3
    <3> HIDE DEF b
    <3>2. /\ memory' \in Seq(Msgs) /\ Len(memory') = Len(memory) + Len(b)
          /\ \A i \in 1..Len(memory) : memory'[i] = memory[i]
          /\ \A i \in 1..Len(b) : memory'[Len(memory) + i] = b[i]
      <4>1. memory \in Seq(Msgs) /\ b \in Seq(Msgs)
        BY <1>2, <1>3, <3>1
      <4>2. /\ memory \o b \in Seq(Msgs) /\ Len(memory \o b) = Len(memory) + Len(b)
            /\ \A i \in 1..Len(memory) : (memory \o b)[i] = memory[i]
            /\ \A i \in 1..Len(b) : (memory \o b)[Len(memory) + i] = b[i]
        BY ONLY <4>1, ConcatFacts
      <4> QED BY ONLY <3>1, <4>2
    <3> QED BY <3>1, <3>2 DEF b
  <2> QED BY <1>2, <1>3, <2>1
<1>5. fate' \in [Msgs -> Fates]
  BY <1>1, <1>2 DEF Fates
<1>6. \A m \in Msgs : fate'[m] = IF \E i \in 1..Len(taken) : taken[i].id = m
                                 THEN "placed" ELSE fate[m]
  BY <1>1, <1>3
<1> QED BY <1>2, <1>3, <1>4, <1>5, <1>6

\* It stays true that the fates say where the messages are.
LEMMA PlaceFated ==
    ASSUME TypeOK, Fated, NEW taken \in Seq(Entry), queue' \in Seq(Entry),
           Place(taken), Distinct(taken), Distinct(queue'),
           \A m \in Msgs :
              (\E i \in 1..Len(queue) : queue[i].id = m)
              <=> \/ \E i \in 1..Len(taken) : taken[i].id = m
                  \/ \E i \in 1..Len(queue') : queue'[i].id = m,
           \A i \in 1..Len(taken), j \in 1..Len(queue') : taken[i].id # queue'[j].id
    PROVE  Fated' /\ memory' \in Seq(Msgs) /\ fate' \in [Msgs -> Fates]
<1>1. /\ memory' \in Seq(Msgs) /\ Len(memory') = Len(memory) + Len(taken)
      /\ Len(memory) \in Nat /\ Len(taken) \in Nat
      /\ \A i \in 1..Len(memory) : memory'[i] = memory[i] /\ i \in 1..Len(memory')
      /\ \A i \in 1..Len(taken) : memory'[Len(memory) + i] = taken[i].id
                                  /\ Len(memory) + i \in 1..Len(memory')
  BY PlaceFacts
<1>2. /\ fate' \in [Msgs -> Fates]
      /\ \A m \in Msgs : fate'[m] = IF \E i \in 1..Len(taken) : taken[i].id = m
                                    THEN "placed" ELSE fate[m]
  BY PlaceFacts
<1>3. \A i \in 1..Len(taken) : taken[i].id \in Msgs
  BY IdsFacts
<1>4. \A k \in 1..Len(memory') :
         \/ k \in 1..Len(memory)
         \/ \E i \in 1..Len(taken) : k = Len(memory) + i
  <2> SUFFICES ASSUME NEW k \in 1..Len(memory'), k \notin 1..Len(memory)
               PROVE  \E i \in 1..Len(taken) : k = Len(memory) + i
    OBVIOUS
  <2>1. k - Len(memory) \in 1..Len(taken) /\ k = Len(memory) + (k - Len(memory))
    BY <1>1
  <2> QED BY <2>1
<1>5. \A i \in 1..Len(taken), j \in 1..Len(memory) : taken[i].id # memory[j]
  <2> SUFFICES ASSUME NEW i \in 1..Len(taken), NEW j \in 1..Len(memory),
                      taken[i].id = memory[j]
               PROVE  FALSE
    OBVIOUS
  <2>1. taken[i].id \in Msgs
    BY <1>3
  <2>2. fate[taken[i].id] = "queued"
    BY <2>1 DEF Fated
  <2>3. fate[taken[i].id] = "placed"
    BY <2>1 DEF Fated
  <2> QED BY <2>2, <2>3
<1>6. ASSUME NEW k \in 1..Len(memory'), NEW l \in 1..Len(memory'),
             memory'[k] = memory'[l]
      PROVE  k = l
  <2>1. CASE k \in 1..Len(memory) /\ l \in 1..Len(memory)
    <3>1. \A x, y \in 1..Len(memory) : memory[x] = memory[y] => x = y
      BY DEF Fated
    <3>2. memory[k] = memory[l]
      BY <1>1, <1>6, <2>1
    <3> QED BY <2>1, <3>1, <3>2
  <2>2. ASSUME NEW i \in 1..Len(taken), k \in 1..Len(memory), l = Len(memory) + i
        PROVE  FALSE
    BY <1>1, <1>5, <1>6, <2>2
  <2>3. ASSUME NEW i \in 1..Len(taken), l \in 1..Len(memory), k = Len(memory) + i
        PROVE  FALSE
    BY <1>1, <1>5, <1>6, <2>3
  <2>4. ASSUME NEW i \in 1..Len(taken), NEW j \in 1..Len(taken),
               k = Len(memory) + i, l = Len(memory) + j
        PROVE  k = l
    <3>1. taken[i].id = taken[j].id
      BY <1>1, <1>6, <2>4
    <3> QED BY <2>4, <3>1 DEF Distinct
  <2> QED BY <1>4, <2>1, <2>2, <2>3, <2>4
<1>7. \A m \in Msgs : fate'[m] = "queued"
                      <=> \E i \in 1..Len(queue') : queue'[i].id = m
  <2> SUFFICES ASSUME NEW m \in Msgs
               PROVE  fate'[m] = "queued" <=> \E i \in 1..Len(queue') : queue'[i].id = m
    OBVIOUS
  <2>1. fate[m] = "queued" <=> \E i \in 1..Len(queue) : queue[i].id = m
    BY DEF Fated
  <2>2. CASE \E i \in 1..Len(taken) : taken[i].id = m
    BY <1>2, <2>2
  <2>3. CASE ~\E i \in 1..Len(taken) : taken[i].id = m
    BY <1>2, <2>1, <2>3
  <2> QED BY <2>2, <2>3
<1>8. \A m \in Msgs : fate'[m] = "placed" <=> \E i \in 1..Len(memory') : memory'[i] = m
  <2> SUFFICES ASSUME NEW m \in Msgs
               PROVE  fate'[m] = "placed" <=> \E i \in 1..Len(memory') : memory'[i] = m
    OBVIOUS
  <2>1. (\E i \in 1..Len(memory') : memory'[i] = m)
        <=> \/ \E i \in 1..Len(memory) : memory[i] = m
            \/ \E i \in 1..Len(taken) : taken[i].id = m
    <3>1. ASSUME NEW k \in 1..Len(memory'), memory'[k] = m
          PROVE  \/ \E i \in 1..Len(memory) : memory[i] = m
                 \/ \E i \in 1..Len(taken) : taken[i].id = m
      <4>1. CASE k \in 1..Len(memory)
        BY <1>1, <3>1, <4>1
      <4>2. ASSUME NEW i \in 1..Len(taken), k = Len(memory) + i
            PROVE  taken[i].id = m
        BY <1>1, <3>1, <4>2
      <4> QED BY <1>4, <4>1, <4>2
    <3>2. ASSUME NEW k \in 1..Len(memory), memory[k] = m
          PROVE  \E i \in 1..Len(memory') : memory'[i] = m
      BY <1>1, <3>2
    <3>3. ASSUME NEW k \in 1..Len(taken), taken[k].id = m
          PROVE  \E i \in 1..Len(memory') : memory'[i] = m
      BY <1>1, <3>3
    <3> QED BY <3>1, <3>2, <3>3
  <2>2. fate[m] = "placed" <=> \E i \in 1..Len(memory) : memory[i] = m
    BY DEF Fated
  <2> QED BY <1>2, <2>1, <2>2
<1> QED BY <1>1, <1>2, <1>6, <1>7, <1>8 DEF Fated

\* A filter of a queue without repetition has none either.
LEMMA PicksDistinct ==
    ASSUME NEW q \in Seq(Entry), Distinct(q), NEW S,
           NEW t \in Seq(Entry), NEW h, Picks(h, t, q, S, Len(q))
    PROVE  Distinct(t)
<1>1. /\ \A k \in 1..Len(t) : h[k] \in 1..Len(q) /\ t[k] = q[h[k]]
      /\ \A k, l \in 1..Len(t) : k < l => h[k] < h[l]
  BY DEF Picks
<1> SUFFICES ASSUME NEW k \in 1..Len(t), NEW l \in 1..Len(t), t[k].id = t[l].id,
                    k < l \/ l < k
             PROVE  FALSE
  BY DEF Distinct
<1>2. /\ h[k] \in 1..Len(q) /\ h[l] \in 1..Len(q)
      /\ t[k] = q[h[k]] /\ t[l] = q[h[l]]
      /\ h[k] < h[l] \/ h[l] < h[k]
  BY ONLY <1>1, k \in 1..Len(t), l \in 1..Len(t), k < l \/ l < k
<1>3. h[k] = h[l]
  BY <1>2 DEF Distinct
<1> QED BY ONLY <1>2, <1>3, Len(q) \in Nat

\* The message m is one of an entry of q that S has.
Waits(m, q, S) == \E i \in 1..Len(q) : q[i] \in S /\ q[i].id = m

LEMMA PicksWait ==
    ASSUME NEW q \in Seq(Entry), NEW S, NEW m,
           NEW t \in Seq(Entry), NEW h, Picks(h, t, q, S, Len(q))
    PROVE  (\E k \in 1..Len(t) : t[k].id = m) <=> Waits(m, q, S)
<1>1. /\ \A k \in 1..Len(t) : h[k] \in 1..Len(q) /\ t[k] = q[h[k]] /\ q[h[k]] \in S
      /\ \A i \in 1..Len(q) : q[i] \in S => \E k \in 1..Len(t) : h[k] = i
  BY DEF Picks
<1>2. ASSUME NEW k \in 1..Len(t), t[k].id = m
      PROVE  Waits(m, q, S)
  BY <1>1, <1>2 DEF Waits
<1>3. ASSUME NEW i \in 1..Len(q), q[i] \in S, q[i].id = m
      PROVE  \E k \in 1..Len(t) : t[k].id = m
  <2>1. PICK k \in 1..Len(t) : h[k] = i
    BY <1>1, <1>3
  <2> QED BY <1>1, <1>3, <2>1
<1> QED BY <1>2, <1>3 DEF Waits

\* The part of TypeOK that is about messages, and the rest of it.
Data ==
    /\ queue \in Seq(Entry) /\ memory \in Seq(Msgs)
    /\ fate \in [Msgs -> Fates] /\ kind \in [Msgs -> When]

Control ==
    /\ turn \in 0..MaxTurns
    /\ isRunning \in BOOLEAN /\ closed \in BOOLEAN /\ interrupted \in BOOLEAN
    /\ phase \in {"off", "top", "starting", "settling", "preparing",
                  "streaming", "answered", "tools", "exhausted", "closing"}
    /\ crashed \in BOOLEAN
    /\ stream \in {"none", "live", "aborted"}
    /\ toolSteer \in {"none", "live", "aborted"}
    /\ grace \in BOOLEAN /\ steering \in BOOLEAN
    /\ urgent \subseteq Msgs

LEMMA TypeParts == TypeOK <=> Data /\ Control
BY DEF TypeOK, Data, Control, Fates

LEMMA TypePartsNext == TypeOK' <=> Data' /\ Control'
BY DEF TypeOK, Data, Control, Fates

LEMMA EntryFacts ==
    /\ \A e \in Entry : e.id \in Msgs /\ e.when \in When
    /\ \A m \in Msgs, w \in When : [id |-> m, when |-> w] \in Entry
                                   /\ [id |-> m, when |-> w].id = m
    /\ "next-step" \in When
BY DEF Entry, When

\* What leaves the messages alone keeps what is said of them.
LEMMA MessagesStay ==
    ASSUME Data, Fated, UNCHANGED messages
    PROVE  Data' /\ Fated' /\ (queue = <<>> => queue' = <<>>)
BY DEF Data, Fated, Distinct, messages

LEMMA InjectData ==
    ASSUME Data, Fated, NEW m \in Msgs, Inject(m)
    PROVE  Data' /\ Fated'
<1> DEFINE e == [id |-> m, when |-> kind[m]]
<1>1. e \in Entry /\ e.id = m
  BY EntryFacts DEF Data
<1>2. queue' = Append(queue, e) /\ memory' = memory /\ kind' = kind
      /\ fate' = [fate EXCEPT ![m] = "queued"] /\ fate[m] = "unsent"
  BY DEF Inject
<1> HIDE DEF e
<1>3. /\ queue \in Seq(Entry) /\ Len(queue) \in Nat /\ queue' \in Seq(Entry)
      /\ Len(queue') = Len(queue) + 1 /\ queue'[Len(queue) + 1] = e
      /\ \A i \in 1..Len(queue) : queue'[i] = queue[i]
  BY <1>1, <1>2 DEF Data
<1>4. \A n \in Msgs : fate'[n] = IF n = m THEN "queued" ELSE fate[n]
  BY <1>2 DEF Data
<1>5. \A i \in 1..Len(queue) : queue[i].id # m
  BY <1>2 DEF Fated
<1>6. /\ Len(queue) + 1 \in 1..Len(queue')
      /\ \A i \in 1..Len(queue) : i \in 1..Len(queue')
      /\ \A i \in 1..Len(queue') : i \in 1..Len(queue) \/ i = Len(queue) + 1
  BY <1>3
<1>7. Distinct(queue')
  <2> SUFFICES ASSUME NEW i \in 1..Len(queue'), NEW j \in 1..Len(queue'),
                      queue'[i].id = queue'[j].id
               PROVE  i = j
    BY DEF Distinct
  <2>1. CASE i \in 1..Len(queue) /\ j \in 1..Len(queue)
    BY <1>3, <2>1 DEF Fated, Distinct
  <2>2. CASE i \in 1..Len(queue) /\ j = Len(queue) + 1
    BY <1>1, <1>3, <1>5, <2>2
  <2>3. CASE j \in 1..Len(queue) /\ i = Len(queue) + 1
    BY <1>1, <1>3, <1>5, <2>3
  <2> QED BY <1>6, <2>1, <2>2, <2>3
<1>8. ASSUME NEW n \in Msgs
      PROVE  fate'[n] = "queued" <=> \E i \in 1..Len(queue') : queue'[i].id = n
  <2>1. (\E i \in 1..Len(queue') : queue'[i].id = n)
        <=> n = m \/ \E i \in 1..Len(queue) : queue[i].id = n
    BY <1>1, <1>3, <1>6
  <2> QED BY <1>4, <2>1 DEF Fated
<1>9. \A n \in Msgs : fate'[n] = "placed" <=> \E i \in 1..Len(memory') : memory'[i] = n
  BY <1>2, <1>4 DEF Fated
<1>10. Data'
  BY <1>2, <1>3 DEF Data, Fates
<1> QED BY <1>2, <1>7, <1>8, <1>9, <1>10 DEF Fated

\* The splice keeps the entries around the one it takes out.
LEMMA SplicedFacts ==
    ASSUME NEW q \in Seq(Entry), NEW x \in 1..Len(q)
    PROVE  /\ Spliced(q, x) \in Seq(Entry) /\ Len(Spliced(q, x)) = Len(q) - 1
           /\ Len(q) \in Nat
           /\ \A k \in 1..(Len(q) - 1) : Spliced(q, x)[k] = IF k < x THEN q[k] ELSE q[k + 1]
<1>1. Len(q) \in Nat /\ Len(q) - 1 \in Nat /\ \A k \in 1..Len(q) : q[k] \in Entry
  OBVIOUS
<1>2. \A k \in 1..(Len(q) - 1) : (IF k < x THEN q[k] ELSE q[k + 1]) \in Entry
  BY <1>1
<1>3. Spliced(q, x) \in [1..(Len(q) - 1) -> Entry]
  BY <1>2 DEF Spliced
<1>4. Spliced(q, x) \in Seq(Entry) /\ Len(Spliced(q, x)) = Len(q) - 1
  BY <1>1, <1>3
<1> QED BY <1>1, <1>4 DEF Spliced

LEMMA WithdrawData ==
    ASSUME Data, Fated, NEW m \in Msgs, Withdraw(m)
    PROVE  Data' /\ Fated' /\ queue # <<>>
<1>1. PICK x \in 1..Len(queue) : queue[x].id = m /\ queue' = Spliced(queue, x)
  BY DEF Withdraw
<1>2. memory' = memory /\ kind' = kind /\ fate' = [fate EXCEPT ![m] = "withdrawn"]
  BY DEF Withdraw
<1>3. queue \in Seq(Entry)
  BY DEF Data
<1>4. /\ queue' \in Seq(Entry) /\ Len(queue') = Len(queue) - 1 /\ Len(queue) \in Nat
      /\ \A k \in 1..(Len(queue) - 1) :
            queue'[k] = IF k < x THEN queue[k] ELSE queue[k + 1]
  BY <1>1, <1>3, SplicedFacts
<1> DEFINE at(k) == IF k < x THEN k ELSE k + 1
<1>5. \A k \in 1..Len(queue') : at(k) \in 1..Len(queue) /\ queue'[k] = queue[at(k)]
                                /\ at(k) # x
  BY <1>4
<1>6. /\ \A k, l \in 1..Len(queue') : at(k) = at(l) => k = l
      /\ \A i \in 1..Len(queue) : i # x => \E k \in 1..Len(queue') : at(k) = i
  <2>1. ASSUME NEW i \in 1..Len(queue), i # x
        PROVE  \E k \in 1..Len(queue') : at(k) = i
    <3>1. CASE i < x
      <4>1. i \in 1..Len(queue') /\ at(i) = i
        BY <1>4, <3>1
      <4> QED BY <4>1
    <3>2. CASE i > x
      <4>1. i - 1 \in 1..Len(queue') /\ at(i - 1) = i
        BY <1>4, <3>2
      <4> QED BY <4>1
    <3> QED BY <1>4, <2>1, <3>1, <3>2
  <2> QED BY <1>4, <2>1
<1> HIDE DEF at
<1>7. \A i \in 1..Len(queue) : queue[i].id = m => i = x
  BY <1>1 DEF Fated, Distinct
<1>8. Distinct(queue')
  <2> SUFFICES ASSUME NEW k \in 1..Len(queue'), NEW l \in 1..Len(queue'),
                      queue'[k].id = queue'[l].id
               PROVE  k = l
    BY DEF Distinct
  <2>1. at(k) = at(l)
    BY SMTT(30), <1>5 DEF Fated, Distinct
  <2> QED BY <1>6, <2>1
<1>9. \A n \in Msgs : fate'[n] = IF n = m THEN "withdrawn" ELSE fate[n]
  BY <1>2 DEF Data
<1>10. ASSUME NEW n \in Msgs
       PROVE  fate'[n] = "queued" <=> \E k \in 1..Len(queue') : queue'[k].id = n
  <2>1. CASE n = m
    <3>1. \A k \in 1..Len(queue') : queue'[k].id # m
      BY <1>5, <1>7
    <3> QED BY <1>9, <2>1, <3>1
  <2>2. CASE n # m
    <3>1. ASSUME NEW i \in 1..Len(queue), queue[i].id = n
          PROVE  \E k \in 1..Len(queue') : queue'[k].id = n
      <4>1. PICK k \in 1..Len(queue') : at(k) = i
        BY <1>1, <1>6, <2>2, <3>1
      <4> QED BY <1>5, <3>1, <4>1
    <3>2. ASSUME NEW k \in 1..Len(queue'), queue'[k].id = n
          PROVE  \E i \in 1..Len(queue) : queue[i].id = n
      BY <1>5, <3>2
    <3>3. fate[n] = "queued" <=> \E i \in 1..Len(queue) : queue[i].id = n
      BY DEF Fated
    <3>4. fate'[n] = fate[n]
      BY <1>9, <2>2
    <3> QED BY <3>1, <3>2, <3>3, <3>4
  <2> QED BY <2>1, <2>2
<1>11. ASSUME NEW n \in Msgs
       PROVE  fate'[n] = "placed" <=> \E i \in 1..Len(memory') : memory'[i] = n
  <2>1. fate[m] = "queued" /\ m \in Msgs
    BY <1>1 DEF Fated
  <2>2. fate'[n] = "placed" <=> fate[n] = "placed"
    BY <1>9, <2>1
  <2> QED BY <1>2, <2>2 DEF Fated
<1>12. Data'
  BY <1>2, <1>4 DEF Data, Fates
<1>13. queue # <<>>
  BY <1>4
<1> QED BY <1>2, <1>8, <1>10, <1>11, <1>12, <1>13 DEF Fated

\* promoteAll leaves the messages where they are.
LEMMA PromotedFacts ==
    ASSUME NEW q \in Seq(Entry)
    PROVE  /\ Promoted(q) \in Seq(Entry) /\ Len(Promoted(q)) = Len(q)
           /\ Len(q) \in Nat
           /\ \A i \in 1..Len(q) : Promoted(q)[i].id = q[i].id
           /\ q = <<>> => Promoted(q) = <<>>
<1>1. Len(q) \in Nat /\ \A i \in 1..Len(q) : q[i] \in Entry
  OBVIOUS
<1>2. \A i \in 1..Len(q) : [q[i] EXCEPT !.when = "next-step"] \in Entry
                           /\ [q[i] EXCEPT !.when = "next-step"].id = q[i].id
  <2>1. \A e \in Entry : [e EXCEPT !.when = "next-step"] \in Entry
                         /\ [e EXCEPT !.when = "next-step"].id = e.id
    BY DEF Entry, When
  <2> QED BY <1>1, <2>1
<1>3. Promoted(q) \in [1..Len(q) -> Entry]
  BY <1>2 DEF Promoted
<1>4. Promoted(q) \in Seq(Entry) /\ Len(Promoted(q)) = Len(q)
  BY <1>1, <1>3
<1>5. q = <<>> => Promoted(q) = <<>>
  BY <1>4
<1> QED BY <1>1, <1>2, <1>4, <1>5 DEF Promoted

LEMMA SteerData ==
    ASSUME Data, Fated, Steer
    PROVE  Data' /\ Fated' /\ (queue = <<>> => queue' = <<>>)
<1>1. queue \in Seq(Entry) /\ queue' = Promoted(queue) /\ memory' = memory
      /\ fate' = fate /\ kind' = kind
  BY DEF Data, Steer
<1>2. /\ queue' \in Seq(Entry) /\ Len(queue') = Len(queue)
      /\ \A i \in 1..Len(queue) : queue'[i].id = queue[i].id
      /\ queue = <<>> => queue' = <<>>
  BY <1>1, PromotedFacts
<1>3. Distinct(queue')
  BY <1>2 DEF Fated, Distinct
<1>4. \A m \in Msgs : (\E i \in 1..Len(queue') : queue'[i].id = m)
                      <=> \E i \in 1..Len(queue) : queue[i].id = m
  BY <1>2
<1> QED BY <1>1, <1>2, <1>3, <1>4 DEF Data, Fated

LEMMA FinalizeData ==
    ASSUME Data, Fated, Finalize
    PROVE  Data' /\ Fated' /\ queue' = <<>>
<1>1. /\ queue \in Seq(Entry) /\ queue' = <<>> /\ memory' = memory /\ kind' = kind
      /\ fate' = [m \in Msgs |-> IF m \in Elements(Ids(queue)) THEN "returned"
                                 ELSE fate[m]]
  BY DEF Data, Finalize
<1>2. \A m \in Msgs : fate'[m] = IF fate[m] = "queued" THEN "returned" ELSE fate[m]
  <2>1. \A m \in Msgs : m \in Elements(Ids(queue)) <=> fate[m] = "queued"
    BY <1>1, IdsFacts DEF Fated
  <2> QED BY <1>1, <2>1
<1>3. Len(queue') = 0 /\ queue' \in Seq(Entry)
  BY <1>1
<1>4. Distinct(queue') /\ \A m \in Msgs : ~\E i \in 1..Len(queue') : queue'[i].id = m
  BY <1>3 DEF Distinct
<1>5. Data'
  BY <1>1, <1>3 DEF Data, Fates
<1> QED BY <1>1, <1>2, <1>4, <1>5 DEF Fated

LEMMA ContinueData ==
    ASSUME TypeOK, Fated, ContinueTurn
    PROVE  Data' /\ Fated'
<1>1. queue \in Seq(Entry) /\ queue' = <<>> /\ kind' = kind /\ Place(queue)
      /\ Distinct(queue) /\ kind \in [Msgs -> When]
  BY DEF TypeOK, ContinueTurn, Fated
<1>2. Len(queue') = 0 /\ queue' \in Seq(Entry)
  BY <1>1
<1>3. Distinct(queue') /\ \A m \in Msgs : ~\E i \in 1..Len(queue') : queue'[i].id = m
  BY <1>2 DEF Distinct
<1>4. \A i \in 1..Len(queue), j \in 1..Len(queue') : queue[i].id # queue'[j].id
  BY <1>2
<1>5. Fated' /\ memory' \in Seq(Msgs) /\ fate' \in [Msgs -> Fates]
  BY <1>1, <1>2, <1>3, <1>4, PlaceFated
<1> QED BY <1>1, <1>2, <1>5 DEF Data

LEMMA PlaceNextStepData ==
    ASSUME TypeOK, Fated, PlaceNextStep
    PROVE  Data' /\ Fated'
<1> DEFINE t == Kept(queue, Now)
           r == Kept(queue, Entry \ Now)
<1>1. queue \in Seq(Entry) /\ Distinct(queue) /\ kind \in [Msgs -> When]
  BY DEF TypeOK, Fated
<1>2. Place(t) /\ queue' = r /\ kind' = kind
  BY DEF PlaceNextStep
<1>3. /\ t \in Seq(Entry) /\ \E h : Picks(h, t, queue, Now, Len(queue))
      /\ r \in Seq(Entry) /\ \E g : Picks(g, r, queue, Entry \ Now, Len(queue))
  BY <1>1, KeptPicks
<1> HIDE DEF t, r
<1>4. /\ Distinct(t) /\ Distinct(r)
      /\ \A m \in Msgs : (\E i \in 1..Len(queue) : queue[i].id = m)
                         <=> \/ \E i \in 1..Len(t) : t[i].id = m
                             \/ \E i \in 1..Len(r) : r[i].id = m
      /\ \A i \in 1..Len(t), j \in 1..Len(r) : t[i].id # r[j].id
  <2>1. PICK h, g : /\ Picks(h, t, queue, Now, Len(queue))
                    /\ Picks(g, r, queue, Entry \ Now, Len(queue))
    BY <1>3
  <2>2. Distinct(t) /\ Distinct(r)
    BY ONLY <1>1, <1>3, <2>1, PicksDistinct
  <2>3. \A m : /\ (\E k \in 1..Len(t) : t[k].id = m) <=> Waits(m, queue, Now)
               /\ (\E k \in 1..Len(r) : r[k].id = m) <=> Waits(m, queue, Entry \ Now)
    BY ONLY <1>1, <1>3, <2>1, PicksWait
  <2>4. \A i \in 1..Len(queue) : queue[i] \in Entry
    BY <1>1
  <2>5. ASSUME NEW i \in 1..Len(t), NEW j \in 1..Len(r), t[i].id = r[j].id
        PROVE  FALSE
    <3>1. PICK a \in 1..Len(queue) : queue[a] \in Now /\ queue[a].id = t[i].id
      BY <2>3 DEF Waits
    <3>2. PICK b \in 1..Len(queue) : queue[b] \in Entry \ Now /\ queue[b].id = t[i].id
      BY <2>3, <2>5 DEF Waits
    <3>3. a = b
      BY <1>1, <3>1, <3>2 DEF Distinct
    <3> QED BY <3>1, <3>2, <3>3
  <2> QED BY <2>2, <2>3, <2>4, <2>5 DEF Waits
<1>5. /\ queue' \in Seq(Entry) /\ Distinct(queue')
      /\ \A m \in Msgs : (\E i \in 1..Len(queue) : queue[i].id = m)
                         <=> \/ \E i \in 1..Len(t) : t[i].id = m
                             \/ \E i \in 1..Len(queue') : queue'[i].id = m
      /\ \A i \in 1..Len(t), j \in 1..Len(queue') : t[i].id # queue'[j].id
  BY <1>2, <1>3, <1>4
<1>6. Fated' /\ memory' \in Seq(Msgs) /\ fate' \in [Msgs -> Fates]
  BY <1>2, <1>3, <1>4, <1>5, PlaceFated
<1> QED BY <1>1, <1>2, <1>5, <1>6 DEF Data

-----------------------------------------------------------------------------

\* What comes from outside.
LEMMA OutsideInv ==
    ASSUME TurnInv,
           \/ RunTask \/ Steer \/ GraceEnds \/ Interrupt
           \/ \E m \in Msgs : Inject(m) \/ Withdraw(m)
    PROVE  TurnInv'
<1>1. Data /\ Control /\ Fated
  BY TypeParts DEF TurnInv
<1>2. CASE RunTask
  <2>1. Data' /\ Fated' /\ (queue = <<>> => queue' = <<>>)
    BY <1>1, <1>2, MessagesStay DEF RunTask
  <2>2. turn' \in 0..MaxTurns
    BY <1>1, <1>2, TurnAssumption DEF RunTask, Control
  <2>3. Control'
    BY <1>1, <1>2, <2>2 DEF RunTask, Control, runner
  <2>4. Left' /\ Running'
    BY <1>2 DEF RunTask, Left, Running
  <2> QED BY <2>1, <2>3, <2>4, TypePartsNext DEF TurnInv
<1>3. CASE Steer
  <2>1. Data' /\ Fated' /\ (queue = <<>> => queue' = <<>>)
    BY <1>1, <1>3, SteerData
  <2>2. Elements(Ids(queue)) \subseteq Msgs
    <3>1. queue \in Seq(Entry)
      BY <1>1 DEF Data
    <3> QED BY <3>1, IdsFacts
  <2>3. Control'
    BY ZenonT(60), <1>1, <1>3, <2>2 DEF Steer, Control, host, runner
  <2>4. Left' /\ Running'
    BY <1>3, <2>1 DEF Steer, Left, Running, host, TurnInv
  <2> QED BY <2>1, <2>3, <2>4, TypePartsNext DEF TurnInv
<1>4. CASE GraceEnds \/ Interrupt
  <2>1. Data' /\ Fated' /\ (queue = <<>> => queue' = <<>>)
    BY <1>1, <1>4, MessagesStay DEF GraceEnds, Interrupt
  <2>2. Control'
    <3>1. CASE GraceEnds
      BY <1>1, <3>1 DEF GraceEnds, Control, host
    <3>2. CASE Interrupt
      BY <1>1, <3>2 DEF Interrupt, Control
    <3> QED BY <1>4, <3>1, <3>2
  <2>3. Left' /\ Running'
    BY <1>4, <2>1 DEF GraceEnds, Interrupt, Left, Running, host, TurnInv
  <2> QED BY <2>1, <2>2, <2>3, TypePartsNext DEF TurnInv
<1>5. ASSUME NEW m \in Msgs, Inject(m) PROVE TurnInv'
  <2>1. Data' /\ Fated'
    BY <1>1, <1>5, InjectData
  <2>2. Control' /\ Left' /\ Running'
    BY <1>1, <1>5 DEF Inject, Control, Left, Running, host, runner, TurnInv
  <2> QED BY <2>1, <2>2, TypePartsNext DEF TurnInv
<1>6. ASSUME NEW m \in Msgs, Withdraw(m) PROVE TurnInv'
  <2>1. Data' /\ Fated' /\ queue # <<>>
    BY <1>1, <1>6, WithdrawData
  <2>2. Control' /\ Left' /\ Running'
    BY <1>1, <1>6, <2>1 DEF Withdraw, Control, Left, Running, host, runner, TurnInv
  <2> QED BY <2>1, <2>2, TypePartsNext DEF TurnInv
<1> QED BY <1>2, <1>3, <1>4, <1>5, <1>6

\* The generator is running, and goes on to a phase of its own.
LEMMA RunnerInv ==
    ASSUME TurnInv, Runner
    PROVE  TurnInv'
<1>1. \E p \in {"starting", "exhausted", "streaming", "top", "answered", "tools"} : Goto(p)
  BY DEF Runner, LoopTop, BeginStream, DropResponse, EndResponse, StreamFails,
         BeginTools, ToolsReturn
<1>2. phase # "off"
  BY DEF Runner, LoopTop, BeginStream, DropResponse, EndResponse, StreamFails,
         BeginTools, ToolsReturn
<1>3. UNCHANGED <<host, messages, urgent>>
  BY <1>1 DEF Goto
<1>4. Data /\ Control /\ Fated
  BY TypeParts DEF TurnInv
<1>5. Data' /\ Fated' /\ (queue = <<>> => queue' = <<>>)
  BY <1>3, <1>4, MessagesStay
<1>6. /\ stream' \in {"none", "live", "aborted"}
      /\ toolSteer' \in {"none", "live", "aborted"}
      /\ grace' \in BOOLEAN /\ steering' \in BOOLEAN
  BY <1>4 DEF Control, Runner, LoopTop, BeginStream, DropResponse, EndResponse,
              StreamFails, BeginTools, ToolsReturn, runner
<1>7. Control'
  BY <1>1, <1>3, <1>4, <1>6 DEF Control, Goto, host
<1>8. Left' /\ Running'
  BY <1>1, <1>2, <1>3, <1>5 DEF Goto, Left, Running, host, TurnInv
<1> QED BY <1>5, <1>7, <1>8, TypePartsNext DEF TurnInv

LEMMA HostInv ==
    ASSUME TurnInv, Host
    PROVE  TurnInv'
<1>1. Data /\ Control /\ Fated /\ TypeOK
  BY TypeParts DEF TurnInv
<1>2. CASE IterationStart \/ Close \/ Crash
  <2>1. Data' /\ Fated' /\ (queue = <<>> => queue' = <<>>)
    BY <1>1, <1>2, MessagesStay DEF IterationStart, Goto, Close, Crash
  <2>2. Control'
    BY <1>1, <1>2 DEF IterationStart, Goto, Close, Crash, Control, host, runner
  <2>3. Left' /\ Running'
    BY <1>2, <2>1 DEF IterationStart, Goto, Close, Crash, Left, Running, host, TurnInv
  <2> QED BY <2>1, <2>2, <2>3, TypePartsNext DEF TurnInv
<1>3. CASE PlaceNextStep \/ ContinueTurn
  <2>1. Data' /\ Fated'
    BY <1>1, <1>3, PlaceNextStepData, ContinueData
  <2>2. Control' /\ Left' /\ Running'
    BY <1>1, <1>3 DEF PlaceNextStep, ContinueTurn, Control, Left, Running, host, runner,
                      TurnInv
  <2> QED BY <2>1, <2>2, TypePartsNext DEF TurnInv
<1>4. CASE Finalize
  <2>1. Data' /\ Fated' /\ queue' = <<>>
    BY <1>1, <1>4, FinalizeData
  <2>2. Control' /\ Left' /\ Running'
    BY <1>1, <1>4, <2>1 DEF Finalize, Control, Left, Running
  <2> QED BY <2>1, <2>2, TypePartsNext DEF TurnInv
<1> QED BY <1>2, <1>3, <1>4 DEF Host

LEMMA NextTurnInv == TurnInv /\ [Next]_vars => TurnInv'
<1> SUFFICES ASSUME TurnInv, [Next]_vars PROVE TurnInv'
  OBVIOUS
<1>1. CASE Idle \/ UNCHANGED vars
  <2>1. Data /\ Control /\ Fated
    BY TypeParts DEF TurnInv
  <2>2. UNCHANGED <<host, messages, phase, runner, urgent>>
    BY <1>1 DEF Idle, vars
  <2>3. Data' /\ Fated' /\ (queue = <<>> => queue' = <<>>)
    BY <2>1, <2>2, MessagesStay
  <2>4. Control' /\ Left' /\ Running'
    BY <2>1, <2>2, <2>3 DEF Control, Left, Running, host, runner, TurnInv
  <2> QED BY <2>3, <2>4, TypePartsNext DEF TurnInv
<1> QED BY <1>1, OutsideInv, RunnerInv, HostInv DEF Next

LEMMA TurnInvAlways == Spec => []TurnInv
BY InitTurnInv, NextTurnInv, PTL DEF Spec

-----------------------------------------------------------------------------

\* The state of the turns is always of its type: whatever is taken, spliced out or
\* promoted, the queue stays a sequence of entries and the conversation one of
\* messages.
THEOREM TurnTyped == Spec => []TypeOK
<1>1. TurnInv => TypeOK
  BY DEF TurnInv
<1> QED BY <1>1, TurnInvAlways, PTL

\* A sequence without repetition has as many elements as places.
LEMMA OnceIfDistinct ==
    ASSUME NEW E, NEW s \in Seq(E), \A i, j \in 1..Len(s) : s[i] = s[j] => i = j
    PROVE  Once(s)
<1>1. Len(s) \in Nat /\ s \in [1..Len(s) -> E]
  OBVIOUS
<1>2. \A i \in 1..Len(s) : s[i] \in Elements(s)
  BY DEF Elements
<1>3. s \in [1..Len(s) -> Elements(s)]
  BY <1>1, <1>2
<1>4. \A x \in Elements(s) : \E i \in 1..Len(s) : s[i] = x
  BY DEF Elements
<1>5. s \in Injection(1..Len(s), Elements(s))
  BY <1>3 DEF Injection, IsInjective
<1>6. s \in Surjection(1..Len(s), Elements(s))
  BY <1>3, <1>4 DEF Surjection
<1>7. ExistsBijection(1..Len(s), Elements(s))
  BY <1>5, <1>6 DEF ExistsBijection, Bijection
<1>8. Cardinality(Elements(s)) = Len(s)
  BY <1>1, <1>7, FS_CountingElements
<1> QED BY <1>8 DEF Once

\* An accepted message is in exactly one place, once: a turn never consumes it
\* twice, nor consumes it and hands it back, nor leaves it to the next turn.
THEOREM OnePlaceAlways == Spec => []OnePlace
<1>1. ASSUME TurnInv PROVE OnePlace
  <2>1. queue \in Seq(Entry) /\ memory \in Seq(Msgs) /\ Fated /\ Running
    BY <1>1 DEF TurnInv, TypeOK
  <2> DEFINE b == Ids(queue)
  <2>2. /\ b \in Seq(Msgs) /\ Len(b) = Len(queue)
        /\ \A i \in 1..Len(queue) : b[i] = queue[i].id
        /\ \A m : m \in Elements(b) <=> \E i \in 1..Len(queue) : queue[i].id = m
    BY <2>1, IdsFacts
  <2> HIDE DEF b
  <2>3. Once(b)
    <3>1. \A i, j \in 1..Len(b) : b[i] = b[j] => i = j
      BY <2>1, <2>2 DEF Fated, Distinct
    <3> QED BY <2>2, <3>1, OnceIfDistinct
  <2>4. Once(memory)
    <3>1. \A i, j \in 1..Len(memory) : memory[i] = memory[j] => i = j
      BY <2>1 DEF Fated
    <3> QED BY <2>1, <3>1, OnceIfDistinct
  <2>5. \A m \in Msgs : /\ fate[m] = "queued" <=> m \in Elements(b)
                        /\ fate[m] = "placed" <=> m \in Elements(memory)
    <3>1. \A m : m \in Elements(memory) <=> \E i \in 1..Len(memory) : memory[i] = m
      BY DEF Elements
    <3> QED BY <2>1, <2>2, <3>1 DEF Fated
  <2> QED BY <2>1, <2>3, <2>4, <2>5 DEF OnePlace, Running, b
<1> QED BY <1>1, TurnInvAlways, PTL

-----------------------------------------------------------------------------
(* What enters the conversation, and what is handed back.                  *)

\* Only two steps put a message into the conversation.
LEMMA StepPlaced ==
    ASSUME TurnInv, [Next]_vars, NEW m \in Msgs, fate[m] = "queued",
           fate'[m] = "placed"
    PROVE  PlaceNextStep \/ ContinueTurn
<1>1. fate' # fate /\ fate \in [Msgs -> Fates]
  BY DEF TurnInv, TypeOK, Fates
<1>2. CASE Finalize
  BY <1>2 DEF Finalize
<1>3. ASSUME NEW n \in Msgs, Inject(n) \/ Withdraw(n) PROVE FALSE
  BY <1>1, <1>3 DEF Inject, Withdraw
<1>4. CASE RunTask \/ Steer \/ GraceEnds \/ Interrupt
  BY <1>1, <1>4 DEF RunTask, Steer, GraceEnds, Interrupt, messages
<1>5. CASE Runner \/ IterationStart
  BY <1>1, <1>5 DEF Runner, LoopTop, BeginStream, DropResponse, EndResponse,
                    StreamFails, BeginTools, ToolsReturn, IterationStart, Goto,
                    messages
<1>6. CASE Close \/ Crash \/ Idle \/ UNCHANGED vars
  BY <1>1, <1>6 DEF Close, Crash, Idle, vars, messages
<1> QED BY <1>2, <1>3, <1>4, <1>5, <1>6 DEF Next, Host

\* Two waiting messages of one kind enter the conversation in their order.
LEMMA StepInOrder ==
    ASSUME TurnInv, [Next]_vars, NEW i \in 1..Len(queue), NEW j \in 1..Len(queue),
           i < j, queue[i].when = queue[j].when,
           fate[queue[j].id] = "queued", fate'[queue[j].id] = "placed"
    PROVE  \E k, l \in 1..Len(memory') :
              k < l /\ memory'[k] = queue[i].id /\ memory'[l] = queue[j].id
<1>1. /\ TypeOK /\ queue \in Seq(Entry) /\ Distinct(queue)
      /\ queue[i] \in Entry /\ queue[j] \in Entry /\ queue[j].id \in Msgs
  BY EntryFacts DEF TurnInv, TypeOK, Fated
<1>2. PlaceNextStep \/ ContinueTurn
  BY <1>1, StepPlaced
<1>3. CASE ContinueTurn
  <2>1. Place(queue)
    BY <1>3 DEF ContinueTurn
  <2>2. /\ Len(memory) \in Nat
        /\ \A x \in 1..Len(queue) : memory'[Len(memory) + x] = queue[x].id
                                    /\ Len(memory) + x \in 1..Len(memory')
    BY <1>1, <2>1, PlaceFacts
  <2>3. Len(memory) + i < Len(memory) + j
    BY <2>2
  <2> QED BY <2>2, <2>3
<1>4. CASE PlaceNextStep
  <2> DEFINE t == Kept(queue, Now)
  <2>1. Place(t)
    BY <1>4 DEF PlaceNextStep
  <2>2. t \in Seq(Entry) /\ \E g : Picks(g, t, queue, Now, Len(queue))
    BY <1>1, KeptPicks
  <2> HIDE DEF t
  <2>3. PICK h : Picks(h, t, queue, Now, Len(queue))
    BY <2>2
  <2>4. /\ \A k \in 1..Len(t) : h[k] \in 1..Len(queue) /\ t[k] = queue[h[k]]
                                /\ queue[h[k]] \in Now
        /\ \A k, l \in 1..Len(t) : k < l => h[k] < h[l]
        /\ \A x \in 1..Len(queue) : queue[x] \in Now => \E k \in 1..Len(t) : h[k] = x
    BY <2>3 DEF Picks
  <2>5. /\ Len(memory) \in Nat /\ Len(t) \in Nat
        /\ \A x \in 1..Len(t) : memory'[Len(memory) + x] = t[x].id
                                /\ Len(memory) + x \in 1..Len(memory')
        /\ \A m \in Msgs : fate'[m] = IF \E x \in 1..Len(t) : t[x].id = m
                                      THEN "placed" ELSE fate[m]
    BY <1>1, <2>1, <2>2, PlaceFacts
  <2>6. PICK y \in 1..Len(t) : t[y].id = queue[j].id
    BY <1>1, <2>5
  <2>7. h[y] = j /\ queue[j] \in Now
    BY SMTT(30), <1>1, <2>4, <2>6 DEF Distinct
  <2>8. queue[i] \in Now
    BY <1>1, <2>7 DEF Now, Entry
  <2>9. PICK x \in 1..Len(t) : h[x] = i
    BY <2>4, <2>8
  <2>10. x < y
    <3>1. x # y
      BY <2>7, <2>9
    <3>2. ~(y < x)
      <4>1. y < x => h[y] < h[x]
        BY <2>4
      <4> QED BY <2>7, <2>9, <4>1
    <3> QED BY <2>5, <3>1, <3>2
  <2>11. /\ memory'[Len(memory) + x] = queue[i].id
         /\ memory'[Len(memory) + y] = queue[j].id
    <3>1. t[x].id = queue[i].id
      BY <2>4, <2>9
    <3> QED BY <2>5, <2>6, <3>1
  <2>12. Len(memory) + x < Len(memory) + y
    BY <2>5, <2>10
  <2> QED BY <2>5, <2>11, <2>12
<1> QED BY <1>2, <1>3, <1>4

\* A message for the end of the turn enters it when the generator is done.
LEMMA StepAtEnd ==
    ASSUME TurnInv, [Next]_vars, NEW i \in 1..Len(queue),
           queue[i].when = "turn-end", fate'[queue[i].id] = "placed"
    PROVE  phase = "exhausted"
<1>1. /\ TypeOK /\ queue \in Seq(Entry) /\ Distinct(queue)
      /\ queue[i].id \in Msgs /\ fate[queue[i].id] = "queued"
  BY EntryFacts DEF TurnInv, TypeOK, Fated
<1>2. PlaceNextStep \/ ContinueTurn
  BY <1>1, StepPlaced
<1>3. CASE PlaceNextStep
  <2> DEFINE t == Kept(queue, Now)
  <2>1. Place(t)
    BY <1>3 DEF PlaceNextStep
  <2>2. t \in Seq(Entry) /\ \E g : Picks(g, t, queue, Now, Len(queue))
    BY <1>1, KeptPicks
  <2> HIDE DEF t
  <2>3. \E x \in 1..Len(t) : t[x].id = queue[i].id
    <3>1. \A m \in Msgs : fate'[m] = IF \E x \in 1..Len(t) : t[x].id = m
                                     THEN "placed" ELSE fate[m]
      BY <1>1, <2>1, <2>2, PlaceFacts
    <3> QED BY <1>1, <3>1
  <2>4. Waits(queue[i].id, queue, Now)
    BY <1>1, <2>2, <2>3, PicksWait
  <2>5. queue[i] \in Now
    BY <1>1, <2>4 DEF Waits, Distinct
  <2> QED BY <2>5 DEF Now
<1> QED BY <1>2, <1>3 DEF ContinueTurn

\* Messages of one kind enter the conversation in the order they were typed, and
\* one meant for the end of the turn only when the generator is done.
THEOREM PlacedAsMeantAlways == Spec => PlacedAsMeant
<1>1. ASSUME TurnInv, [Next]_vars
      PROVE  /\ \A i, j \in 1..Len(queue) :
                   LET a == queue[i].id
                       b == queue[j].id
                   IN  /\ i < j /\ queue[i].when = queue[j].when
                       /\ fate[b] = "queued" /\ fate'[b] = "placed"
                       => \E k, l \in 1..Len(memory') :
                             k < l /\ memory'[k] = a /\ memory'[l] = b
             /\ \A i \in 1..Len(queue) :
                   queue[i].when = "turn-end" /\ fate'[queue[i].id] = "placed"
                   => phase = "exhausted"
  BY <1>1, StepInOrder, StepAtEnd
<1> QED BY <1>1, TurnInvAlways, PTL DEF Spec, PlacedAsMeant

\* Only the turn's finally block hands a message back.
LEMMA StepReturned ==
    ASSUME TurnInv, [Next]_vars, NEW m \in Msgs, fate[m] = "queued",
           fate'[m] = "returned"
    PROVE  interrupted \/ crashed
<1>1. fate' # fate /\ fate \in [Msgs -> Fates]
  BY DEF TurnInv, TypeOK, Fates
<1>2. CASE Finalize
  <2>1. queue # <<>> /\ phase = "closing"
    BY <1>2 DEF Finalize, TurnInv, Fated
  <2> QED BY <2>1 DEF TurnInv, Left
<1>3. ASSUME NEW n \in Msgs, Inject(n) \/ Withdraw(n) PROVE FALSE
  BY <1>1, <1>3 DEF Inject, Withdraw
<1>4. CASE PlaceNextStep \/ ContinueTurn
  BY <1>4 DEF PlaceNextStep, ContinueTurn, Place
<1>5. CASE RunTask \/ Steer \/ GraceEnds \/ Interrupt
  BY <1>1, <1>5 DEF RunTask, Steer, GraceEnds, Interrupt, messages
<1>6. CASE Runner \/ IterationStart
  BY <1>1, <1>6 DEF Runner, LoopTop, BeginStream, DropResponse, EndResponse,
                    StreamFails, BeginTools, ToolsReturn, IterationStart, Goto,
                    messages
<1>7. CASE Close \/ Crash \/ Idle \/ UNCHANGED vars
  BY <1>1, <1>7 DEF Close, Crash, Idle, vars, messages
<1> QED BY <1>2, <1>3, <1>4, <1>5, <1>6, <1>7 DEF Next, Host

\* Nothing the user typed is handed back by a turn that came to its own end: it
\* goes on for as long as accepted messages wait.
THEOREM ReturnedOnlyIfCutAlways == Spec => ReturnedOnlyIfCut
<1>1. TurnInv /\ [Next]_vars =>
         [\A m \in Msgs : fate[m] = "queued" /\ fate'[m] = "returned"
                           => interrupted \/ crashed]_vars
  BY StepReturned
<1> QED BY <1>1, TurnInvAlways, PTL DEF Spec, ReturnedOnlyIfCut

-----------------------------------------------------------------------------
(* The message box.                                                        *)

\* An exception leaves the event loop.
Uncaught == crashed => phase \in {"closing", "off"}

LEMMA UncaughtStep == Uncaught /\ [Next]_vars => Uncaught'
BY DEF Uncaught, Next, RunTask, Steer, GraceEnds, Interrupt, Inject, Withdraw, Runner,
       LoopTop, BeginStream, DropResponse, EndResponse, StreamFails, BeginTools,
       ToolsReturn, Host, IterationStart, PlaceNextStep, ContinueTurn, Close, Crash,
       Finalize, Idle, Goto, vars, host

\* MessageBox speaks of sequences as AgentTurn does.
LEMMA SameWords ==
    /\ Box!Entry = Entry /\ Box!Hurried = Now
    /\ \A q : Box!Ids(q) = Ids(q)
    /\ \A q : Box!Elements(q) = Elements(q)
    /\ \A q, S : Box!Kept(q, S) = Kept(q, S)
<1>1. Box!Entry = Entry /\ Box!Hurried = Now
  BY DEF Box!Entry, Entry, Box!Hurried, Now, When
<1>2. \A q : Box!Ids(q) = Ids(q)
  BY DEF Box!Ids, Ids
<1>3. \A q : Box!Elements(q) = Elements(q)
  BY DEF Box!Elements, Elements
<1>4. \A q, S : Box!Kept(q, S) = Kept(q, S)
  BY DEF Box!Kept, Kept
<1> QED BY <1>1, <1>2, <1>3, <1>4

\* A step that leaves alone what the box shows, but for an interrupt or a crash.
LEMMA BoxStays ==
    ASSUME UNCHANGED <<isRunning, queue, memory, fate>>,
           interrupted => interrupted', crashed => crashed'
    PROVE  [Box!Next]_Box!vars
<1>1. boxBack' = boxBack
  BY DEF boxBack
<1>2. boxTurn' = boxTurn \/ (boxTurn = "whole" /\ boxTurn' = "cut")
  BY DEF boxTurn
<1> QED BY <1>1, <1>2 DEF Box!Next, Box!Cut, Box!vars

LEMMA BoxBegins == ASSUME Data, RunTask PROVE Box!Begin
<1>1. boxTurn = "none" /\ boxTurn' \in {"whole", "cut"}
  BY DEF RunTask, boxTurn
<1>2. UNCHANGED <<queue, memory, fate>>
  BY DEF RunTask, messages
<1> QED BY <1>1, <1>2 DEF Box!Begin, boxBack

LEMMA BoxAccepts ==
    ASSUME Data, Fated, NEW m \in Msgs, Inject(m)
    PROVE  Box!Accept(m)
<1>1. /\ fate[m] = "unsent" /\ isRunning /\ kind[m] \in When
      /\ queue' = Append(queue, [id |-> m, when |-> kind[m]])
      /\ fate' = [fate EXCEPT ![m] = "queued"]
      /\ UNCHANGED <<isRunning, interrupted, crashed, memory>>
  BY DEF Inject, Data, host
<1>2. boxTurn # "none" /\ boxTurn' = boxTurn
  BY <1>1 DEF boxTurn
<1>3. boxBack' = boxBack /\ m \notin boxBack
  BY <1>1 DEF boxBack, Data
<1>4. m \notin Elements(Ids(queue)) /\ m \notin Elements(memory)
  <2>1. m \notin Elements(Ids(queue))
    BY <1>1, IdsFacts DEF Data, Fated
  <2>2. m \notin Elements(memory)
    BY <1>1 DEF Fated, Elements
  <2> QED BY <2>1, <2>2
<1>5. \E w \in {"next-step", "turn-end"} : queue' = Append(queue, [id |-> m, when |-> w])
  BY <1>1 DEF When
<1> QED BY <1>1, <1>2, <1>3, <1>4, <1>5, SameWords DEF Box!Accept

LEMMA SplicedIsCut ==
    ASSUME NEW q \in Seq(Entry), NEW x \in 1..Len(q)
    PROVE  Spliced(q, x) = SubSeq(q, 1, x - 1) \o SubSeq(q, x + 1, Len(q))
<1> DEFINE a == SubSeq(q, 1, x - 1)
           b == SubSeq(q, x + 1, Len(q))
<1>1. Len(q) \in Nat /\ x \in Nat /\ 1 <= x /\ x <= Len(q)
  OBVIOUS
<1>2. a \in Seq(Entry) /\ Len(a) = x - 1 /\ \A k \in 1..(x - 1) : a[k] = q[k]
  BY <1>1
<1>3. /\ b \in Seq(Entry) /\ Len(b) = Len(q) - x
      /\ \A k \in 1..(Len(q) - x) : b[k] = q[x + k]
  BY <1>1
<1> HIDE DEF a, b
<1>4. /\ a \o b \in Seq(Entry) /\ Len(a \o b) = Len(q) - 1
      /\ \A k \in 1..(x - 1) : (a \o b)[k] = a[k]
      /\ \A k \in 1..(Len(q) - x) : (a \o b)[(x - 1) + k] = b[k]
  <2>1. (x - 1) + (Len(q) - x) = Len(q) - 1
    BY <1>1
  <2>2. /\ a \o b \in Seq(Entry) /\ Len(a \o b) = Len(a) + Len(b)
        /\ \A k \in 1..Len(a) : (a \o b)[k] = a[k]
        /\ \A k \in 1..Len(b) : (a \o b)[Len(a) + k] = b[k]
    <3>1. a \in Seq(Entry) /\ b \in Seq(Entry)
      BY <1>2, <1>3
    <3>2. \A u, v \in Seq(Entry) :
             /\ u \o v \in Seq(Entry) /\ Len(u \o v) = Len(u) + Len(v)
             /\ \A k \in 1..Len(u) : (u \o v)[k] = u[k]
             /\ \A k \in 1..Len(v) : (u \o v)[Len(u) + k] = v[k]
      BY ConcatFacts
    <3> QED BY ONLY <3>1, <3>2
  <2> QED BY <1>2, <1>3, <2>1, <2>2
<1>5. /\ Spliced(q, x) \in Seq(Entry) /\ Len(Spliced(q, x)) = Len(q) - 1
      /\ \A k \in 1..(Len(q) - 1) : Spliced(q, x)[k] = IF k < x THEN q[k] ELSE q[k + 1]
  BY SplicedFacts
<1>6. ASSUME NEW k \in 1..(Len(q) - 1) PROVE Spliced(q, x)[k] = (a \o b)[k]
  <2>1. CASE k < x
    <3>1. k \in 1..(x - 1)
      BY <1>1, <2>1
    <3>2. (a \o b)[k] = q[k]
      BY <1>2, <1>4, <3>1
    <3> QED BY <1>5, <2>1, <3>2
  <2>2. CASE ~(k < x)
    <3>1. /\ k - (x - 1) \in 1..(Len(q) - x)
          /\ (x - 1) + (k - (x - 1)) = k /\ x + (k - (x - 1)) = k + 1
      BY <1>1, <2>2
    <3>2. (a \o b)[(x - 1) + (k - (x - 1))] = b[k - (x - 1)]
      BY <1>4, <3>1
    <3>3. b[k - (x - 1)] = q[x + (k - (x - 1))]
      BY <1>3, <3>1
    <3> QED BY <1>5, <2>2, <3>1, <3>2, <3>3
  <2> QED BY <2>1, <2>2
<1>7. Spliced(q, x) = a \o b
  BY <1>4, <1>5, <1>6, SeqEqual
<1> QED BY <1>7 DEF a, b

LEMMA BoxGivesBack ==
    ASSUME Data, NEW m \in Msgs, Withdraw(m)
    PROVE  Box!TakeBack
<1>1. PICK i \in 1..Len(queue) : queue[i].id = m /\ queue' = Spliced(queue, i)
  BY DEF Withdraw
<1>2. /\ fate' = [fate EXCEPT ![m] = "withdrawn"]
      /\ UNCHANGED <<isRunning, interrupted, crashed, memory>>
  BY DEF Withdraw, host
<1>3. boxTurn' = boxTurn
  BY <1>2 DEF boxTurn
<1>4. boxBack' = boxBack \cup {m}
  BY <1>2 DEF boxBack, Data
<1>5. queue' = SubSeq(queue, 1, i - 1) \o SubSeq(queue, i + 1, Len(queue))
  BY <1>1, SplicedIsCut DEF Data
<1> QED BY <1>1, <1>2, <1>3, <1>4, <1>5 DEF Box!TakeBack

LEMMA BoxHurries == ASSUME Steer PROVE Box!Hurry
<1>1. UNCHANGED <<isRunning, interrupted, crashed, memory, fate>> /\ queue' = Promoted(queue)
  BY DEF Steer, host
<1>2. boxTurn' = boxTurn /\ boxBack' = boxBack
  BY <1>1 DEF boxTurn, boxBack
<1> QED BY <1>1, <1>2 DEF Box!Hurry, Promoted

\* Whoever is placed was waiting, and is not back.
LEMMA PlacedNotBack ==
    ASSUME Data, Fated, NEW q \in Seq(Entry), Place(q),
           \A m \in Msgs : m \in Elements(Ids(q)) => \E i \in 1..Len(queue) : queue[i].id = m
    PROVE  boxBack' = boxBack
BY DEF Place, boxBack, Fated, Data

LEMMA BoxSaysHurried ==
    ASSUME TurnInv, PlaceNextStep
    PROVE  Box!SayHurried
<1> DEFINE t == Kept(queue, Now)
<1>1. queue \in Seq(Entry) /\ Data /\ Fated
  BY TypeParts DEF TurnInv, TypeOK
<1>2. /\ queue' = Kept(queue, Entry \ Now) /\ memory' = memory \o Ids(t) /\ Place(t)
      /\ phase = "settling" /\ UNCHANGED <<isRunning, interrupted, crashed>>
  BY DEF PlaceNextStep, Place, host
<1>3. t \in Seq(Entry) /\ \E h : Picks(h, t, queue, Now, Len(queue))
  BY <1>1, KeptPicks
<1>4. boxTurn # "none" /\ boxTurn' = boxTurn
  BY <1>2 DEF boxTurn, TurnInv, Running
<1>5. boxBack' = boxBack
  <2> HIDE DEF t
  <2>1. \A m : (\E k \in 1..Len(t) : t[k].id = m) <=> Waits(m, queue, Now)
    BY <1>1, <1>3, PicksWait
  <2>2. \A m : m \in Elements(Ids(t)) <=> \E k \in 1..Len(t) : t[k].id = m
    BY <1>3, IdsFacts
  <2>3. \A m \in Msgs : m \in Elements(Ids(t)) => \E i \in 1..Len(queue) : queue[i].id = m
    BY <2>1, <2>2 DEF Waits
  <2> QED BY <1>1, <1>2, <1>3, <2>3, PlacedNotBack
<1> QED BY <1>2, <1>4, <1>5, SameWords DEF Box!SayHurried

LEMMA BoxSaysAll ==
    ASSUME TurnInv, Uncaught, ContinueTurn
    PROVE  Box!SayAll
<1>1. Data /\ Fated
  BY TypeParts DEF TurnInv
<1>2. /\ queue' = <<>> /\ memory' = memory \o Ids(queue) /\ Place(queue)
      /\ ~interrupted /\ phase = "exhausted"
      /\ UNCHANGED <<isRunning, interrupted, crashed>>
  BY DEF ContinueTurn, Place, host
<1>3. boxTurn = "whole" /\ boxTurn' = boxTurn
  BY <1>2 DEF boxTurn, Uncaught, TurnInv, Running
<1>4. boxBack' = boxBack
  <2>1. \A m : m \in Elements(Ids(queue)) <=> \E i \in 1..Len(queue) : queue[i].id = m
    BY <1>1, IdsFacts DEF Data
  <2> QED BY <1>1, <1>2, <2>1, PlacedNotBack DEF Data
<1> QED BY <1>2, <1>3, <1>4, SameWords DEF Box!SayAll

LEMMA BoxEnds ==
    ASSUME TurnInv, Finalize
    PROVE  Box!End
<1>1. /\ phase = "closing" /\ isRunning' = FALSE /\ queue' = <<>> /\ memory' = memory
      /\ fate' = [m \in Msgs |-> IF m \in Elements(Ids(queue)) THEN "returned" ELSE fate[m]]
  BY DEF Finalize
<1>2. boxTurn # "none" /\ boxTurn' = "none" /\ (boxTurn = "whole" => queue = <<>>)
  BY <1>1 DEF boxTurn, TurnInv, Running, Left
<1>3. Elements(Ids(queue)) \subseteq Msgs
  BY IdsFacts DEF TurnInv, TypeOK
<1>4. boxBack' = boxBack \cup Elements(Ids(queue))
  BY <1>1, <1>3 DEF boxBack
<1> QED BY <1>1, <1>2, <1>4, SameWords DEF Box!End

LEMMA BoxStep ==
    ASSUME TurnInv, Uncaught, [Next]_vars
    PROVE  [Box!Next]_Box!vars
<1>0. Data /\ Fated
  BY TypeParts DEF TurnInv
<1>1. CASE RunTask
  BY <1>0, <1>1, BoxBegins DEF Box!Next
<1>2. CASE Steer
  BY <1>2, BoxHurries DEF Box!Next
<1>3. ASSUME NEW m \in Msgs, Inject(m) PROVE [Box!Next]_Box!vars
  BY <1>0, <1>3, BoxAccepts DEF Box!Next
<1>4. ASSUME NEW m \in Msgs, Withdraw(m) PROVE [Box!Next]_Box!vars
  BY <1>0, <1>4, BoxGivesBack DEF Box!Next
<1>5. CASE PlaceNextStep
  BY <1>5, BoxSaysHurried DEF Box!Next
<1>6. CASE ContinueTurn
  BY <1>6, BoxSaysAll DEF Box!Next
<1>7. CASE Finalize
  BY <1>7, BoxEnds DEF Box!Next
<1>8. CASE GraceEnds \/ Interrupt \/ Close \/ Crash \/ Idle \/ UNCHANGED vars
  <2>1. /\ UNCHANGED <<isRunning, queue, memory, fate>>
        /\ interrupted => interrupted'
        /\ crashed => crashed'
    BY <1>8 DEF GraceEnds, Interrupt, Close, Crash, Idle, vars, host, messages
  <2> QED BY <2>1, BoxStays
<1>9. CASE Runner \/ IterationStart
  <2>1. UNCHANGED <<isRunning, queue, memory, fate, interrupted, crashed>>
    BY <1>9 DEF Runner, LoopTop, BeginStream, DropResponse, EndResponse, StreamFails,
       BeginTools, ToolsReturn, IterationStart, Goto, host, messages
  <2> QED BY <2>1, BoxStays
<1> QED BY <1>1, <1>2, <1>3, <1>4, <1>5, <1>6, <1>7, <1>8, <1>9 DEF Next, Host

\* Whatever the model streams and the tools do, and whatever steering, interrupts and
\* exceptions cut, the host keeps what MessageBox promises the user: for any messages and
\* any number of turns.
THEOREM BoxRefinement == Spec => ImplementsBox
<1>1. Init => Box!Init /\ Uncaught
  BY DEF Init, Box!Init, boxTurn, boxBack, Uncaught
<1>2. TurnInv /\ Uncaught /\ [Next]_vars => [Box!Next]_Box!vars
  BY BoxStep
<1> QED BY <1>1, <1>2, UncaughtStep, TurnInvAlways, PTL
        DEF Spec, ImplementsBox, Box!Spec

-----------------------------------------------------------------------------
(* The event stream: what the client has and what is still on its way.     *)

\* Nothing has gone wrong but lost connections and a restart.
Healthy == faults \subseteq {"restart"}

\* The ring holds the last events published, without a gap.
RingIsLast ==
    /\ Len(ring) <= globalSeq
    /\ \A i \in 1..Len(ring) : ring[i] = globalSeq - Len(ring) + i

\* A response is open while the client reads, and nothing has a number that
\* has not been given out.
Numbered ==
    /\ mode = "dialing" => sub = Closed /\ wire = <<>>
    /\ mode = "reading" => sub.stage # "closed"
    /\ sub.at <= globalSeq
    /\ \A i \in 1..Len(sub.queue) : sub.queue[i] <= globalSeq
    /\ \A i \in 1..Len(wire) : wire[i].seq <= globalSeq
    /\ \A i \in 1..Len(got) : got[i].seq <= globalSeq /\ got[i].seq <= lastSeqNum

\* What the client has, what is on the wire and what is queued lie behind one
\* another in the order of the numbers.
InOrder ==
    /\ \A i, j \in 1..Len(sub.queue) : i < j => sub.queue[i] < sub.queue[j]
    /\ \A i, j \in 1..Len(wire) :
          i < j /\ wire[i].id /\ wire[j].id => wire[i].seq < wire[j].seq
    /\ \A i \in 1..Len(wire), j \in 1..Len(sub.queue) :
          wire[i].id => wire[i].seq < sub.queue[j]
    /\ mode = "reading" => \A i \in 1..Len(got) : got[i].id =>
          /\ \A j \in 1..Len(wire) : wire[j].id => got[i].seq < wire[j].seq
          /\ \A j \in 1..Len(sub.queue) : got[i].seq < sub.queue[j]

\* The client's position: it never lies behind the one it has subscribed from,
\* and only one that an earlier incarnation left behind can exceed the numbers.
Position ==
    /\ lastSeqNum <= globalSeq \/ lastSeqNum <= stale
    /\ sub.from <= lastSeqNum
    /\ sub.from <= sub.at \/ sub.from <= stale
    /\ sub.cached => sub.from = 0

\* Without a split, a clean end or a late cache the client asks for all that
\* lies above its position, and all that is on its way does.
Resumes ==
    Healthy =>
    /\ mode = "dialing" /\ ~retry => lastSeqNum = 0
    /\ mode = "reading" =>
        /\ lastSeqNum <= sub.from \/ lastSeqNum <= globalSeq
        /\ \A i \in 1..Len(wire) :
              IF wire[i].id THEN wire[i].seq > lastSeqNum
              ELSE sub.from = 0 /\ wire[i].seq <= sub.at
        /\ \A i \in 1..Len(sub.queue) : sub.queue[i] > lastSeqNum
        /\ sub.from = 0 =>
              /\ \A i \in 1..Len(sub.queue) : sub.queue[i] > sub.at
              /\ \A i \in 1..Len(wire) : wire[i].id => wire[i].seq > sub.at
              /\ \A i \in 1..Len(got) : got[i].id => got[i].seq > sub.at

\* Up to its position the client has everything after the first event it was
\* given, and what is above the position it has subscribed from is on its way.
NothingLost ==
    Healthy =>
    /\ \A d \in Streamed, s \in 1..globalSeq :
          d < s /\ stale < s /\ s <= lastSeqNum => s \in Delivered \cup evicted
    /\ mode = "reading" =>
          \A s \in 1..globalSeq :
              s > sub.from /\ (sub.from > 0 \/ s > sub.at)
              => s \in Delivered \cup OnTheWay \cup evicted

StreamInv ==
    /\ StreamTypeOK /\ DeliveredInOrder
    /\ RingIsLast /\ Numbered /\ InOrder /\ Position /\ Resumes /\ NothingLost

\* The ring after a push: the oldest event is gone if it was full.
LEMMA PushFacts ==
    ASSUME NEW buffer \in Seq(Event), Len(buffer) <= Capacity, NEW e \in Event
    PROVE  LET r == PushToBuffer(buffer, e)
           IN  /\ r \in Seq(Event) /\ Len(r) <= Capacity
               /\ \E k \in {0, 1} :
                     /\ Len(r) = Len(buffer) + 1 - k
                     /\ \A i \in 1..(Len(r) - 1) : r[i] = buffer[i + k]
                     /\ r[Len(r)] = e
<1>1. Capacity \in Nat /\ Capacity >= 1 /\ Len(buffer) \in Nat
  BY StreamAssumption
<1>2. CASE Len(buffer) < Capacity
  <2> DEFINE r == Append(buffer, e)
  <2>1. PushToBuffer(buffer, e) = r
    BY <1>2 DEF PushToBuffer
  <2>2. r \in Seq(Event) /\ Len(r) = Len(buffer) + 1 /\ r[Len(r)] = e
        /\ \A i \in 1..Len(buffer) : r[i] = buffer[i]
    OBVIOUS
  <2> HIDE DEF r
  <2> QED BY <1>1, <1>2, <2>1, <2>2
<1>3. CASE Len(buffer) >= Capacity
  <2>1. Len(buffer) = Capacity
    BY <1>1, <1>3
  <2> DEFINE t == SubSeq(buffer, 2, Len(buffer))
             r == Append(t, e)
  <2>2. PushToBuffer(buffer, e) = r
    BY <1>1, <2>1 DEF PushToBuffer
  <2>3. /\ t \in Seq(Event) /\ Len(t) = Len(buffer) - 1
        /\ \A i \in 1..Len(t) : t[i] = buffer[i + 1]
    BY <1>1, <2>1
  <2> HIDE DEF t
  <2>4. r \in Seq(Event) /\ Len(r) = Len(t) + 1 /\ r[Len(r)] = e
        /\ \A i \in 1..Len(t) : r[i] = t[i]
    BY <2>3
  <2> HIDE DEF r
  <2> QED BY <1>1, <2>1, <2>2, <2>3, <2>4
<1> QED BY <1>1, <1>2, <1>3

Message == [seq : Event, id : BOOLEAN]

\* What the types say, piece by piece.
LEMMA StreamFacts ==
    ASSUME StreamTypeOK
    PROVE  /\ MaxSeq \in Nat /\ globalSeq \in Nat /\ globalSeq <= MaxSeq
           /\ lastSeqNum \in Nat /\ lastSeqNum <= MaxSeq
           /\ stale \in Nat /\ stale <= MaxSeq
           /\ lastRunResult \in Nat /\ lastRunResult <= globalSeq
           /\ ring \in Seq(Event) /\ Len(ring) \in Nat /\ Len(ring) <= Capacity
           /\ sub.from \in Nat /\ sub.from <= MaxSeq
           /\ sub.at \in Nat /\ sub.at <= MaxSeq
           /\ sub.queue \in Seq(Event) /\ Len(sub.queue) \in Nat
           /\ \A i \in 1..Len(sub.queue) : sub.queue[i] \in Nat /\ sub.queue[i] >= 1
           /\ wire \in Seq(Message) /\ Len(wire) \in Nat
           /\ \A i \in 1..Len(wire) :
                 wire[i] \in Message /\ wire[i].seq \in Nat /\ wire[i].seq >= 1
           /\ got \in Seq(Message) /\ Len(got) \in Nat
           /\ \A i \in 1..Len(got) :
                 got[i] \in Message /\ got[i].seq \in Nat /\ got[i].seq >= 1
           /\ mode \in {"dialing", "reading"}
           /\ evicted \subseteq Event
<1>1. MaxSeq \in Nat /\ globalSeq \in 0..MaxSeq /\ lastSeqNum \in 0..MaxSeq
      /\ stale \in 0..MaxSeq /\ lastRunResult \in 0..globalSeq
      /\ Len(ring) <= Capacity /\ mode \in {"dialing", "reading"}
      /\ evicted \subseteq Event
  BY StreamAssumption DEF StreamTypeOK
<1>2. ring \in Seq(Event)
  BY DEF StreamTypeOK
<1>3. /\ sub.from \in 0..MaxSeq /\ sub.at \in 0..MaxSeq
      /\ sub.queue \in Seq(Event)
  BY DEF StreamTypeOK
<1>4. wire \in Seq(Message) /\ got \in Seq(Message)
  BY DEF StreamTypeOK, Message
<1>5. \A i \in 1..Len(sub.queue) : sub.queue[i] \in Nat /\ sub.queue[i] >= 1
  BY <1>1, <1>3 DEF Event
<1>6. \A m \in Message : m.seq \in Nat /\ m.seq >= 1
  BY <1>1 DEF Message, Event
<1>7. Len(ring) \in Nat /\ Len(sub.queue) \in Nat /\ Len(wire) \in Nat
      /\ Len(got) \in Nat
  BY <1>2, <1>3, <1>4
<1>8. /\ \A i \in 1..Len(wire) : wire[i] \in Message
      /\ \A i \in 1..Len(got) : got[i] \in Message
  BY <1>4
<1> QED BY <1>1, <1>2, <1>3, <1>4, <1>5, <1>6, <1>7, <1>8

LEMMA StreamInitInv == StreamInit => StreamInv
<1> SUFFICES ASSUME StreamInit PROVE StreamInv
  OBVIOUS
<1> USE DEF StreamInit, Closed
<1>1. StreamTypeOK
  <2>1. /\ epoch \in 1..MaxEpoch /\ globalSeq \in 0..MaxSeq
        /\ lastRunResult \in 0..globalSeq /\ timers \in 0..MaxTimers
        /\ lastSeqNum \in 0..MaxSeq /\ breaks \in 0..MaxBreaks
        /\ stale \in 0..MaxSeq
    BY StreamAssumption
  <2>2. ring \in Seq(Event) /\ Len(ring) <= Capacity
    BY StreamAssumption
  <2>3. sub \in [stage : {"closed", "hello", "loop"}, from : 0..MaxSeq,
                cached : BOOLEAN, at : 0..MaxSeq, queue : Seq(Event)]
    BY StreamAssumption
  <2>4. /\ wire \in Seq([seq : Event, id : BOOLEAN])
        /\ got \in Seq([seq : Event, id : BOOLEAN])
        /\ evicted \subseteq Event
    OBVIOUS
  <2>5. /\ faults \subseteq {"restart", "split", "cleanEnd", "lateCache"}
        /\ mode \in {"dialing", "reading"} /\ retry \in BOOLEAN
    OBVIOUS
  <2> QED BY <2>1, <2>2, <2>3, <2>4, <2>5 DEF StreamTypeOK
<1>2. DeliveredInOrder /\ RingIsLast /\ Numbered /\ InOrder /\ Position /\ Resumes
  BY DEF DeliveredInOrder, RingIsLast, Numbered, InOrder, Position, Resumes
<1>3. NothingLost
  BY DEF NothingLost, Streamed
<1> QED BY <1>1, <1>2, <1>3 DEF StreamInv

LEMMA PublishInv ==
    ASSUME StreamInv, Publish
    PROVE  StreamInv'
<1> DEFINE e == globalSeq + 1
           taken == sub.stage # "closed" /\ e > sub.from
<1>1. StreamTypeOK /\ DeliveredInOrder /\ RingIsLast /\ Numbered /\ InOrder
      /\ Position /\ Resumes /\ NothingLost
  BY DEF StreamInv
<1>2. /\ globalSeq < MaxSeq /\ globalSeq' = e
      /\ ring' = PushToBuffer(ring, e)
      /\ sub' = IF taken THEN [sub EXCEPT !.queue = Append(@, e)] ELSE sub
      /\ UNCHANGED <<epoch, wire, mode, retry, lastSeqNum, breaks, got, evicted,
                     faults, stale>>
  BY DEF Publish, Handle, client, history
<1>3. e \in Event /\ e \in Nat
  BY <1>1, <1>2, StreamFacts DEF Event
<1>4. /\ ring' \in Seq(Event) /\ Len(ring') <= Capacity
      /\ \E k \in {0, 1} :
            /\ Len(ring') = Len(ring) + 1 - k
            /\ \A i \in 1..(Len(ring') - 1) : ring'[i] = ring[i + k]
            /\ ring'[Len(ring')] = e
  <2>1. ring \in Seq(Event) /\ Len(ring) <= Capacity
    BY <1>1, StreamFacts
  <2> HIDE DEF e
  <2> QED BY <1>2, <1>3, <2>1, PushFacts
<1>5. /\ sub' \in [stage : {"closed", "hello", "loop"}, from : 0..MaxSeq,
                   cached : BOOLEAN, at : 0..MaxSeq, queue : Seq(Event)]
      /\ sub'.stage = sub.stage /\ sub'.from = sub.from
      /\ sub'.cached = sub.cached /\ sub'.at = sub.at
      /\ sub'.queue = IF taken THEN Append(sub.queue, e) ELSE sub.queue
  <2> HIDE DEF e, taken
  <2>1. sub \in [stage : {"closed", "hello", "loop"}, from : 0..MaxSeq,
                 cached : BOOLEAN, at : 0..MaxSeq, queue : Seq(Event)]
    BY <1>1 DEF StreamTypeOK
  <2>2. Append(sub.queue, e) \in Seq(Event)
    BY <1>3, <2>1
  <2> QED BY <1>2, <2>1, <2>2
<1>6. taken => /\ Len(sub'.queue) = Len(sub.queue) + 1
               /\ sub'.queue[Len(sub.queue) + 1] = e
               /\ \A i \in 1..Len(sub.queue) : sub'.queue[i] = sub.queue[i]
  <2>1. sub.queue \in Seq(Event)
    BY <1>1, StreamFacts
  <2> HIDE DEF e, taken
  <2> QED BY <1>3, <1>5, <2>1
<1>7. StreamTypeOK'
  <2>1. lastRunResult' \in 0..globalSeq' /\ timers' \in 0..MaxTimers
    <3>1. timers \in 0..MaxTimers /\ MaxTimers \in Nat
      BY <1>1, StreamAssumption DEF StreamTypeOK
    <3>2. \/ timers < MaxTimers /\ lastRunResult' = e /\ timers' = timers + 1
          \/ UNCHANGED <<lastRunResult, timers>>
      BY DEF Publish
    <3>3. lastRunResult \in Nat /\ lastRunResult <= globalSeq /\ globalSeq \in Nat
      BY <1>1, StreamFacts
    <3> QED BY <1>2, <1>3, <3>1, <3>2, <3>3
  <2>2. globalSeq' \in 0..MaxSeq
    BY <1>2, <1>3, <1>1, StreamFacts
  <2> HIDE DEF e, taken
  <2> QED BY <1>1, <1>2, <1>4, <1>5, <2>1, <2>2 DEF StreamTypeOK
<1>8. RingIsLast'
  <2>1. PICK k \in {0, 1} :
            /\ Len(ring') = Len(ring) + 1 - k
            /\ \A i \in 1..(Len(ring') - 1) : ring'[i] = ring[i + k]
            /\ ring'[Len(ring')] = e
    BY <1>4
  <2>2. Len(ring) \in Nat /\ globalSeq \in Nat /\ Len(ring) <= globalSeq
        /\ \A i \in 1..Len(ring) : ring[i] = globalSeq - Len(ring) + i
    BY <1>1, StreamFacts DEF RingIsLast
  <2>3. Len(ring') <= e
    BY <2>1, <2>2
  <2>4. ASSUME NEW i \in 1..Len(ring')
        PROVE  ring'[i] = e - Len(ring') + i
    <3>1. CASE i = Len(ring')
      BY <1>3, <2>1, <2>2, <3>1
    <3>2. CASE i # Len(ring')
      <4>1. i \in 1..(Len(ring') - 1) /\ i + k \in 1..Len(ring)
        BY <2>1, <2>2, <3>2
      <4> QED BY <2>1, <2>2, <4>1
    <3> QED BY <3>1, <3>2
  <2> QED BY <1>2, <2>3, <2>4 DEF RingIsLast
<1> DEFINE q == sub.queue
           r == sub'.queue
<1>9. /\ \/ taken /\ Len(r) = Len(q) + 1 /\ r[Len(q) + 1] = e
                   /\ \A i \in 1..Len(q) : r[i] = q[i]
         \/ ~taken /\ r = q
      /\ Len(q) \in Nat
      /\ \A i \in 1..Len(q) : q[i] \in Nat /\ q[i] <= globalSeq
      /\ globalSeq \in Nat
  BY <1>1, <1>5, <1>6, StreamFacts DEF Numbered
<1>10. /\ \A i \in 1..Len(wire) : wire[i].seq \in Nat /\ wire[i].seq <= globalSeq
       /\ \A i \in 1..Len(got) : got[i].seq \in Nat /\ got[i].seq <= globalSeq
       /\ globalSeq \in Nat
  BY <1>1, StreamFacts DEF Numbered
<1>11. Numbered'
  <2>1. mode = "dialing" => sub' = Closed
    BY <1>1, <1>2 DEF Numbered, Closed
  <2>2. sub'.at <= globalSeq'
    BY <1>1, <1>2, <1>5, StreamFacts DEF Numbered
  <2>3. \A i \in 1..Len(r) : r[i] <= globalSeq'
    <3> HIDE DEF q, r, taken
    <3> QED BY <1>2, <1>9
  <2>4. /\ \A i \in 1..Len(wire) : wire[i].seq <= globalSeq'
        /\ \A i \in 1..Len(got) : got[i].seq <= globalSeq'
    BY <1>2, <1>10
  <2> HIDE DEF e, taken
  <2> QED BY <1>1, <1>2, <1>5, <2>1, <2>2, <2>3, <2>4 DEF Numbered
<1>12. InOrder' /\ DeliveredInOrder'
  <2>1. \A i, j \in 1..Len(r) : i < j => r[i] < r[j]
    <3>1. \A i, j \in 1..Len(q) : i < j => q[i] < q[j]
      BY <1>1 DEF InOrder
    <3> HIDE DEF q, r, taken
    <3> QED BY <1>9, <3>1
  <2>2. \A j \in 1..Len(r) : r[j] = e \/ \E k \in 1..Len(q) : r[j] = q[k]
    <3> HIDE DEF q, r, taken
    <3> QED BY <1>9
  <2>3. /\ \A i \in 1..Len(wire) : wire[i].seq < e
        /\ \A i \in 1..Len(got) : got[i].seq < e
    BY <1>10
  <2> HIDE DEF e, taken
  <2> QED BY <1>1, <1>2, <2>1, <2>2, <2>3 DEF InOrder, DeliveredInOrder
<1>13. Position' /\ Resumes'
  <2>1. Position'
    BY <1>1, <1>2, <1>5, StreamFacts DEF Position
  <2>2. \A j \in 1..Len(r) : (taken /\ r[j] = e) \/ \E k \in 1..Len(q) : r[j] = q[k]
    <3> HIDE DEF q, r, taken
    <3> QED BY <1>9
  <2>3. taken /\ (lastSeqNum <= sub.from \/ lastSeqNum <= globalSeq)
        => e > lastSeqNum
    BY <1>1, StreamFacts
  <2>4. e > sub.at
    BY <1>1, StreamFacts DEF Numbered
  <2>5. lastSeqNum <= globalSeq => lastSeqNum <= globalSeq'
    BY <1>1, <1>2, StreamFacts
  <2> HIDE DEF e, taken
  <2> QED BY <1>1, <1>2, <1>5, <2>1, <2>2, <2>3, <2>4, <2>5 DEF Resumes, Healthy
<1>14. NothingLost'
  <2>1. \A k \in 1..Len(q) : k \in 1..Len(r) /\ r[k] = q[k]
    <3> HIDE DEF q, r, taken
    <3> QED BY <1>9
  <2>2. taken => \E k \in 1..Len(r) : r[k] = e
    <3> HIDE DEF q, r, taken
    <3> QED BY <1>9
  <2>3. OnTheWay \subseteq OnTheWay' /\ (taken => e \in OnTheWay')
    <3> HIDE DEF e, taken
    <3> QED BY <1>2, <2>1, <2>2 DEF OnTheWay, Elements
  <2>4. Delivered' = Delivered /\ Streamed' = Streamed /\ evicted' = evicted
    BY <1>2 DEF Delivered, Streamed
  <2>5. Healthy' = Healthy
    BY <1>2 DEF Healthy
  <2>6. \A s \in 1..globalSeq' : s = e \/ s \in 1..globalSeq
    BY <1>2, <1>9
  <2>7. mode = "reading" /\ e > sub.from => taken
    BY <1>1 DEF Numbered
  <2>8. e > lastSeqNum \/ e <= stale
    BY <1>1, StreamFacts DEF Position
  <2>9. ~(stale < e /\ e <= stale) /\ ~(e <= lastSeqNum /\ e > lastSeqNum)
    BY <1>1, StreamFacts
  <2> HIDE DEF e, taken
  <2> QED BY <1>1, <1>2, <1>5, <2>3, <2>4, <2>5, <2>6, <2>7, <2>8, <2>9
          DEF NothingLost
<1> QED BY <1>7, <1>8, <1>11, <1>12, <1>13, <1>14 DEF StreamInv

\* A step that leaves the stream alone, or only notes that the client comes
\* back.
LEMMA QuietInv ==
    ASSUME StreamInv, StreamTypeOK', RingIsLast', retry => retry',
           UNCHANGED <<globalSeq, sub, wire, mode, lastSeqNum, got, evicted,
                       faults, stale>>
    PROVE  StreamInv'
<1>1. DeliveredInOrder' /\ Numbered' /\ InOrder' /\ Position' /\ Resumes'
  BY DEF StreamInv, DeliveredInOrder, Numbered, InOrder, Position, Resumes, Healthy
<1>2. NothingLost'
  BY DEF StreamInv, NothingLost, Healthy, Streamed, Delivered, OnTheWay
<1> QED BY <1>1, <1>2 DEF StreamInv

LEMMA BusInv ==
    ASSUME StreamInv, ResultTimer \/ ClearSessionBuffer
    PROVE  StreamInv'
<1>1. StreamTypeOK /\ RingIsLast
  BY DEF StreamInv
<1>2. /\ lastRunResult' = 0
      /\ \/ timers' = timers
         \/ timers > 0 /\ timers' = timers - 1
      /\ ring' = ring \/ ring' = <<>>
      /\ UNCHANGED <<epoch, globalSeq, sub, wire, mode, retry, lastSeqNum, breaks,
                     got, evicted, faults, stale>>
  BY DEF ResultTimer, ClearSessionBuffer, client, history
<1>3. RingIsLast'
  BY SMTT(30), <1>1, <1>2, StreamFacts DEF RingIsLast
<1>4. StreamTypeOK'
  <2>1. timers' \in 0..MaxTimers
    BY <1>1, <1>2, StreamAssumption DEF StreamTypeOK
  <2>2. ring' \in Seq(Event) /\ Len(ring') <= Capacity
    <3>1. <<>> \in Seq(Event) /\ Len(<<>>) <= Capacity
      BY StreamAssumption
    <3> QED BY <1>1, <1>2, <3>1, StreamFacts
  <2>3. lastRunResult' \in 0..globalSeq'
    BY <1>1, <1>2, StreamFacts
  <2> QED BY <1>1, <1>2, <2>1, <2>2, <2>3 DEF StreamTypeOK
<1> QED BY <1>2, <1>3, <1>4, QuietInv

LEMMA DialFailsInv ==
    ASSUME StreamInv, DialFails
    PROVE  StreamInv'
<1>1. /\ retry' = TRUE
      /\ UNCHANGED <<epoch, globalSeq, ring, lastRunResult, timers, sub, wire, mode,
                     lastSeqNum, breaks, got, evicted, faults, stale>>
  BY DEF DialFails, bus, history
<1>2. StreamTypeOK' /\ RingIsLast'
  BY <1>1 DEF StreamInv, StreamTypeOK, RingIsLast
<1> QED BY <1>1, <1>2, QuietInv

\* What is replayed is what the ring holds above the position, in order.
LEMMA ReplayFacts ==
    ASSUME StreamTypeOK, RingIsLast, NEW from \in Nat, NEW r, r = ReplayFrom(from)
    PROVE  /\ r \in Seq(Event)
           /\ \A i, j \in 1..Len(r) : i < j => r[i] < r[j]
           /\ \A i \in 1..Len(r) : r[i] > from /\ r[i] <= globalSeq
           /\ \A e \in Elements(ring) : e > from => e \in Elements(r)
<1> DEFINE S == {e \in Event : e > from}
<1>1. ring \in Seq(Event) /\ Len(ring) \in Nat /\ globalSeq \in Nat
      /\ \A i \in 1..Len(ring) : ring[i] \in Event
  BY StreamFacts
<1>2. r = Kept(ring, S)
  BY DEF ReplayFrom
<1> HIDE DEF S
<1>3. r \in Seq(Event) /\ \E h : Picks(h, r, ring, S, Len(ring))
  BY <1>1, <1>2, KeptPicks
<1>4. PICK h : Picks(h, r, ring, S, Len(ring))
  BY <1>3
<1>5. /\ \A k \in 1..Len(r) : h[k] \in 1..Len(ring) /\ r[k] = ring[h[k]]
                              /\ ring[h[k]] \in S
      /\ \A k, l \in 1..Len(r) : k < l => h[k] < h[l]
      /\ \A i \in 1..Len(ring) : ring[i] \in S => \E k \in 1..Len(r) : h[k] = i
  BY <1>4 DEF Picks
<1>6. /\ \A i, j \in 1..Len(ring) : i < j => ring[i] < ring[j]
      /\ \A i \in 1..Len(ring) : ring[i] <= globalSeq
  BY <1>1 DEF RingIsLast
<1>7. \A i, j \in 1..Len(r) : i < j => r[i] < r[j]
  BY SMTT(30), <1>5, <1>6
<1>8. \A i \in 1..Len(r) : r[i] > from /\ r[i] <= globalSeq
  BY <1>5, <1>6 DEF S
<1>9. ASSUME NEW e \in Elements(ring), e > from
      PROVE  e \in Elements(r)
  <2>1. PICK i \in 1..Len(ring) : ring[i] = e
    BY DEF Elements
  <2>2. ring[i] \in S
    BY <1>1, <1>9, <2>1 DEF S
  <2>3. PICK k \in 1..Len(r) : h[k] = i
    BY <1>5, <2>2
  <2> QED BY <1>5, <2>1, <2>3 DEF Elements
<1> QED BY <1>3, <1>7, <1>8, <1>9

LEMMA SubscribeInv ==
    ASSUME StreamInv, Subscribe
    PROVE  StreamInv'
<1> DEFINE from == IF retry THEN lastSeqNum ELSE 0
           q == sub'.queue
<1>1. StreamTypeOK /\ DeliveredInOrder /\ RingIsLast /\ Numbered /\ InOrder
      /\ Position /\ Resumes /\ NothingLost
  BY DEF StreamInv
<1>2. /\ mode = "dialing"
      /\ sub' = SubscriptionFrom(from)
      /\ evicted' = IF from = 0 THEN evicted
                    ELSE evicted \cup ((from + 1)..globalSeq \ Elements(ring))
      /\ wire' = <<>> /\ mode' = "reading" /\ retry' = FALSE
      /\ UNCHANGED <<epoch, globalSeq, ring, lastRunResult, timers, lastSeqNum,
                     breaks, got, faults, stale>>
  BY DEF Subscribe, bus
<1>3. /\ from \in Nat /\ from <= MaxSeq /\ from <= lastSeqNum
      /\ from = 0 \/ from = lastSeqNum
  BY <1>1, StreamFacts
<1> HIDE DEF from
<1>4. /\ sub'.stage = "hello" /\ sub'.from = from /\ sub'.at = globalSeq
      /\ sub'.cached = (retry /\ from = 0)
      /\ q = IF from > 0 THEN ReplayFrom(from) ELSE <<>>
  BY <1>2 DEF SubscriptionFrom
<1>5. /\ q \in Seq(Event)
      /\ \A i, j \in 1..Len(q) : i < j => q[i] < q[j]
      /\ \A i \in 1..Len(q) : q[i] > from /\ q[i] <= globalSeq
      /\ from > 0 => \A e \in Elements(ring) : e > from => e \in Elements(q)
      /\ from = 0 => q = <<>>
  <2>1. CASE from > 0
    <3>1. q = ReplayFrom(from)
      BY <1>4, <2>1
    <3> HIDE DEF q
    <3>2. /\ q \in Seq(Event)
          /\ \A i, j \in 1..Len(q) : i < j => q[i] < q[j]
          /\ \A i \in 1..Len(q) : q[i] > from /\ q[i] <= globalSeq
          /\ \A e \in Elements(ring) : e > from => e \in Elements(q)
      BY <1>1, <1>3, <3>1, ReplayFacts
    <3> QED BY <2>1, <3>2
  <2>2. CASE ~(from > 0)
    <3>1. q = <<>> /\ <<>> \in Seq(Event)
      BY <1>4, <2>2
    <3> HIDE DEF q
    <3> QED BY <2>2, <3>1
  <2> QED BY <2>1, <2>2
<1>6. StreamTypeOK'
  <2>1. sub' \in [stage : {"closed", "hello", "loop"}, from : 0..MaxSeq,
                  cached : BOOLEAN, at : 0..MaxSeq, queue : Seq(Event)]
    <3>1. from \in 0..MaxSeq /\ globalSeq \in 0..MaxSeq
      BY <1>1, <1>3, StreamFacts
    <3>2. sub' = [stage |-> "hello", from |-> from, cached |-> retry /\ from = 0,
                  at |-> globalSeq, queue |-> q]
      BY <1>2 DEF SubscriptionFrom
    <3> HIDE DEF q
    <3> QED BY <1>5, <3>1, <3>2
  <2>2. evicted' \subseteq Event
    <3>1. ((from + 1)..globalSeq) \subseteq Event
      BY <1>1, <1>3, StreamFacts DEF Event
    <3> QED BY <1>1, <1>2, <3>1, StreamFacts
  <2>3. wire' \in Seq([seq : Event, id : BOOLEAN])
    BY <1>2
  <2> QED BY <1>1, <1>2, <2>1, <2>2, <2>3 DEF StreamTypeOK
<1>7. RingIsLast' /\ DeliveredInOrder'
  BY <1>1, <1>2 DEF RingIsLast, DeliveredInOrder
<1>8. Numbered'
  <2> HIDE DEF q
  <2> QED BY <1>1, <1>2, <1>4, <1>5, StreamFacts DEF Numbered, q
<1>9. Healthy /\ from = 0 => lastSeqNum = 0
  BY <1>1, <1>2, <1>3 DEF Resumes, from
<1>10. from = 0 => q = <<>>
  BY <1>5
<1>11. from > 0 => \A i \in 1..Len(got), j \in 1..Len(q) : got[i].seq < q[j]
  <2>1. \A i \in 1..Len(got) : got[i].seq \in Nat /\ got[i].seq <= lastSeqNum
    BY <1>1, StreamFacts DEF Numbered
  <2>2. Event \subseteq Nat
    BY <1>1, StreamFacts DEF Event
  <2> HIDE DEF q
  <2>3. \A j \in 1..Len(q) : q[j] > from /\ q[j] \in Nat
    <3>1. q \in Seq(Event)
      BY <1>5
    <3>2. \A j \in 1..Len(q) : q[j] \in Event
      BY <3>1
    <3> QED BY <1>5, <2>2, <3>2
  <2> QED BY <1>3, <2>1, <2>3
<1>12. InOrder'
  BY <1>2, <1>3, <1>5, <1>10, <1>11 DEF InOrder
<1>13. Position'
  <2>1. lastSeqNum <= globalSeq \/ lastSeqNum <= stale
    BY <1>1 DEF Position
  <2>2. from <= globalSeq \/ from <= stale
    BY <1>1, <1>3, <2>1, StreamFacts
  <2>3. sub'.cached => from = 0
    BY <1>4
  <2> QED BY <1>2, <1>3, <1>4, <2>1, <2>2, <2>3 DEF Position
<1>14. Healthy => from = lastSeqNum
  BY <1>3, <1>9
<1>15. Healthy /\ from = 0 => Len(got) = 0
  BY <1>1, <1>9, StreamFacts DEF Numbered
<1>16. Resumes'
  <2>1. Healthy' = Healthy
    BY <1>2 DEF Healthy
  <2> QED BY <1>1, <1>2, <1>4, <1>5, <1>10, <1>14, <1>15, <2>1, StreamFacts DEF Resumes
<1>17. NothingLost'
  <2>1. Healthy' = Healthy /\ Delivered' = Delivered /\ Streamed' = Streamed
    BY <1>2 DEF Healthy, Delivered, Streamed
  <2>2. evicted \subseteq evicted'
    BY <1>2
  <2>3. ASSUME NEW s \in 1..globalSeq, s > from, from > 0
        PROVE  s \in OnTheWay' \cup evicted'
    <3>1. s \in Elements(ring) => s \in Elements(q)
      BY <1>5, <2>3
    <3>2. s \in (from + 1)..globalSeq
      BY <1>1, <1>3, <2>3, StreamFacts
    <3> QED BY <1>2, <1>3, <2>3, <3>1, <3>2 DEF OnTheWay
  <2>4. \A s \in 1..globalSeq : ~(s > globalSeq)
    BY <1>1, StreamFacts
  <2> QED BY <1>1, <1>2, <1>4, <2>1, <2>2, <2>3, <2>4 DEF NothingLost
<1> QED BY <1>6, <1>7, <1>8, <1>12, <1>13, <1>16, <1>17 DEF StreamInv

\* A message goes on the wire behind what is there.
LEMMA WireFacts ==
    ASSUME StreamTypeOK, NEW m \in Message, wire' = Append(wire, m)
    PROVE  /\ wire' \in Seq(Message)
           /\ Len(wire') = Len(wire) + 1 /\ wire'[Len(wire) + 1] = m
           /\ \A i \in 1..Len(wire) : i \in 1..Len(wire') /\ wire'[i] = wire[i]
<1>1. wire \in Seq(Message)
  BY StreamFacts
<1> QED BY <1>1

LEMMA HelloInv ==
    ASSUME StreamInv, Hello
    PROVE  StreamInv'
<1> DEFINE told == sub.cached /\ lastRunResult # 0
           m == [seq |-> lastRunResult, id |-> FALSE]
<1>1. StreamTypeOK /\ DeliveredInOrder /\ RingIsLast /\ Numbered /\ InOrder
      /\ Position /\ Resumes /\ NothingLost
  BY DEF StreamInv
<1>2. /\ sub.stage = "hello"
      /\ sub' = [sub EXCEPT !.stage = "loop"]
      /\ told => /\ wire' = Append(wire, m)
                 /\ faults' = IF lastRunResult > sub.at
                              THEN faults \cup {"lateCache"} ELSE faults
      /\ ~told => wire' = wire /\ faults' = faults
      /\ UNCHANGED <<epoch, globalSeq, ring, lastRunResult, timers, mode, retry,
                     lastSeqNum, breaks, got, evicted, stale>>
  BY DEF Hello, bus, client
<1>3. mode = "reading"
  BY <1>1, <1>2, StreamFacts DEF Numbered, Closed
<1>4. /\ sub'.stage = "loop" /\ sub'.from = sub.from /\ sub'.cached = sub.cached
      /\ sub'.at = sub.at /\ sub'.queue = sub.queue
      /\ sub' \in [stage : {"closed", "hello", "loop"}, from : 0..MaxSeq,
                   cached : BOOLEAN, at : 0..MaxSeq, queue : Seq(Event)]
  BY <1>1, <1>2 DEF StreamTypeOK
<1>5. told => m \in Message
  BY <1>1, StreamFacts DEF Message, Event
<1>6. \/ /\ told /\ wire' \in Seq(Message)
         /\ Len(wire') = Len(wire) + 1 /\ wire'[Len(wire) + 1] = m
         /\ \A i \in 1..Len(wire) : i \in 1..Len(wire') /\ wire'[i] = wire[i]
      \/ ~told /\ wire' = wire
  BY <1>1, <1>2, <1>5, WireFacts
<1> HIDE DEF m
<1>7. /\ \A j \in 1..Len(wire') : \/ j \in 1..Len(wire) /\ wire'[j] = wire[j]
                                  \/ told /\ wire'[j] = m
      /\ \A i \in 1..Len(wire) : i \in 1..Len(wire') /\ wire'[i] = wire[i]
  BY SMTT(30), <1>1, <1>6, StreamFacts
<1>8. m.id = FALSE /\ m.seq = lastRunResult
  BY DEF m
<1>9. Healthy' => Healthy /\ (told => lastRunResult <= sub.at)
  <2>1. told /\ lastRunResult > sub.at => "lateCache" \in faults'
    BY <1>2
  <2>2. Healthy' => Healthy
    BY <1>2 DEF Healthy
  <2>3. Healthy' => ~(told /\ lastRunResult > sub.at)
    BY <2>1 DEF Healthy
  <2> HIDE DEF told
  <2> QED BY <1>1, <2>2, <2>3, StreamFacts
<1> HIDE DEF told
<1>10. StreamTypeOK'
  <2>1. wire' \in Seq([seq : Event, id : BOOLEAN])
    BY <1>1, <1>6, StreamFacts DEF Message
  <2>2. faults' \subseteq {"restart", "split", "cleanEnd", "lateCache"}
    BY <1>1, <1>2 DEF StreamTypeOK
  <2> QED BY <1>1, <1>2, <1>4, <2>1, <2>2 DEF StreamTypeOK
<1>11. RingIsLast' /\ DeliveredInOrder' /\ Position'
  BY <1>1, <1>2, <1>4 DEF RingIsLast, DeliveredInOrder, Position
<1>12. Numbered'
  <2>1. \A j \in 1..Len(wire') : wire'[j].seq <= globalSeq
    BY <1>1, <1>7, <1>8, StreamFacts DEF Numbered
  <2> QED BY <1>1, <1>2, <1>3, <1>4, <2>1 DEF Numbered
<1>13. InOrder'
  BY <1>1, <1>2, <1>3, <1>4, <1>7, <1>8 DEF InOrder
<1>14. Resumes'
  <2>1. told => sub.from = 0
    BY <1>1 DEF Position, told
  <2> QED BY <1>1, <1>2, <1>3, <1>4, <1>7, <1>8, <1>9, <2>1 DEF Resumes
<1>15. NothingLost'
  <2>1. OnTheWay \subseteq OnTheWay'
    BY <1>4, <1>7 DEF OnTheWay, Elements
  <2>2. Delivered' = Delivered /\ Streamed' = Streamed
    BY <1>2 DEF Delivered, Streamed
  <2> QED BY <1>1, <1>2, <1>4, <1>9, <2>1, <2>2 DEF NothingLost
<1> QED BY <1>10, <1>11, <1>12, <1>13, <1>14, <1>15 DEF StreamInv

LEMMA WriteNextInv ==
    ASSUME StreamInv, WriteNext
    PROVE  StreamInv'
<1> DEFINE m == [seq |-> Head(sub.queue), id |-> TRUE]
           q == sub.queue
           r == sub'.queue
<1>1. StreamTypeOK /\ DeliveredInOrder /\ RingIsLast /\ Numbered /\ InOrder
      /\ Position /\ Resumes /\ NothingLost
  BY DEF StreamInv
<1>2. /\ sub.stage = "loop" /\ q # <<>>
      /\ sub' = [sub EXCEPT !.queue = Tail(@)]
      /\ wire' = Append(wire, m)
      /\ UNCHANGED <<epoch, globalSeq, ring, lastRunResult, timers, mode, retry,
                     lastSeqNum, breaks, got, evicted, faults, stale>>
  BY DEF WriteNext, bus, client, history
<1>3. mode = "reading"
  BY <1>1, <1>2, StreamFacts DEF Numbered, Closed
<1>4. /\ q \in Seq(Event) /\ Head(q) = q[1] /\ 1 \in 1..Len(q) /\ q[1] \in Event
      /\ Tail(q) \in Seq(Event) /\ Len(Tail(q)) = Len(q) - 1
      /\ \A i \in 1..Len(Tail(q)) :
            i + 1 \in 1..Len(q) /\ i + 1 > 1 /\ Tail(q)[i] = q[i + 1]
      /\ \A i \in 1..Len(q) :
            i # 1 => i - 1 \in 1..Len(Tail(q)) /\ Tail(q)[i - 1] = q[i]
  <2>1. q \in Seq(Event) /\ q # <<>>
    BY <1>1, <1>2, StreamFacts
  <2> HIDE DEF q
  <2> QED BY <2>1
<1>5. /\ sub'.stage = "loop" /\ sub'.from = sub.from /\ sub'.cached = sub.cached
      /\ sub'.at = sub.at /\ r = Tail(q)
      /\ sub' \in [stage : {"closed", "hello", "loop"}, from : 0..MaxSeq,
                   cached : BOOLEAN, at : 0..MaxSeq, queue : Seq(Event)]
  <2>1. sub \in [stage : {"closed", "hello", "loop"}, from : 0..MaxSeq,
                   cached : BOOLEAN, at : 0..MaxSeq, queue : Seq(Event)]
    BY <1>1 DEF StreamTypeOK
  <2> QED BY <1>2, <1>4, <2>1
<1>6. m \in Message /\ m.id = TRUE /\ m.seq = q[1]
  BY <1>4 DEF Message
<1> HIDE DEF m, q, r
<1>7. /\ wire' \in Seq(Message)
      /\ Len(wire') = Len(wire) + 1 /\ wire'[Len(wire) + 1] = m
      /\ \A i \in 1..Len(wire) : i \in 1..Len(wire') /\ wire'[i] = wire[i]
      /\ Len(wire) \in Nat
  BY <1>1, <1>2, <1>6, WireFacts, StreamFacts
<1>8. /\ \A j \in 1..Len(wire') : \/ j \in 1..Len(wire) /\ wire'[j] = wire[j]
                                  \/ j = Len(wire) + 1 /\ wire'[j] = m
      /\ \E j \in 1..Len(wire') : wire'[j] = m
      /\ \A i \in 1..Len(wire) : ~(Len(wire) + 1 < i)
      /\ ~(Len(wire) + 1 < Len(wire) + 1)
  BY <1>7
<1>9. \A i \in 1..Len(r) : \E k \in 1..Len(q) : k > 1 /\ r[i] = q[k]
  BY <1>4, <1>5
<1>10. StreamTypeOK'
  BY <1>1, <1>2, <1>5, <1>7 DEF StreamTypeOK, Message
<1>11. RingIsLast' /\ DeliveredInOrder' /\ Position'
  BY <1>1, <1>2, <1>5 DEF RingIsLast, DeliveredInOrder, Position
<1>12. Numbered'
  <2>1. \A j \in 1..Len(wire') : wire'[j].seq <= globalSeq
    BY <1>1, <1>4, <1>6, <1>8 DEF Numbered, q
  <2>2. \A j \in 1..Len(r) : r[j] <= globalSeq
    BY <1>1, <1>9 DEF Numbered, q
  <2> QED BY <1>1, <1>2, <1>3, <1>5, <2>1, <2>2 DEF Numbered, r
<1>13. InOrder'
  <2>1. \A i, j \in 1..Len(q) : i < j => q[i] < q[j]
    BY <1>1 DEF InOrder, q
  <2>2. \A i, j \in 1..Len(r) : i < j => r[i] < r[j]
    BY <1>4, <1>5, <2>1
  <2>3. /\ \A i, j \in 1..Len(wire) :
              i < j /\ wire[i].id /\ wire[j].id => wire[i].seq < wire[j].seq
        /\ \A i \in 1..Len(wire), j \in 1..Len(q) : wire[i].id => wire[i].seq < q[j]
        /\ \A i \in 1..Len(got) : got[i].id =>
              /\ \A j \in 1..Len(wire) : wire[j].id => got[i].seq < wire[j].seq
              /\ \A j \in 1..Len(q) : got[i].seq < q[j]
    BY <1>1, <1>3 DEF InOrder, q
  <2>4. ASSUME NEW i \in 1..Len(wire'), NEW j \in 1..Len(wire'), i < j,
               wire'[i].id, wire'[j].id
        PROVE  wire'[i].seq < wire'[j].seq
    <3>1. i \in 1..Len(wire) /\ wire'[i] = wire[i]
      BY <1>7, <2>4
    <3>2. CASE j \in 1..Len(wire) /\ wire'[j] = wire[j]
      BY <2>3, <2>4, <3>1, <3>2
    <3>3. CASE wire'[j] = m
      BY <1>4, <1>6, <2>3, <2>4, <3>1, <3>3
    <3> QED BY <1>8, <3>2, <3>3
  <2>5. ASSUME NEW i \in 1..Len(wire'), NEW j \in 1..Len(r), wire'[i].id
        PROVE  wire'[i].seq < r[j]
    <3>1. PICK k \in 1..Len(q) : k > 1 /\ r[j] = q[k]
      BY <1>9
    <3>2. q[1] < q[k]
      BY <1>4, <2>1, <3>1
    <3> QED BY <1>6, <1>8, <2>3, <2>5, <3>1, <3>2
  <2>6. \A i \in 1..Len(got) : got[i].id =>
              /\ \A j \in 1..Len(wire') : wire'[j].id => got[i].seq < wire'[j].seq
              /\ \A j \in 1..Len(r) : got[i].seq < r[j]
    <3>1. 1 \in 1..Len(q)
      BY <1>4
    <3> QED BY <1>6, <1>8, <1>9, <2>3, <3>1
  <2> QED BY <1>2, <2>2, <2>4, <2>5, <2>6 DEF InOrder, r
<1>14. Resumes'
  <2> SUFFICES ASSUME Healthy PROVE Resumes'
    BY <1>2 DEF Resumes, Healthy
  <2>1. /\ lastSeqNum <= sub.from \/ lastSeqNum <= globalSeq
        /\ \A i \in 1..Len(wire) :
              IF wire[i].id THEN wire[i].seq > lastSeqNum
              ELSE sub.from = 0 /\ wire[i].seq <= sub.at
        /\ \A i \in 1..Len(q) : q[i] > lastSeqNum
        /\ sub.from = 0 =>
              /\ \A i \in 1..Len(q) : q[i] > sub.at
              /\ \A i \in 1..Len(wire) : wire[i].id => wire[i].seq > sub.at
              /\ \A i \in 1..Len(got) : got[i].id => got[i].seq > sub.at
    BY <1>1, <1>3 DEF Resumes, q
  <2> QED BY SMTT(30), <1>2, <1>3, <1>4, <1>5, <1>6, <1>8, <1>9, <2>1 DEF Resumes, r
<1>15. NothingLost'
  <2>1. OnTheWay \subseteq OnTheWay'
    <3>1. ASSUME NEW i \in 1..Len(q)
          PROVE  q[i] \in OnTheWay'
      <4>1. CASE i = 1
        BY <1>6, <1>8, <4>1 DEF OnTheWay
      <4>2. CASE i # 1
        <5>1. i - 1 \in 1..Len(r) /\ r[i - 1] = q[i]
          BY <1>4, <1>5, <4>2
        <5> QED BY <5>1 DEF OnTheWay, Elements, r
      <4> QED BY <4>1, <4>2
    <3>2. ASSUME NEW i \in 1..Len(wire)
          PROVE  wire[i].seq \in OnTheWay'
      BY <1>7 DEF OnTheWay
    <3> QED BY <3>1, <3>2 DEF OnTheWay, Elements, q
  <2>2. Delivered' = Delivered /\ Streamed' = Streamed /\ Healthy' = Healthy
    BY <1>2 DEF Delivered, Streamed, Healthy
  <2> QED BY <1>1, <1>2, <1>5, <2>1, <2>2 DEF NothingLost
<1> QED BY <1>10, <1>11, <1>12, <1>13, <1>14, <1>15 DEF StreamInv

\* What reading the first message leaves of the wire.
LEMMA TakenFacts ==
    ASSUME StreamTypeOK, wire # <<>>, wire' = Tail(wire)
    PROVE  /\ Head(wire) = wire[1] /\ 1 \in 1..Len(wire)
           /\ wire' \in Seq(Message)
           /\ \A i \in 1..Len(wire') :
                 /\ i + 1 \in 1..Len(wire) /\ wire'[i] = wire[i + 1] /\ 1 < i + 1
                 /\ \A j \in 1..Len(wire') : i < j => i + 1 < j + 1
           /\ \A i \in 1..Len(wire) :
                 i # 1 => i - 1 \in 1..Len(wire') /\ wire'[i - 1] = wire[i]
<1>1. wire \in Seq(Message)
  BY StreamFacts
<1> QED BY <1>1

LEMMA ReadInv ==
    ASSUME StreamInv, Read
    PROVE  StreamInv'
<1> DEFINE m == wire[1]
<1>1. StreamTypeOK /\ DeliveredInOrder /\ RingIsLast /\ Numbered /\ InOrder
      /\ Position /\ Resumes /\ NothingLost
  BY DEF StreamInv
<1>2. /\ mode = "reading" /\ wire # <<>> /\ wire' = Tail(wire)
      /\ got' = Append(got, Head(wire))
      /\ lastSeqNum' = IF Head(wire).seq > lastSeqNum THEN Head(wire).seq
                       ELSE lastSeqNum
      /\ UNCHANGED <<epoch, globalSeq, ring, lastRunResult, timers, sub, mode, retry,
                     breaks, evicted, faults, stale>>
  BY DEF Read, bus
<1>3. /\ Head(wire) = m /\ 1 \in 1..Len(wire)
      /\ wire' \in Seq(Message)
      /\ \A i \in 1..Len(wire') :
            /\ i + 1 \in 1..Len(wire) /\ wire'[i] = wire[i + 1] /\ 1 < i + 1
            /\ \A j \in 1..Len(wire') : i < j => i + 1 < j + 1
      /\ \A i \in 1..Len(wire) :
            i # 1 => i - 1 \in 1..Len(wire') /\ wire'[i - 1] = wire[i]
  BY <1>1, <1>2, TakenFacts
<1>4. /\ m \in Message /\ m.seq \in Nat /\ m.seq >= 1 /\ m.seq <= globalSeq
      /\ m.seq <= MaxSeq
  BY <1>1, <1>3, StreamFacts DEF Numbered
<1> HIDE DEF m
<1>5. /\ got' \in Seq(Message)
      /\ Len(got') = Len(got) + 1 /\ got'[Len(got) + 1] = m
      /\ \A i \in 1..Len(got) : i \in 1..Len(got') /\ got'[i] = got[i]
      /\ Len(got) \in Nat
  <2>1. got \in Seq(Message)
    BY <1>1, StreamFacts
  <2>2. got' = Append(got, m)
    BY <1>2, <1>3
  <2> QED BY <1>4, <2>1, <2>2
<1>6. /\ \A j \in 1..Len(got') : \/ j \in 1..Len(got) /\ got'[j] = got[j]
                                 \/ j = Len(got) + 1 /\ got'[j] = m
      /\ \E j \in 1..Len(got') : got'[j] = m
  BY <1>5
<1>7. /\ lastSeqNum' \in Nat /\ lastSeqNum' <= MaxSeq
      /\ lastSeqNum' >= m.seq /\ lastSeqNum' >= lastSeqNum
      /\ lastSeqNum' = m.seq \/ lastSeqNum' = lastSeqNum
  BY SMTT(30), <1>1, <1>2, <1>3, <1>4, StreamFacts
<1>8. StreamTypeOK'
  <2>1. lastSeqNum' \in 0..MaxSeq
    BY <1>1, <1>7, StreamFacts
  <2> QED BY <1>1, <1>2, <1>3, <1>5, <2>1 DEF StreamTypeOK, Message
<1>9. RingIsLast' /\ Position'
  <2>1. RingIsLast'
    BY <1>1, <1>2 DEF RingIsLast
  <2>2. Position'
    BY SMTT(30), <1>1, <1>2, <1>4, <1>7, StreamFacts DEF Position
  <2> QED BY <2>1, <2>2
<1>10. Numbered'
  <2>1. \A j \in 1..Len(wire') : wire'[j].seq <= globalSeq
    BY <1>1, <1>3 DEF Numbered
  <2>2. \A j \in 1..Len(got) : got[j].seq \in Nat /\ got[j].seq <= globalSeq
                               /\ got[j].seq <= lastSeqNum
    BY <1>1, StreamFacts DEF Numbered
  <2>3. ASSUME NEW j \in 1..Len(got')
        PROVE  got'[j].seq <= globalSeq /\ got'[j].seq <= lastSeqNum'
    <3>1. CASE got'[j] = m
      BY <1>4, <1>7, <3>1
    <3>2. CASE j \in 1..Len(got) /\ got'[j] = got[j]
      <4>1. got[j].seq \in Nat /\ lastSeqNum \in Nat /\ got[j].seq <= globalSeq
            /\ got[j].seq <= lastSeqNum
        BY <1>1, <2>2, <3>2, StreamFacts
      <4> QED BY <1>7, <3>2, <4>1
    <3> QED BY <1>6, <3>1, <3>2
  <2> QED BY <1>1, <1>2, <2>1, <2>3 DEF Numbered
<1>11. /\ \A i, j \in 1..Len(wire) :
             i < j /\ wire[i].id /\ wire[j].id => wire[i].seq < wire[j].seq
       /\ \A i \in 1..Len(wire), j \in 1..Len(sub.queue) :
             wire[i].id => wire[i].seq < sub.queue[j]
       /\ \A i \in 1..Len(got) : got[i].id =>
             /\ \A j \in 1..Len(wire) : wire[j].id => got[i].seq < wire[j].seq
             /\ \A j \in 1..Len(sub.queue) : got[i].seq < sub.queue[j]
  BY <1>1, <1>2 DEF InOrder
<1>12. DeliveredInOrder'
  <2> SUFFICES ASSUME NEW i \in 1..Len(got'), NEW j \in 1..Len(got'), i < j,
                      got'[i].id, got'[j].id
               PROVE  got'[i].seq < got'[j].seq
    BY DEF DeliveredInOrder
  <2>1. i \in 1..Len(got) /\ got'[i] = got[i]
    BY <1>5
  <2>2. CASE j \in 1..Len(got) /\ got'[j] = got[j]
    BY <1>1, <2>1, <2>2 DEF DeliveredInOrder
  <2>3. CASE got'[j] = m
    BY <1>3, <1>11, <2>1, <2>3 DEF m
  <2> QED BY <1>6, <2>2, <2>3
<1>13. InOrder'
  <2>1. ASSUME NEW j \in 1..Len(wire'), m.id, wire'[j].id
        PROVE  m.seq < wire'[j].seq
    BY <1>3, <1>11, <2>1 DEF m
  <2>2. ASSUME NEW j \in 1..Len(sub.queue), m.id
        PROVE  m.seq < sub.queue[j]
    BY <1>3, <1>11, <2>2 DEF m
  <2>3. \A i, j \in 1..Len(wire') :
           i < j /\ wire'[i].id /\ wire'[j].id => wire'[i].seq < wire'[j].seq
    BY <1>3, <1>11
  <2>4. \A i \in 1..Len(wire'), j \in 1..Len(sub.queue) :
           wire'[i].id => wire'[i].seq < sub.queue[j]
    BY <1>3, <1>11
  <2>5. \A i \in 1..Len(got') : got'[i].id =>
           /\ \A j \in 1..Len(wire') : wire'[j].id => got'[i].seq < wire'[j].seq
           /\ \A j \in 1..Len(sub.queue) : got'[i].seq < sub.queue[j]
    BY ZenonT(60), <1>3, <1>6, <1>11, <2>1, <2>2
  <2> QED BY <1>1, <1>2, <2>3, <2>4, <2>5 DEF InOrder
<1>14. Healthy =>
         /\ lastSeqNum <= sub.from \/ lastSeqNum <= globalSeq
         /\ \A i \in 1..Len(wire) :
               IF wire[i].id THEN wire[i].seq > lastSeqNum
               ELSE sub.from = 0 /\ wire[i].seq <= sub.at
         /\ \A i \in 1..Len(sub.queue) : sub.queue[i] > lastSeqNum
         /\ sub.from = 0 =>
               /\ \A i \in 1..Len(sub.queue) : sub.queue[i] > sub.at
               /\ \A i \in 1..Len(wire) : wire[i].id => wire[i].seq > sub.at
               /\ \A i \in 1..Len(got) : got[i].id => got[i].seq > sub.at
  BY <1>1, <1>2 DEF Resumes
<1>15. Resumes'
  <2> SUFFICES ASSUME Healthy PROVE Resumes'
    BY <1>2 DEF Resumes, Healthy
  \* What is still to come lies above the message just read.
  <2>1. ASSUME NEW j \in 1..Len(wire'), wire'[j].id
        PROVE  wire'[j].seq > lastSeqNum'
    <3>1. wire'[j].seq > lastSeqNum /\ wire'[j].seq \in Nat
      BY <1>1, <1>3, <1>14, <2>1, StreamFacts
    <3>2. wire'[j].seq > m.seq
      <4>1. CASE m.id
        BY <1>3, <1>4, <1>11, <2>1, <3>1, <4>1 DEF m
      <4>2. CASE ~m.id
        <5>1. sub.from = 0 /\ m.seq <= sub.at
          BY <1>3, <1>14, <4>2 DEF m
        <5>2. wire'[j].seq > sub.at
          BY <1>3, <1>14, <2>1, <5>1
        <5> QED BY SMTT(30), <1>1, <1>4, <3>1, <5>1, <5>2, StreamFacts
      <4> QED BY <4>1, <4>2
    <3> QED BY <1>7, <3>1, <3>2
  <2>2. ASSUME NEW j \in 1..Len(sub.queue)
        PROVE  sub.queue[j] > lastSeqNum'
    <3>1. sub.queue[j] > lastSeqNum /\ sub.queue[j] \in Nat
      BY <1>1, <1>14, StreamFacts
    <3>2. sub.queue[j] > m.seq
      <4>1. CASE m.id
        BY <1>3, <1>4, <1>11, <3>1, <4>1 DEF m
      <4>2. CASE ~m.id
        <5>1. sub.from = 0 /\ m.seq <= sub.at
          BY <1>3, <1>14, <4>2 DEF m
        <5>2. sub.queue[j] > sub.at
          BY <1>14, <5>1
        <5> QED BY SMTT(30), <1>1, <1>4, <3>1, <5>1, <5>2, StreamFacts
      <4> QED BY <4>1, <4>2
    <3> QED BY <1>7, <3>1, <3>2
  <2>3. lastSeqNum' <= sub.from \/ lastSeqNum' <= globalSeq
    BY <1>1, <1>4, <1>7, <1>14, StreamFacts
  <2>4. \A j \in 1..Len(wire') :
           wire'[j].id \/ (sub.from = 0 /\ wire'[j].seq <= sub.at)
    BY <1>3, <1>14
  <2>5. sub.from = 0 =>
           /\ \A j \in 1..Len(wire') : wire'[j].id => wire'[j].seq > sub.at
           /\ \A j \in 1..Len(got') : got'[j].id => got'[j].seq > sub.at
    <3>1. sub.from = 0 /\ m.id => m.seq > sub.at
      BY <1>3, <1>14 DEF m
    <3> QED BY <1>3, <1>6, <1>14, <3>1
  <2> QED BY <1>2, <1>14, <2>1, <2>2, <2>3, <2>4, <2>5 DEF Resumes
<1>16. /\ Delivered' = Delivered \cup {m.seq}
       /\ Streamed' = Streamed \cup (IF m.id THEN {m.seq} ELSE {})
  <2>1. Delivered' \subseteq Delivered \cup {m.seq}
    BY <1>6 DEF Delivered
  <2>2. Delivered \cup {m.seq} \subseteq Delivered'
    BY <1>5, <1>6 DEF Delivered
  <2>3. Streamed' \subseteq Streamed \cup (IF m.id THEN {m.seq} ELSE {})
    BY <1>6 DEF Streamed
  <2>4. Streamed \cup (IF m.id THEN {m.seq} ELSE {}) \subseteq Streamed'
    BY <1>5, <1>6 DEF Streamed
  <2> QED BY <2>1, <2>2, <2>3, <2>4
<1>17. /\ OnTheWay \subseteq OnTheWay' \cup {m.seq}
       /\ \A s \in OnTheWay : s \in Elements(sub.queue)
                              \/ \E i \in 1..Len(wire) : wire[i].seq = s
  <2>1. ASSUME NEW i \in 1..Len(wire)
        PROVE  wire[i].seq \in OnTheWay' \cup {m.seq}
    <3>1. CASE i = 1
      BY <3>1 DEF m
    <3>2. CASE i # 1
      <4>1. i - 1 \in 1..Len(wire') /\ wire'[i - 1] = wire[i]
        BY <1>3, <3>2
      <4> QED BY <4>1 DEF OnTheWay
    <3> QED BY <3>1, <3>2
  <2>2. Elements(sub.queue) \subseteq OnTheWay'
    BY <1>2 DEF OnTheWay
  <2> QED BY <2>1, <2>2 DEF OnTheWay
<1>18. NothingLost'
  <2> SUFFICES ASSUME Healthy PROVE NothingLost'
    BY <1>2 DEF NothingLost, Healthy
  <2>1. ASSUME NEW d \in Streamed', NEW s \in 1..globalSeq,
               d < s, stale < s, s <= lastSeqNum'
        PROVE  s \in Delivered' \cup evicted
    <3>1. s \in Nat /\ globalSeq \in Nat /\ lastSeqNum \in Nat
      BY <1>1, StreamFacts
    <3>2. CASE s <= lastSeqNum
      <4>1. d \in Streamed
        <5>1. SUFFICES ASSUME m.id, d = m.seq PROVE FALSE
          BY <1>16
        <5>2. m.seq > lastSeqNum
          BY <1>3, <1>14, <2>1, <5>1 DEF m
        <5> QED BY <1>4, <2>1, <3>1, <3>2, <5>1, <5>2
      <4> QED BY <1>1, <1>16, <2>1, <3>2, <4>1 DEF NothingLost
    <3>3. CASE s > lastSeqNum
      <4>1. lastSeqNum' = m.seq /\ s <= m.seq
        BY <1>7, <2>1, <3>1, <3>3
      <4>2. CASE s = m.seq
        BY <1>16, <4>2
      <4>3. CASE s # m.seq
        <5>1. d \in Streamed
          BY <1>4, <1>16, <2>1, <3>1, <4>1, <4>3
        <5>2. PICK i \in 1..Len(got) : got[i].id /\ got[i].seq = d
          BY <5>1 DEF Streamed
        <5>3. sub.from = 0 => d > sub.at
          BY <1>14, <5>2
        <5>4. s > sub.from /\ (sub.from > 0 \/ s > sub.at)
          <6>1. d \in Nat /\ sub.from \in Nat /\ sub.at \in Nat /\ sub.from <= lastSeqNum
            BY <1>1, <5>2, StreamFacts DEF Position
          <6> QED BY <2>1, <3>1, <3>3, <5>3, <6>1
        <5>5. s \in Delivered \cup OnTheWay \cup evicted
          BY <1>1, <1>2, <5>4 DEF NothingLost
        \* It would have to be ahead of the message just read.
        <5>6. s \notin OnTheWay
          <6>1. m.id
            <7>1. SUFFICES ASSUME ~m.id PROVE FALSE
              OBVIOUS
            <7>2. sub.from = 0 /\ m.seq <= sub.at
              BY <1>3, <1>14, <7>1 DEF m
            <7> QED BY <1>1, <1>4, <3>1, <4>1, <5>4, <7>2, StreamFacts
          <6>2. s \notin Elements(sub.queue)
            <7>1. \A j \in 1..Len(sub.queue) : sub.queue[j] \in Nat
              BY <1>1, StreamFacts
            <7>2. \A j \in 1..Len(sub.queue) : m.seq < sub.queue[j]
              BY <1>3, <1>11, <6>1 DEF m
            <7>3. \A j \in 1..Len(sub.queue) : sub.queue[j] # s
              BY <1>4, <3>1, <4>1, <7>1, <7>2
            <7> QED BY <7>3 DEF Elements
          <6>3. ASSUME NEW k \in 1..Len(wire), wire[k].seq = s
                PROVE  FALSE
            <7>1. CASE wire[k].id
              <8>1. k # 1
                BY <4>3, <6>3 DEF m
              <8>2. 1 < k
                BY <8>1
              <8>3. m.seq < s
                <9>1. m = wire[1] /\ 1 \in 1..Len(wire)
                  BY <1>3 DEF m
                <9>2. wire[1].seq < wire[k].seq
                  BY <1>11, <6>1, <7>1, <8>2, <9>1
                <9> QED BY <6>3, <9>1, <9>2
              <8> QED BY <1>4, <3>1, <4>1, <8>3
            <7>2. CASE ~wire[k].id
              <8>1. sub.from = 0 /\ s <= sub.at
                BY <1>14, <6>3, <7>2
              <8> QED BY <1>1, <3>1, <5>4, <8>1, StreamFacts
            <7> QED BY <7>1, <7>2
          <6> QED BY <1>17, <6>2, <6>3
        <5> QED BY <1>16, <5>5, <5>6
      <4> QED BY <4>2, <4>3
    <3> QED BY <1>1, <3>1, <3>2, <3>3
  <2>2. \A s \in 1..globalSeq :
           s > sub.from /\ (sub.from > 0 \/ s > sub.at)
           => s \in Delivered' \cup OnTheWay' \cup evicted
    BY <1>1, <1>2, <1>16, <1>17 DEF NothingLost
  <2> QED BY <1>2, <2>1, <2>2 DEF NothingLost
<1> QED BY <1>8, <1>9, <1>10, <1>12, <1>13, <1>15, <1>18 DEF StreamInv

LEMMA ReadSplitInv ==
    ASSUME StreamInv, ReadSplit
    PROVE  StreamInv'
<1>1. StreamTypeOK /\ DeliveredInOrder /\ RingIsLast /\ Numbered /\ InOrder
      /\ Position /\ Resumes /\ NothingLost
  BY DEF StreamInv
<1>2. /\ mode = "reading" /\ wire # <<>> /\ wire' = Tail(wire)
      /\ faults' = faults \cup {"split"}
      /\ UNCHANGED <<epoch, globalSeq, ring, lastRunResult, timers, sub, mode, retry,
                     lastSeqNum, breaks, got, evicted, stale>>
  BY DEF ReadSplit, bus, client
<1>3. /\ wire' \in Seq(Message)
      /\ \A i \in 1..Len(wire') :
            /\ i + 1 \in 1..Len(wire) /\ wire'[i] = wire[i + 1] /\ 1 < i + 1
            /\ \A j \in 1..Len(wire') : i < j => i + 1 < j + 1
  BY <1>1, <1>2, TakenFacts
<1>4. StreamTypeOK'
  <2>1. faults' \subseteq {"restart", "split", "cleanEnd", "lateCache"}
    BY <1>1, <1>2 DEF StreamTypeOK
  <2> QED BY <1>1, <1>2, <1>3, <2>1 DEF StreamTypeOK, Message
<1>5. DeliveredInOrder' /\ RingIsLast' /\ Position'
  BY <1>1, <1>2 DEF DeliveredInOrder, RingIsLast, Position
<1>6. Numbered'
  BY <1>1, <1>2, <1>3 DEF Numbered
<1>7. InOrder'
  BY <1>1, <1>2, <1>3 DEF InOrder
<1>8. ~Healthy'
  BY <1>2 DEF Healthy
<1>9. Resumes' /\ NothingLost'
  BY <1>8 DEF Resumes, NothingLost
<1> QED BY <1>4, <1>5, <1>6, <1>7, <1>9 DEF StreamInv

\* A response has ended, or its server has died: nothing is on its way.
LEMMA NothingOnItsWay ==
    ASSUME sub' = Closed, wire' = <<>>, mode' = "dialing"
    PROVE  InOrder' /\ sub' \in [stage : {"closed", "hello", "loop"}, from : {0},
                                 cached : BOOLEAN, at : {0}, queue : Seq(Event)]
<1>1. Len(sub'.queue) = 0 /\ Len(wire') = 0
  BY DEF Closed
<1>2. InOrder'
  BY <1>1 DEF InOrder
<1> QED BY <1>2 DEF Closed

LEMMA StreamEndsInv ==
    ASSUME StreamInv, StreamLost \/ CleanEnd
    PROVE  StreamInv'
<1>1. StreamTypeOK /\ DeliveredInOrder /\ RingIsLast /\ Numbered /\ InOrder
      /\ Position /\ Resumes /\ NothingLost
  BY DEF StreamInv
<1>2. /\ breaks < MaxBreaks /\ breaks' = breaks + 1
      /\ mode' = "dialing" /\ sub' = Closed /\ wire' = <<>>
      /\ \/ retry' = TRUE /\ faults' = faults
         \/ retry' = retry /\ faults' = faults \cup {"cleanEnd"}
      /\ UNCHANGED <<epoch, globalSeq, ring, lastRunResult, timers, lastSeqNum, got,
                     evicted, stale>>
  BY DEF StreamLost, CleanEnd, EndStream, bus
<1>3. InOrder' /\ sub' \in [stage : {"closed", "hello", "loop"}, from : {0},
                            cached : BOOLEAN, at : {0}, queue : Seq(Event)]
  BY <1>2, NothingOnItsWay
<1>4. StreamTypeOK'
  <2>1. breaks' \in 0..MaxBreaks
    BY <1>1, <1>2, StreamAssumption DEF StreamTypeOK
  <2>2. sub' \in [stage : {"closed", "hello", "loop"}, from : 0..MaxSeq,
                  cached : BOOLEAN, at : 0..MaxSeq, queue : Seq(Event)]
    BY <1>1, <1>3, StreamFacts
  <2>3. faults' \subseteq {"restart", "split", "cleanEnd", "lateCache"}
        /\ retry' \in BOOLEAN
    BY <1>1, <1>2 DEF StreamTypeOK
  <2>4. wire' \in Seq([seq : Event, id : BOOLEAN])
    BY <1>2
  <2> QED BY <1>1, <1>2, <2>1, <2>2, <2>3, <2>4 DEF StreamTypeOK
<1>5. DeliveredInOrder' /\ RingIsLast'
  BY <1>1, <1>2 DEF DeliveredInOrder, RingIsLast
<1>6. Numbered' /\ Position'
  BY <1>1, <1>2, StreamFacts DEF Numbered, Position, Closed
<1>7. Healthy' => Healthy /\ retry' = TRUE
  <2>1. CASE retry' = TRUE /\ faults' = faults
    BY <2>1 DEF Healthy
  <2>2. CASE retry' = retry /\ faults' = faults \cup {"cleanEnd"}
    <3>1. "cleanEnd" \in faults'
      BY <2>2
    <3> QED BY <3>1 DEF Healthy
  <2> QED BY <1>2, <2>1, <2>2
<1>8. Resumes'
  BY <1>2, <1>7 DEF Resumes
<1>9. NothingLost'
  <2>1. Delivered' = Delivered /\ Streamed' = Streamed
    BY <1>2 DEF Delivered, Streamed
  <2> QED BY <1>1, <1>2, <1>7, <2>1 DEF NothingLost
<1> QED BY <1>3, <1>4, <1>5, <1>6, <1>8, <1>9 DEF StreamInv

LEMMA RestartInv ==
    ASSUME StreamInv, Restart
    PROVE  StreamInv'
<1>1. StreamTypeOK /\ Resumes
  BY DEF StreamInv
<1>2. /\ epoch < MaxEpoch /\ epoch' = epoch + 1
      /\ globalSeq' = 0 /\ ring' = <<>> /\ lastRunResult' = 0 /\ timers' = 0
      /\ sub' = Closed /\ wire' = <<>> /\ mode' = "dialing"
      /\ retry' = (retry \/ mode = "reading")
      /\ got' = <<>> /\ evicted' = {} /\ faults' = faults \cup {"restart"}
      /\ stale' = lastSeqNum
      /\ UNCHANGED <<lastSeqNum, breaks>>
  BY DEF Restart
<1>3. InOrder' /\ sub' \in [stage : {"closed", "hello", "loop"}, from : {0},
                            cached : BOOLEAN, at : {0}, queue : Seq(Event)]
  BY <1>2, NothingOnItsWay
<1>4. StreamTypeOK'
  <2>1. epoch' \in 1..MaxEpoch /\ timers' \in 0..MaxTimers
    BY <1>1, <1>2, StreamAssumption DEF StreamTypeOK
  <2>2. sub' \in [stage : {"closed", "hello", "loop"}, from : 0..MaxSeq,
                  cached : BOOLEAN, at : 0..MaxSeq, queue : Seq(Event)]
    BY <1>1, <1>3, StreamFacts
  <2>3. faults' \subseteq {"restart", "split", "cleanEnd", "lateCache"}
        /\ retry' \in BOOLEAN
    BY <1>1, <1>2 DEF StreamTypeOK
  <2>4. /\ wire' \in Seq([seq : Event, id : BOOLEAN])
        /\ got' \in Seq([seq : Event, id : BOOLEAN])
        /\ ring' \in Seq(Event) /\ Len(ring') <= Capacity
    BY <1>2, StreamAssumption
  <2>5. globalSeq' \in 0..MaxSeq /\ lastRunResult' \in 0..globalSeq'
        /\ stale' \in 0..MaxSeq /\ lastSeqNum' \in 0..MaxSeq
        /\ breaks' \in 0..MaxBreaks
    BY <1>1, <1>2, StreamFacts DEF StreamTypeOK
  <2> QED BY <1>2, <2>1, <2>2, <2>3, <2>4, <2>5 DEF StreamTypeOK
<1>5. DeliveredInOrder' /\ RingIsLast'
  BY <1>2 DEF DeliveredInOrder, RingIsLast
<1>6. Numbered' /\ Position'
  BY <1>1, <1>2, StreamFacts DEF Numbered, Position, Closed
<1>7. Healthy' => Healthy
  BY <1>2 DEF Healthy
<1>8. Resumes'
  BY <1>1, <1>2, <1>7, StreamFacts DEF Resumes
<1>9. NothingLost'
  BY <1>2 DEF NothingLost, Streamed
<1> QED BY <1>3, <1>4, <1>5, <1>6, <1>8, <1>9 DEF StreamInv

LEMMA StreamNextInv == StreamInv /\ [StreamNext]_streamVars => StreamInv'
<1> SUFFICES ASSUME StreamInv, [StreamNext]_streamVars PROVE StreamInv'
  OBVIOUS
<1>1. CASE UNCHANGED streamVars
  <2>1. UNCHANGED <<epoch, globalSeq, ring, lastRunResult, timers, sub, wire, mode,
                    retry, lastSeqNum, breaks, got, evicted, faults, stale>>
    BY <1>1 DEF streamVars, bus, client, history
  <2>2. StreamTypeOK' /\ RingIsLast'
    BY <2>1 DEF StreamInv, StreamTypeOK, RingIsLast
  <2> QED BY <2>1, <2>2, QuietInv
<1>2. CASE Publish
  BY <1>2, PublishInv
<1>3. CASE ResultTimer \/ ClearSessionBuffer
  BY <1>3, BusInv
<1>4. CASE Subscribe
  BY <1>4, SubscribeInv
<1>5. CASE DialFails
  BY <1>5, DialFailsInv
<1>6. CASE Hello
  BY <1>6, HelloInv
<1>7. CASE WriteNext
  BY <1>7, WriteNextInv
<1>8. CASE Read
  BY <1>8, ReadInv
<1>9. CASE ReadSplit
  BY <1>9, ReadSplitInv
<1>10. CASE StreamLost \/ CleanEnd
  BY <1>10, StreamEndsInv
<1>11. CASE Restart
  BY <1>11, RestartInv
<1> QED BY <1>1, <1>2, <1>3, <1>4, <1>5, <1>6, <1>7, <1>8, <1>9, <1>10, <1>11
        DEF StreamNext

LEMMA StreamInvAlways == StreamSpec => []StreamInv
BY StreamInitInv, StreamNextInv, PTL DEF StreamSpec

\* What is owed lies above the position the client has subscribed from, and is
\* on its way, or up to its own, and has been handed over.
LEMMA InvComplete == StreamInv => StreamComplete
<1> SUFFICES ASSUME StreamInv, Healthy, mode = "reading",
                    NEW s \in Missing, s \notin 1..stale
             PROVE  FALSE
  BY DEF StreamComplete, Healthy
<1>1. StreamTypeOK /\ Position /\ Resumes /\ NothingLost
  BY DEF StreamInv
<1>2. /\ s \in 1..globalSeq
      /\ s \notin Delivered \cup OnTheWay \cup evicted
      /\ s > sub.at \/ \E d \in Streamed : d < s
  BY DEF Missing, Owed
<1>3. s \in Nat /\ s >= 1 /\ s > stale /\ s <= globalSeq
  BY <1>1, <1>2, StreamFacts
<1>4. CASE s > sub.from
  <2>1. ~(sub.from > 0 \/ s > sub.at)
    BY <1>1, <1>2, <1>4 DEF NothingLost
  <2>2. sub.from = 0 /\ ~(s > sub.at)
    BY <1>1, <2>1, StreamFacts
  <2>3. PICK d \in Streamed : d < s
    BY <1>2, <2>2
  <2>4. PICK i \in 1..Len(got) : got[i].id /\ got[i].seq = d
    BY <2>3 DEF Streamed
  <2>5. d > sub.at
    BY <1>1, <2>2, <2>4 DEF Resumes
  <2> QED BY SMTT(30), <1>1, <1>3, <2>2, <2>3, <2>4, <2>5, StreamFacts
<1>5. CASE ~(s > sub.from)
  <2>1. s <= lastSeqNum
    BY <1>1, <1>3, <1>5, StreamFacts DEF Position
  <2>2. \A d \in Streamed : ~(d < s)
    BY <1>1, <1>2, <1>3, <2>1 DEF NothingLost
  <2>3. s > sub.at
    BY <1>2, <2>2
  <2> QED BY <1>1, <1>3, <1>5, <2>3, StreamFacts DEF Position
<1> QED BY <1>4, <1>5

\* The bus, the response and the client keep to their types, whatever the size
\* of the ring and however often the stream ends.
THEOREM StreamTyped == StreamSpec => []StreamTypeOK
<1>1. StreamInv => StreamTypeOK
  BY DEF StreamInv
<1> QED BY <1>1, StreamInvAlways, PTL

\* No event of the stream proper is handed to the client twice or out of its
\* order, whatever ends, splits or restarts.
THEOREM DeliveredInOrderAlways == StreamSpec => []DeliveredInOrder
<1>1. StreamInv => DeliveredInOrder
  BY DEF StreamInv
<1> QED BY <1>1, StreamInvAlways, PTL

\* A client that has only lost connections misses nothing the ring still held
\* after the first event with an id it has read, above the position it kept from
\* an earlier incarnation; nor anything published while it is connected.  What was
\* published before a reconnection that has no position is not Owed.
THEOREM StreamCompleteAlways == StreamSpec => []StreamComplete
BY StreamInvAlways, InvComplete, PTL

-----------------------------------------------------------------------------
(* The event stream as an EventFeed.                                       *)

\* The cached result is the first thing on a wire, and the client has nothing yet.
ResultFirst ==
    /\ sub.stage = "hello" =>
          wire = <<>> /\ (sub.cached => lastSeqNum = 0)
    /\ \A i \in 1..Len(wire) : ~wire[i].id => i = 1 /\ lastSeqNum = 0

\* The client's position is the highest number it was given, or what an earlier
\* server left.
Reached ==
    /\ stale <= lastSeqNum
    /\ lastSeqNum \in Delivered \cup {stale}

LEMMA StepResultFirst ==
    ASSUME StreamInv, ResultFirst, [StreamNext]_streamVars
    PROVE  ResultFirst'
<1> USE DEF ResultFirst
<1>1. StreamTypeOK /\ wire \in Seq(Message) /\ Len(wire) \in Nat
  BY StreamFacts DEF StreamInv
<1>2. CASE UNCHANGED streamVars \/ Publish \/ ResultTimer \/ ClearSessionBuffer \/ DialFails
  <2>1. UNCHANGED <<wire, lastSeqNum>> /\ sub'.stage = sub.stage /\ sub'.cached = sub.cached
    <3>1. CASE Publish
      <4>1. UNCHANGED <<wire, lastSeqNum>> /\ sub' = Handle(globalSeq + 1)
        BY <3>1 DEF Publish, client
      <4>2. sub' = sub \/ sub' = [sub EXCEPT !.queue = Append(@, globalSeq + 1)]
        BY <4>1 DEF Handle
      <4> QED BY <1>1, <4>1, <4>2 DEF StreamTypeOK
    <3>2. CASE UNCHANGED streamVars \/ ResultTimer \/ ClearSessionBuffer \/ DialFails
      BY <3>2 DEF streamVars, ResultTimer, ClearSessionBuffer, DialFails, bus, client
    <3> QED BY <1>2, <3>1, <3>2
  <2> QED BY <2>1
<1>3. CASE Subscribe
  <2>1. /\ wire' = <<>> /\ lastSeqNum' = lastSeqNum
        /\ sub' = SubscriptionFrom(IF retry THEN lastSeqNum ELSE 0)
    BY <1>3 DEF Subscribe
  <2>2. sub'.cached => lastSeqNum = 0
    BY <2>1 DEF SubscriptionFrom
  <2> QED BY <2>1, <2>2
<1>4. CASE Hello
  <2>1. /\ sub.stage = "hello" /\ sub' = [sub EXCEPT !.stage = "loop"]
        /\ \/ sub.cached /\ wire' = Append(wire, [seq |-> lastRunResult, id |-> FALSE])
           \/ wire' = wire
        /\ lastSeqNum' = lastSeqNum
    BY <1>4 DEF Hello, client
  <2>2. sub'.stage = "loop"
    BY <1>1, <2>1 DEF StreamTypeOK
  <2>3. wire = <<>>
    BY <2>1
  <2>4. CASE sub.cached /\ wire' = Append(wire, [seq |-> lastRunResult, id |-> FALSE])
    <3>1. Len(wire') = 1
      BY <2>3, <2>4
    <3> QED BY <2>1, <2>2, <2>4, <3>1
  <2>5. CASE wire' = wire
    BY <2>1, <2>2, <2>5
  <2> QED BY <2>1, <2>4, <2>5
<1>5. CASE WriteNext
  <2> DEFINE m == [seq |-> Head(sub.queue), id |-> TRUE]
  <2>1. /\ sub.stage = "loop" /\ sub.queue # <<>> /\ sub' = [sub EXCEPT !.queue = Tail(@)]
        /\ wire' = Append(wire, m) /\ lastSeqNum' = lastSeqNum
    BY <1>5 DEF WriteNext, client
  <2>2. sub'.stage = "loop"
    BY <1>1, <2>1 DEF StreamTypeOK
  <2>3. \A i \in 1..Len(wire') : \/ i \in 1..Len(wire) /\ wire'[i] = wire[i]
                                 \/ wire'[i] = m
    <3> HIDE DEF m
    <3> QED BY <1>1, <2>1
  <2>4. m.id
    OBVIOUS
  <2> QED BY <2>1, <2>2, <2>3, <2>4
<1>6. CASE Read \/ ReadSplit
  <2>1. wire # <<>> /\ wire' = Tail(wire) /\ sub' = sub
    BY <1>6 DEF Read, ReadSplit
  <2>2. \A i \in 1..Len(wire') : i + 1 \in 1..Len(wire) /\ wire'[i] = wire[i + 1]
    BY <1>1, <2>1
  <2>3. \A i \in 1..Len(wire') : wire'[i].id
    BY <2>2
  <2> QED BY <2>1, <2>3
<1>7. CASE StreamLost \/ CleanEnd \/ Restart
  <2>1. sub' = Closed /\ wire' = <<>>
    BY <1>7 DEF StreamLost, CleanEnd, EndStream, Restart
  <2> QED BY <2>1 DEF Closed
<1> QED BY <1>2, <1>3, <1>4, <1>5, <1>6, <1>7 DEF StreamNext

\* What a message adds to what the client has.
LEMMA ReadAdds ==
    ASSUME StreamTypeOK, Read
    PROVE  LET m == wire[1]
           IN  /\ 1 \in 1..Len(wire) /\ m \in Message /\ m.seq \in Nat /\ m.seq >= 1
               /\ got' = Append(got, m)
               /\ Delivered' = Delivered \cup {m.seq}
               /\ Streamed \subseteq Streamed'
               /\ lastSeqNum' = IF m.seq > lastSeqNum THEN m.seq ELSE lastSeqNum
<1> DEFINE m == wire[1]
<1>1. /\ wire # <<>> /\ wire' = Tail(wire) /\ got' = Append(got, Head(wire))
      /\ lastSeqNum' = IF Head(wire).seq > lastSeqNum THEN Head(wire).seq ELSE lastSeqNum
  BY DEF Read
<1>2. Head(wire) = m /\ 1 \in 1..Len(wire)
  BY <1>1, TakenFacts
<1>3. m \in Message /\ m.seq \in Nat /\ m.seq >= 1 /\ got \in Seq(Message)
  BY <1>2, StreamFacts
<1> HIDE DEF m
<1>4. /\ Len(got) \in Nat /\ Len(got') = Len(got) + 1 /\ got'[Len(got) + 1] = m
      /\ \A i \in 1..Len(got) : got'[i] = got[i]
  BY <1>1, <1>2, <1>3
<1>5. 1..Len(got') = (1..Len(got)) \cup {Len(got) + 1}
  BY <1>4
<1>6. Delivered' = Delivered \cup {m.seq}
  BY <1>4, <1>5 DEF Delivered
<1>7. Streamed \subseteq Streamed'
  BY <1>4, <1>5 DEF Streamed
<1> QED BY <1>1, <1>2, <1>3, <1>6, <1>7 DEF m

LEMMA StepReached ==
    ASSUME StreamInv, Reached, [StreamNext]_streamVars
    PROVE  Reached'
<1>1. StreamTypeOK /\ stale \in Nat /\ lastSeqNum \in Nat
  BY StreamFacts DEF StreamInv
<1>2. CASE Read
  <2>1. stale' = stale
    BY <1>2 DEF Read
  <2> QED BY <1>1, <1>2, <2>1, ReadAdds DEF Reached
<1>3. CASE Restart
  BY <1>1, <1>3 DEF Restart, Reached
<1>4. CASE ~Read /\ ~Restart
  <2>1. UNCHANGED <<got, stale, lastSeqNum>>
    BY <1>4 DEF StreamNext, Publish, ResultTimer, ClearSessionBuffer, Subscribe, DialFails,
       Hello, WriteNext, ReadSplit, StreamLost, CleanEnd, EndStream, streamVars, client,
       history
  <2> QED BY <2>1 DEF Reached, Delivered
<1> QED BY <1>2, <1>3, <1>4

\* A step of the stream is a step of the feed.
LEMMA FeedForgets ==
    ASSUME StreamInv, Reached, Subscribe
    PROVE  [Feed!Next]_Feed!vars
<1> DEFINE from == IF retry THEN lastSeqNum ELSE 0
           S == IF from = 0 THEN {} ELSE (from + 1)..globalSeq \ Elements(ring)
<1>1. StreamTypeOK /\ Numbered
  BY DEF StreamInv
<1>2. /\ stale \in Nat /\ lastSeqNum \in Nat /\ globalSeq \in Nat
      /\ \A i \in 1..Len(got) : got[i].seq \in Nat
  BY <1>1, StreamFacts
<1>3. /\ evicted' = evicted \cup S
      /\ UNCHANGED <<globalSeq, got, faults, stale>>
  BY DEF Subscribe, bus
<1>4. ASSUME NEW s \in S PROVE s \in 1..globalSeq /\ Feed!Behind(s)
  <2>1. from = lastSeqNum /\ s \in Nat /\ s > lastSeqNum /\ s \in 1..globalSeq
    BY <1>2, <1>4
  <2>2. stale < s
    BY <1>2, <2>1 DEF Reached
  <2>3. \A i \in 1..Len(got) : got[i].seq < s
    BY <1>1, <1>2, <2>1 DEF Numbered
  <2> QED BY <2>1, <2>2, <2>3 DEF Feed!Behind, Feed!Given
<1> HIDE DEF S
<1>5. Feed!Forget
  <2>1. S \in SUBSET {s \in 1..globalSeq : Feed!Behind(s)}
    BY <1>4
  <2> QED BY <1>3, <2>1 DEF Feed!Forget, feedSound
<1> QED BY <1>5 DEF Feed!Next

LEMMA FeedGives ==
    ASSUME StreamInv, StreamInv', ResultFirst, Reached, Read
    PROVE  [Feed!Next]_Feed!vars
<1> DEFINE m == wire[1]
<1>1. StreamTypeOK /\ Numbered /\ InOrder
  BY DEF StreamInv
<1>2. /\ 1 \in 1..Len(wire) /\ m \in Message /\ m.seq \in Nat /\ m.seq >= 1
      /\ got' = Append(got, m)
      /\ Delivered' = Delivered \cup {m.seq}
      /\ Streamed \subseteq Streamed'
      /\ lastSeqNum' = IF m.seq > lastSeqNum THEN m.seq ELSE lastSeqNum
  BY <1>1, ReadAdds
<1>3. mode = "reading" /\ UNCHANGED <<globalSeq, evicted, faults, stale>>
  BY DEF Read, bus
<1>4. /\ globalSeq \in Nat /\ stale \in Nat /\ lastSeqNum \in Nat /\ got \in Seq(Message)
      /\ \A i \in 1..Len(got) : got[i].seq \in Nat /\ got[i].seq >= 1
  BY <1>1, StreamFacts
<1>5. m.seq \in 1..globalSeq
  BY <1>1, <1>2, <1>4 DEF Numbered
<1>6. /\ got' = Append(got, [seq |-> m.seq, id |-> m.id])
  BY <1>2 DEF Message
<1>7. CASE m.id
  <2>1. \A d \in Streamed : d < m.seq
    BY <1>1, <1>2, <1>3, <1>7 DEF InOrder, Streamed
  <2>2. ASSUME feedSound, NEW d \in Streamed, NEW e \in d..m.seq,
               d < e, stale < e, e < m.seq
        PROVE  e \in Delivered \cup evicted
    <3>1. NothingLost' /\ Healthy'
      BY <1>3, <2>2 DEF StreamInv, feedSound, Healthy
    <3>2. d \in Nat
      BY <1>4 DEF Streamed
    <3>3. e \in 1..globalSeq' /\ e <= lastSeqNum' /\ stale' < e /\ e # m.seq
      BY <1>2, <1>3, <1>4, <1>5, <2>2, <3>2
    <3>4. d \in Streamed'
      BY <1>2
    <3>5. e \in Delivered' \cup evicted'
      BY <2>2, <3>1, <3>3, <3>4 DEF NothingLost
    <3> QED BY <1>2, <1>3, <3>3, <3>5
  <2> HIDE DEF m
  <2>3. Feed!Give(m.seq)
    BY <1>3, <1>6, <1>7, <2>1, <2>2
       DEF Feed!Give, Feed!Streamed, Feed!Given, Streamed, Delivered, feedSound
  <2> QED BY <1>5, <2>3 DEF Feed!Next
<1>8. CASE ~m.id
  <2>1. lastSeqNum = 0
    BY <1>2, <1>8 DEF ResultFirst
  <2>2. stale = 0 /\ Len(got) = 0
    BY <1>1, <1>4, <2>1 DEF Reached, Numbered
  <2>3. got = <<>>
    BY <1>4, <2>2
  <2> HIDE DEF m
  <2>4. m.id = FALSE
    BY <1>2, <1>8 DEF Message
  <2>5. Feed!GiveResult(m.seq)
    BY <1>3, <1>6, <2>2, <2>3, <2>4 DEF Feed!GiveResult, feedSound
  <2> QED BY <1>5, <2>5 DEF Feed!Next
<1> QED BY <1>7, <1>8

LEMMA FeedRestarts ==
    ASSUME StreamInv, Reached, Restart
    PROVE  [Feed!Next]_Feed!vars
<1>1. StreamTypeOK /\ Numbered
  BY DEF StreamInv
<1>2. /\ stale \in Nat /\ lastSeqNum \in Nat
      /\ \A i \in 1..Len(got) : got[i].seq \in Nat
  BY <1>1, StreamFacts
<1>3. /\ globalSeq' = 0 /\ got' = <<>> /\ evicted' = {} /\ stale' = lastSeqNum
      /\ faults' = faults \cup {"restart"}
  BY DEF Restart
<1>4. lastSeqNum \in Feed!Given \cup {stale}
  BY DEF Reached, Delivered, Feed!Given
<1>5. \A p \in Feed!Given \cup {stale} : p <= lastSeqNum
  BY <1>1, <1>2 DEF Reached, Numbered, Feed!Given
<1>6. feedSound' = feedSound
  BY <1>3 DEF feedSound
<1> QED BY <1>3, <1>4, <1>5, <1>6 DEF Feed!Restart, Feed!Next

\* Everything else is a step of the feed when something goes wrong for good, or none.
LEMMA FeedStays ==
    ASSUME UNCHANGED <<globalSeq, got, evicted, stale>>, faults \subseteq faults'
    PROVE  [Feed!Next]_Feed!vars
<1>1. CASE feedSound' = feedSound
  BY <1>1 DEF Feed!vars
<1>2. CASE feedSound' # feedSound
  <2>1. feedSound' = FALSE
    BY <1>2 DEF feedSound
  <2> QED BY <2>1 DEF Feed!Harm, Feed!Next
<1> QED BY <1>1, <1>2

LEMMA FeedStep ==
    ASSUME StreamInv, StreamInv', ResultFirst, Reached, [StreamNext]_streamVars
    PROVE  [Feed!Next]_Feed!vars
<1>1. CASE Publish
  <2>1. /\ globalSeq < MaxSeq /\ globalSeq' = globalSeq + 1
        /\ UNCHANGED <<got, evicted, faults, stale>>
    BY <1>1 DEF Publish, history
  <2> QED BY <2>1 DEF Feed!Publish, Feed!Next, feedSound
<1>2. CASE Subscribe
  BY <1>2, FeedForgets
<1>3. CASE Read
  BY <1>3, FeedGives
<1>4. CASE Restart
  BY <1>4, FeedRestarts
<1>5. CASE \/ UNCHANGED streamVars \/ ResultTimer \/ ClearSessionBuffer \/ DialFails
           \/ Hello \/ WriteNext \/ ReadSplit \/ StreamLost \/ CleanEnd
  <2>1. UNCHANGED <<globalSeq, got, evicted, stale>> /\ faults \subseteq faults'
    BY <1>5 DEF streamVars, ResultTimer, ClearSessionBuffer, DialFails, Hello, WriteNext,
       ReadSplit, StreamLost, CleanEnd, EndStream, bus, client, history
  <2> QED BY <2>1, FeedStays
<1> QED BY <1>1, <1>2, <1>3, <1>4, <1>5 DEF StreamNext

\* However connections are lost and servers restart, the client of the stream is given what
\* EventFeed promises, for any number of events and any size of the ring.
THEOREM FeedRefinement == StreamSpec => ImplementsFeed
<1>1. StreamInit => Feed!Init /\ ResultFirst /\ Reached
  BY DEF StreamInit, Feed!Init, feedSound, ResultFirst, Reached, Closed
<1>2. StreamInv /\ ResultFirst /\ Reached /\ [StreamNext]_streamVars
      => ResultFirst' /\ Reached'
  BY StepResultFirst, StepReached
<1>3. StreamInv /\ StreamInv' /\ ResultFirst /\ Reached /\ [StreamNext]_streamVars
      => [Feed!Next]_Feed!vars
  BY FeedStep
<1> QED BY <1>1, <1>2, <1>3, StreamInvAlways, PTL
        DEF StreamSpec, ImplementsFeed, Feed!Spec
=============================================================================
