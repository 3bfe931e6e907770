-------------------------- MODULE AutoTurns_proofs --------------------------
(***************************************************************************)
(* Proofs about AutoTurns, for any messages, any number of turns and runs  *)
(* in flight, and any length of the queue.                                 *)
(***************************************************************************)
EXTENDS AutoTurns, FiniteSetTheorems, TLAPS

\* The conjuncts of TypeOK: the turns, the messages, the notifier, the flags.
TurnType ==
    /\ turn \in [Slots -> BOOLEAN]
    /\ aborted \subseteq {s \in Slots : turn[s]}
    /\ active \in BOOLEAN /\ watched \in BOOLEAN
    /\ controller \in {None} \cup {s \in Slots : turn[s]}
    /\ given \in [Messages -> Nat]
QueueType == queue \in Seq(Queued) /\ Len(queue) <= MaxQueue
SetType == happened \subseteq Messages /\ held \subseteq Messages /\ lost \subseteq Messages
RunType ==
    /\ run \in [Runs -> {"none", "scheduled", "waiting", "handling"}]
    /\ batch \in [Runs -> Seq(Queued)]
Flags == /\ stopped \in BOOLEAN /\ debounce \in BOOLEAN
         /\ pending \in BOOLEAN /\ recovering \in BOOLEAN

\* A run that is not at the handler carries nothing.
Carries == \A r \in Runs : run[r] # "handling" => batch[r] = <<>>

Carried(m) == \E r \in Runs : m \in Items(batch[r])

\* Message m is in one place once it has happened, and nowhere before.
Where(m) ==
    /\ \A r, q \in Runs : m \in Items(batch[r]) /\ m \in Items(batch[q]) => r = q
    /\ given[m] \in {0, 1}
    /\ m \in happened <=> \/ m \in Items(queue) \/ Carried(m) \/ m \in held
                          \/ m \in lost \/ given[m] = 1
    /\ m \in Items(queue) => ~Carried(m) /\ m \notin held /\ m \notin lost /\ given[m] = 0
    /\ Carried(m) => m \notin held /\ m \notin lost /\ given[m] = 0
    /\ m \in held => m \notin lost /\ given[m] = 0
    /\ m \in lost => given[m] = 0

\* The gate has messages only while the user has stopped.
Gate == held # {} => stopped

IInv == TypeOK /\ Carries /\ Gate /\ \A m \in Messages : Where(m)

LEMMA TypeParts == TypeOK <=> TurnType /\ QueueType /\ SetType /\ RunType /\ Flags
BY Zenon DEF TypeOK, TurnType, QueueType, SetType, RunType, Flags

LEMMA TypePartsNext ==
    TypeOK' <=> TurnType' /\ QueueType' /\ SetType' /\ RunType' /\ Flags'
BY Zenon DEF TypeOK, TurnType, QueueType, SetType, RunType, Flags

-----------------------------------------------------------------------------
(* The messages in a queue.                                                *)

LEMMA ItemsEmpty ==
    /\ Items(<<>>) = {}
    /\ \A s \in Seq(Queued) : Items(s) = {} <=> s = <<>>
    /\ \A s \in Seq(Queued) : Items(s) \subseteq Messages
    /\ \A s \in Seq(Queued) : s # <<>> => Head(s) \in Items(s)
BY DEF Items, Messages

\* What enqueueing m leaves in the queue and what falls out of it are together
\* what was there and m.
LEMMA PushedFacts ==
    ASSUME TypeOK, NEW m \in Queued
    PROVE  /\ Pushed(m) \in Seq(Queued) /\ Len(Pushed(m)) <= MaxQueue
           /\ Items(Pushed(m)) \cup Fallen(m) = Items(queue) \cup {m}
           /\ Items(Pushed(m)) \cap Fallen(m) = {}
<1> DEFINE q == Append(queue, m)
<1>1. queue \in Seq(Queued) /\ Len(queue) <= MaxQueue /\ MaxQueue \in Nat \ {0}
  BY AutoTurnsAssumption DEF TypeOK
<1>2. q \in Seq(Queued) /\ Len(q) = Len(queue) + 1
  BY <1>1
<1>3. Items(q) = Items(queue) \cup {m}
  <2>1. Items(q) \subseteq Items(queue) \cup {m}
    BY <1>1 DEF Items
  <2>2. m \in Items(q)
    <3>1. q[Len(queue) + 1] = m /\ Len(queue) + 1 \in DOMAIN q
      BY <1>1
    <3> QED BY <3>1 DEF Items
  <2>3. ASSUME NEW i \in DOMAIN queue PROVE queue[i] \in Items(q)
    <3>1. q[i] = queue[i] /\ i \in DOMAIN q
      BY <1>1
    <3> QED BY <3>1 DEF Items
  <2>4. Items(queue) \subseteq Items(q)
    BY <2>3 DEF Items
  <2> QED BY <2>1, <2>2, <2>4
<1> HIDE DEF q
<1>4. CASE Len(q) > MaxQueue
  <2>1. Pushed(m) = Tail(q)
    BY <1>4 DEF Pushed, q
  <2>2. q # <<>> /\ Tail(q) \in Seq(Queued) /\ Len(Tail(q)) = Len(q) - 1
    BY <1>1, <1>2
  <2>3. Items(Tail(q)) \subseteq Items(q)
    BY <1>2, <2>2 DEF Items
  <2> QED BY <1>1, <1>2, <1>3, <2>1, <2>2, <2>3 DEF Fallen, q
<1>5. CASE ~(Len(q) > MaxQueue)
  <2>1. Pushed(m) = q
    BY <1>5 DEF Pushed, q
  <2> QED BY <1>1, <1>2, <1>3, <1>5, <2>1 DEF Fallen, q
<1> QED BY <1>4, <1>5

-----------------------------------------------------------------------------
(* The parts of the actions.                                               *)

\* A turn begins with the messages of M in its prompt.
LEMMA ChatFacts ==
    ASSUME TypeOK, NEW s \in Slots, NEW M, Chat(s, M)
    PROVE  /\ TurnType'
           /\ \A m \in Messages :
                 given'[m] = IF m \in M THEN given[m] + 1 ELSE given[m]
BY TypeParts DEF Chat, TurnType

\* A turn ends.
LEMMA OverFacts ==
    ASSUME TypeOK, NEW s \in Slots,
           turn' = [turn EXCEPT ![s] = FALSE],
           aborted' = aborted \ {s}, controller' = None,
           active' = FALSE, watched' = FALSE, UNCHANGED given
    PROVE  TurnType'
BY TypeParts DEF TurnType

LEMMA EmptyQueue == queue' = <<>> => QueueType'
<1>1. <<>> \in Seq(Queued) /\ Len(<<>>) = 0 /\ MaxQueue \in Nat
  BY AutoTurnsAssumption
<1> QED BY <1>1 DEF QueueType

LEMMA InitIInv == Init => IInv
<1> SUFFICES ASSUME Init PROVE IInv
  OBVIOUS
<1>1. TypeOK
  <2>1. QueueType
    <3>1. <<>> \in Seq(Queued) /\ Len(<<>>) = 0 /\ MaxQueue \in Nat
      BY AutoTurnsAssumption
    <3> QED BY <3>1 DEF Init, QueueType
  <2>2. TurnType
    BY DEF Init, TurnType
  <2>3. SetType /\ RunType
    BY DEF Init, SetType, RunType
  <2>4. Flags
    BY DEF Init, Flags
  <2> QED BY <2>1, <2>2, <2>3, <2>4, TypeParts
<1>2. Carries /\ Gate
  BY DEF Init, Carries, Gate
<1>3. \A m \in Messages : Where(m)
  BY ItemsEmpty DEF Init, Where, Carried
<1> QED BY <1>1, <1>2, <1>3 DEF IInv

\* Messages move from the queue and the gate to the model or to what is lost.
LEMMA UserChatIInv ==
    ASSUME IInv, NEW s \in Slots, NEW retry \in BOOLEAN, UserChat(s, retry)
    PROVE  IInv'
<1> DEFINE before == held \cup Items(queue)
<1>1. TypeOK /\ Carries /\ Gate /\ \A m \in Messages : Where(m)
  BY DEF IInv
<1>2. /\ stopped' = FALSE /\ held' = {} /\ queue' = <<>>
      /\ UNCHANGED <<happened, debounce, pending, run, batch, recovering>>
  BY DEF UserChat, TakeHeld
<1>3. \/ Chat(s, {}) /\ lost' = lost \cup before
      \/ Chat(s, before) /\ lost' = lost
  BY DEF UserChat, Drop
<1>4. before \subseteq Messages
  BY <1>1, ItemsEmpty DEF TypeOK
<1> HIDE DEF before
<1>5. PICK M : Chat(s, M) /\ (M = {} \/ M = before)
  BY <1>3
<1>6. TypeOK'
  <2>1. TurnType'
    BY <1>1, <1>5, ChatFacts
  <2>2. SetType'
    BY <1>1, <1>2, <1>3, <1>4, TypeParts DEF SetType
  <2>3. RunType'
    BY <1>1, <1>2, TypeParts DEF RunType
  <2>4. Flags'
    BY <1>1, <1>2, TypeParts DEF Flags
  <2> QED BY <1>2, <2>1, <2>2, <2>3, <2>4, EmptyQueue, TypePartsNext
<1>7. Carries' /\ Gate'
  BY <1>1, <1>2 DEF Carries, Gate
<1>8. ASSUME NEW m \in Messages PROVE Where(m)'
  <2>1. Where(m) /\ Items(queue') = {} /\ (Carried(m)' <=> Carried(m))
    BY <1>1, <1>2, ItemsEmpty DEF Carried
  <2>2. CASE Chat(s, {}) /\ lost' = lost \cup before
    <3>1. given'[m] = given[m]
      BY <1>1, <2>2, ChatFacts
    <3> QED BY <1>2, <2>1, <2>2, <3>1 DEF Where, before
  <2>3. CASE Chat(s, before) /\ lost' = lost
    <3>1. given'[m] = IF m \in before THEN given[m] + 1 ELSE given[m]
      BY <1>1, <2>3, ChatFacts
    <3> QED BY <1>2, <2>1, <2>3, <3>1 DEF Where, before
  <2> QED BY <1>3, <2>2, <2>3
<1> QED BY <1>6, <1>7, <1>8 DEF IInv

LEMMA TurnEndsIInv ==
    ASSUME IInv, NEW s \in Slots, TurnEnds(s)
    PROVE  IInv'
<1> DEFINE left == Items(queue)
<1>1. TypeOK /\ Carries /\ Gate /\ \A m \in Messages : Where(m)
  BY DEF IInv
<1>2. /\ queue' = <<>>
      /\ UNCHANGED <<happened, debounce, pending, run, batch, stopped, recovering>>
  BY DEF TurnEnds
<1>3. left \subseteq Messages
  BY <1>1, TypeParts, ItemsEmpty DEF QueueType
<1> DEFINE Over == /\ turn' = [turn EXCEPT ![s] = FALSE]
                   /\ aborted' = aborted \ {s}
                   /\ active' = FALSE /\ controller' = None /\ watched' = FALSE
                   /\ UNCHANGED given
<1>4. \/ Over /\ left = {} /\ held' = held /\ lost' = lost
      \/ Over /\ stopped /\ held' = held \cup left /\ lost' = lost
      \/ Over /\ held' = held /\ lost' = lost \cup left
      \/ Chat(s, left) /\ held' = held /\ lost' = lost
  BY DEF TurnEnds, Holds, Drop
<1>5. Over => TurnType' /\ given' = given
  BY <1>1, OverFacts
<1> HIDE DEF left, Over
<1>6. TypeOK'
  <2>1. TurnType'
    BY <1>1, <1>4, <1>5, ChatFacts
  <2>2. SetType'
    BY <1>1, <1>2, <1>3, <1>4, TypeParts DEF SetType
  <2>3. RunType'
    BY <1>1, <1>2, TypeParts DEF RunType
  <2>4. Flags'
    BY <1>1, <1>2, TypeParts DEF Flags
  <2> QED BY <1>2, <2>1, <2>2, <2>3, <2>4, EmptyQueue, TypePartsNext
<1>7. Carries' /\ Gate'
  BY <1>1, <1>2, <1>4 DEF Carries, Gate
<1>8. ASSUME NEW m \in Messages PROVE Where(m)'
  <2>1. Where(m) /\ Items(queue') = {} /\ (Carried(m)' <=> Carried(m))
    BY <1>1, <1>2, ItemsEmpty DEF Carried
  <2>2. CASE Over
    <3>1. given'[m] = given[m]
      BY <1>5, <2>2
    <3>2. \/ left = {} /\ held' = held /\ lost' = lost
          \/ held' = held \cup left /\ lost' = lost
          \/ held' = held /\ lost' = lost \cup left
          \/ Chat(s, left) /\ held' = held /\ lost' = lost
      BY <1>4
    <3>3. CASE Chat(s, left) /\ held' = held /\ lost' = lost
      <4>1. given'[m] = IF m \in left THEN given[m] + 1 ELSE given[m]
        BY <1>1, <3>3, ChatFacts
      <4> QED BY <1>2, <2>1, <3>3, <4>1 DEF Where, left
    <3>4. CASE \/ left = {} /\ held' = held /\ lost' = lost
               \/ held' = held \cup left /\ lost' = lost
               \/ held' = held /\ lost' = lost \cup left
      BY <1>2, <2>1, <3>1, <3>4 DEF Where, left
    <3> QED BY <3>2, <3>3, <3>4
  <2>3. CASE Chat(s, left) /\ held' = held /\ lost' = lost
    <3>1. given'[m] = IF m \in left THEN given[m] + 1 ELSE given[m]
      BY <1>1, <2>3, ChatFacts
    <3> QED BY <1>2, <2>1, <2>3, <3>1 DEF Where, left
  <2> QED BY <1>4, <2>2, <2>3
<1> QED BY <1>6, <1>7, <1>8 DEF IInv

\* A new message is put into the queue, and one may fall out of it.
LEMMA PushIInv ==
    ASSUME IInv, NEW m \in Queued \ happened,
           happened' = happened \cup {m}, queue' = Pushed(m),
           lost' = lost \cup Fallen(m),
           UNCHANGED <<run, batch, held, given>>,
           TurnType', Flags', stopped => stopped'
    PROVE  IInv'
<1>1. TypeOK /\ Carries /\ Gate /\ \A n \in Messages : Where(n)
  BY DEF IInv
<1>2. /\ Items(queue') \cup Fallen(m) = Items(queue) \cup {m}
      /\ Items(queue') \cap Fallen(m) = {}
      /\ QueueType'
  BY <1>1, PushedFacts DEF QueueType
<1>3. Items(queue) \subseteq Messages /\ m \in Messages
  BY <1>1, TypeParts, ItemsEmpty DEF QueueType, Messages
<1>4. TypeOK'
  <2>1. SetType'
    BY <1>1, <1>2, <1>3, TypeParts DEF SetType
  <2>2. RunType'
    BY <1>1, TypeParts DEF RunType
  <2> QED BY <1>2, <2>1, <2>2, TypePartsNext
<1>5. Carries' /\ Gate'
  BY <1>1 DEF Carries, Gate
<1>6. ASSUME NEW n \in Messages PROVE Where(n)'
  <2>1. Where(n) /\ (Carried(n)' <=> Carried(n)) /\ given'[n] = given[n]
    BY <1>1 DEF Carried
  <2> QED BY <1>2, <2>1 DEF Where
<1> QED BY <1>4, <1>5, <1>6 DEF IInv

\* No message moves.
LEMMA StillIInv ==
    ASSUME IInv, UNCHANGED <<happened, queue, run, batch, held, lost>>,
           \A m \in Messages : given'[m] = given[m],
           TurnType', Flags', stopped => stopped'
    PROVE  IInv'
<1>1. TypeOK /\ Carries /\ Gate /\ \A n \in Messages : Where(n)
  BY DEF IInv
<1>2. TypeOK'
  BY <1>1, TypeParts, TypePartsNext DEF SetType, RunType, QueueType
<1>3. Carries' /\ Gate'
  BY <1>1 DEF Carries, Gate
<1>4. ASSUME NEW n \in Messages PROVE Where(n)'
  BY <1>1 DEF Where, Carried
<1> QED BY <1>2, <1>3, <1>4 DEF IInv

\* A call of _runAutoResume that is not at the handler goes on or ends.
LEMMA RunIInv ==
    ASSUME IInv, NEW r \in Runs, run[r] # "handling",
           \/ /\ \E to \in {"none", "waiting"} : run' = [run EXCEPT ![r] = to]
              /\ UNCHANGED <<queue, batch, pending>>
           \/ Fetch(r),
           UNCHANGED <<happened, held, stopped, turns, recovering, given, lost>>,
           debounce' \in BOOLEAN
    PROVE  IInv'
<1>1. TypeOK /\ Carries /\ Gate /\ \A n \in Messages : Where(n)
  BY DEF IInv
<1>2. TurnType'
  BY <1>1, TypeParts DEF TurnType, turns
<1>3. UNCHANGED <<stopped, recovering>> /\ pending' \in BOOLEAN
  BY <1>1, TypeParts DEF Fetch, Flags
<1>4. Flags'
  BY <1>1, <1>3, TypeParts DEF Flags
<1>5. batch[r] = <<>> /\ Items(batch[r]) = {}
  BY <1>1, ItemsEmpty DEF Carries
<1>6. SetType' /\ Gate'
  BY <1>1, TypeParts DEF SetType, Gate
<1>7. CASE /\ \E to \in {"none", "waiting"} : run' = [run EXCEPT ![r] = to]
           /\ UNCHANGED <<queue, batch, pending>>
  <2>1. QueueType' /\ RunType'
    BY <1>1, <1>7, TypeParts DEF QueueType, RunType
  <2>2. Carries'
    BY <1>1, <1>5, <1>7, TypeParts DEF Carries, RunType
  <2>3. \A n \in Messages : Where(n)'
    BY <1>1, <1>7 DEF Where, Carried
  <2> QED BY <1>2, <1>4, <1>6, <2>1, <2>2, <2>3, TypePartsNext DEF IInv
<1>8. CASE Fetch(r)
  <2>1. /\ queue' = <<>> /\ batch' = [batch EXCEPT ![r] = queue]
        /\ run' = [run EXCEPT ![r] = IF queue = <<>> THEN "none" ELSE "handling"]
    BY <1>8 DEF Fetch
  <2>2. /\ batch'[r] = queue
        /\ \A q \in Runs : q # r => batch'[q] = batch[q] /\ run'[q] = run[q]
        /\ run'[r] = IF queue = <<>> THEN "none" ELSE "handling"
    BY <1>1, <2>1, TypeParts DEF RunType
  <2>3. QueueType'
    BY <2>1, EmptyQueue
  <2>4. RunType'
    BY <1>1, <2>1, TypeParts DEF RunType, QueueType
  <2>5. Carries'
    BY <1>1, <2>2 DEF Carries
  <2>6. ASSUME NEW n \in Messages PROVE Where(n)'
    <3>1. Where(n) /\ Items(queue') = {} /\ n \notin Items(batch[r])
      BY <1>1, <1>5, <2>1, ItemsEmpty
    <3>2. Carried(n)' <=> n \in Items(queue) \/ Carried(n)
      BY <2>2, <3>1 DEF Carried
    <3>3. \A a, b \in Runs :
             n \in Items(batch'[a]) /\ n \in Items(batch'[b]) => a = b
      <4> SUFFICES ASSUME NEW a \in Runs, NEW b \in Runs,
                          n \in Items(batch'[a]), n \in Items(batch'[b])
                   PROVE  a = b
        OBVIOUS
      <4>1. CASE n \in Items(queue)
        <5>1. ~Carried(n)
          BY <3>1, <4>1 DEF Where
        <5> QED BY <2>2, <5>1 DEF Carried
      <4>2. CASE n \notin Items(queue)
        BY <2>2, <3>1, <4>2 DEF Where
      <4> QED BY <4>1, <4>2
    <3> QED BY <3>1, <3>2, <3>3 DEF Where
  <2> QED BY <1>2, <1>4, <1>6, <2>3, <2>4, <2>5, <2>6, TypePartsNext DEF IInv
<1> QED BY <1>7, <1>8

\* What AutoChat does with the messages it is given.
LEMMA AutoFacts ==
    ASSUME TypeOK, Gate, NEW s \in Slots, NEW M \in SUBSET Messages, AutoChat(s, M),
           UNCHANGED stopped
    PROVE  /\ TurnType' /\ Gate' /\ held' \subseteq Messages
           /\ \/ /\ held' = held \cup M
                 /\ \A m \in Messages : given'[m] = given[m]
              \/ /\ held' = held
                 /\ \A m \in Messages :
                       given'[m] = IF m \in M THEN given[m] + 1 ELSE given[m]
<1>1. CASE Holds(M)
  <2>1. stopped /\ held' = held \cup M /\ UNCHANGED <<turns, given>>
    BY <1>1 DEF AutoChat, Holds
  <2>2. TurnType'
    BY <2>1, TypeParts DEF TurnType, turns
  <2> QED BY <2>1, <2>2, TypeParts DEF Gate, SetType
<1>2. CASE ~Holds(M)
  <2>1. Chat(s, M) /\ held' = held
    BY <1>2 DEF AutoChat
  <2> QED BY <2>1, ChatFacts, TypeParts DEF Gate, SetType
<1> QED BY <1>1, <1>2

LEMMA WakeupIInv ==
    ASSUME IInv, NEW m \in Messages, NEW s \in Slots, WakeupFires(m, s)
    PROVE  IInv'
<1>1. TypeOK /\ Carries /\ Gate /\ \A n \in Messages : Where(n)
  BY DEF IInv
<1>2. /\ m \notin happened /\ happened' = happened \cup {m}
      /\ AutoChat(s, {m})
      /\ UNCHANGED <<queue, debounce, pending, run, batch, stopped, recovering, lost>>
  BY DEF WakeupFires, notifier
<1>3. /\ TurnType' /\ Gate' /\ held' \subseteq Messages
      /\ \/ /\ held' = held \cup {m}
            /\ \A n \in Messages : given'[n] = given[n]
         \/ /\ held' = held
            /\ \A n \in Messages :
                  given'[n] = IF n \in {m} THEN given[n] + 1 ELSE given[n]
  BY <1>1, <1>2, AutoFacts
<1>4. TypeOK'
  <2>1. QueueType' /\ RunType' /\ SetType'
    BY <1>1, <1>2, <1>3, TypeParts DEF QueueType, RunType, SetType
  <2>2. Flags'
    BY <1>1, <1>2, TypeParts DEF Flags
  <2> QED BY <1>3, <2>1, <2>2, TypePartsNext
<1>5. Carries'
  BY <1>1, <1>2 DEF Carries
<1>6. ASSUME NEW n \in Messages PROVE Where(n)'
  <2>1. Where(n) /\ (Carried(n)' <=> Carried(n))
    BY <1>1, <1>2 DEF Carried
  <2> QED BY <1>2, <1>3, <2>1 DEF Where
<1> QED BY <1>3, <1>4, <1>5, <1>6 DEF IInv

LEMMA HandleIInv ==
    ASSUME IInv, NEW r \in Runs, NEW s \in Slots, Handle(r, s)
    PROVE  IInv'
<1> DEFINE M == Items(batch[r])
<1>1. TypeOK /\ Carries /\ Gate /\ \A n \in Messages : Where(n)
  BY DEF IInv
<1>2. run[r] = "handling" /\ UNCHANGED <<happened, debounce, stopped, recovering>>
  BY DEF Handle
<1>3. \/ /\ lost' = lost \cup (M \cup Items(queue)) /\ Finish(r, <<>>)
         /\ UNCHANGED <<held, turns, given>>
      \/ /\ lost' = lost \cup M /\ Finish(r, queue)
         /\ UNCHANGED <<held, turns, given>>
      \/ AutoChat(s, M) /\ Finish(r, queue) /\ lost' = lost
  BY DEF Handle, Drop
<1>4. /\ M \subseteq Messages /\ Items(queue) \subseteq Messages /\ Items(<<>>) = {}
  BY <1>1, TypeParts, ItemsEmpty DEF RunType, QueueType
<1>5. PICK left \in {<<>>, queue} : Finish(r, left)
  BY <1>3
<1>6. /\ queue' = left /\ pending' = FALSE
      /\ batch' = [batch EXCEPT ![r] = <<>>]
      /\ run' = [run EXCEPT ![r] = IF left = <<>> THEN "none" ELSE "scheduled"]
  BY <1>5 DEF Finish
<1>7. /\ batch'[r] = <<>>
      /\ \A q \in Runs : q # r => batch'[q] = batch[q] /\ run'[q] = run[q]
  BY <1>1, <1>6, TypeParts DEF RunType
<1> HIDE DEF M
<1>8. /\ TurnType' /\ Gate' /\ held' \subseteq Messages
      /\ \/ /\ held' = held \cup M
            /\ \A m \in Messages : given'[m] = given[m]
         \/ /\ held' = held
            /\ \A m \in Messages :
                  given'[m] = IF m \in M THEN given[m] + 1 ELSE given[m]
         \/ /\ held' = held
            /\ \A m \in Messages : given'[m] = given[m]
  <2>1. CASE UNCHANGED <<held, turns, given>>
    BY <1>1, <1>2, <2>1, TypeParts DEF TurnType, turns, Gate, SetType
  <2>2. CASE AutoChat(s, M)
    BY <1>1, <1>2, <1>4, <2>2, AutoFacts
  <2> QED BY <1>3, <2>1, <2>2
<1>9. TypeOK'
  <2>1. QueueType'
    BY <1>1, <1>6, EmptyQueue, TypeParts DEF QueueType
  <2>2. RunType'
    BY <1>1, <1>6, TypeParts DEF RunType
  <2>3. SetType'
    BY <1>1, <1>2, <1>3, <1>4, <1>8, TypeParts DEF SetType
  <2>4. Flags'
    BY <1>1, <1>2, <1>6, TypeParts DEF Flags
  <2> QED BY <1>8, <2>1, <2>2, <2>3, <2>4, TypePartsNext
<1>10. Carries'
  BY <1>1, <1>7 DEF Carries
<1>11. ASSUME NEW n \in Messages PROVE Where(n)'
  <2>1. Where(n) /\ n \notin Items(batch'[r])
    BY <1>1, <1>4, <1>7
  <2>2. Carried(n)' <=> Carried(n) /\ n \notin M
    BY <1>7, <2>1 DEF Carried, M, Where
  <2>3. n \in M => Carried(n)
    BY DEF Carried, M
  <2>4. \A a, b \in Runs : n \in Items(batch'[a]) /\ n \in Items(batch'[b]) => a = b
    BY <1>7, <2>1 DEF Where
  <2>5. CASE /\ lost' = lost \cup (M \cup Items(queue)) /\ Finish(r, <<>>)
             /\ UNCHANGED <<held, turns, given>>
    <3>1. Items(queue') = {}
      BY <1>4, <2>5 DEF Finish
    <3> QED BY <1>2, <2>1, <2>2, <2>3, <2>4, <2>5, <3>1 DEF Where
  <2>6. CASE /\ lost' = lost \cup M /\ Finish(r, queue)
             /\ UNCHANGED <<held, turns, given>>
    <3>1. queue' = queue
      BY <2>6 DEF Finish
    <3> QED BY <1>2, <2>1, <2>2, <2>3, <2>4, <2>6, <3>1 DEF Where
  <2>7. CASE AutoChat(s, M) /\ Finish(r, queue) /\ lost' = lost
    <3>1. queue' = queue
      BY <2>7 DEF Finish
    <3>2. \/ held' = held \cup M /\ given'[n] = given[n]
          \/ /\ held' = held
             /\ given'[n] = IF n \in M THEN given[n] + 1 ELSE given[n]
      BY <1>1, <1>2, <1>4, <2>7, AutoFacts
    <3> QED BY <1>2, <2>1, <2>2, <2>3, <2>4, <2>7, <3>1, <3>2 DEF Where
  <2> QED BY <1>3, <2>5, <2>6, <2>7
<1> QED BY <1>8, <1>9, <1>10, <1>11 DEF IInv

\* The controller in the table is aborted.
LEMMA AbortFacts ==
    ASSUME TypeOK, Abort, watched' \in BOOLEAN, UNCHANGED given
    PROVE  TurnType'
BY TypeParts DEF Abort, TurnType

\* The aborts of the user and of the program, with the note they may leave.
LEMMA SurvivorsIInv ==
    ASSUME IInv, NEW m \in Notes \cup {None}, Abort, Survivors(m),
           UNCHANGED <<debounce, pending, run, batch, held, given>>,
           watched' \in BOOLEAN, recovering' \in BOOLEAN,
           stopped' = TRUE \/ stopped' = stopped
    PROVE  IInv'
<1>1. TypeOK /\ TurnType'
  BY AbortFacts DEF IInv
<1>2. Flags'
  BY <1>1, TypeParts DEF Flags
<1>3. stopped => stopped'
  OBVIOUS
<1>4. CASE m \in Notes \ happened
  <2>1. /\ happened' = happened \cup {m} /\ queue' = Pushed(m)
        /\ lost' = lost \cup Fallen(m) /\ m \in Queued \ happened
    BY <1>4 DEF Survivors, Drop, Queued
  <2> QED BY <1>1, <1>2, <1>3, <2>1, PushIInv
<1>5. CASE m \notin Notes \ happened
  <2>1. UNCHANGED <<happened, queue, lost>>
    BY <1>5 DEF Survivors
  <2> QED BY <1>1, <1>2, <1>3, <2>1, StillIInv
<1> QED BY <1>4, <1>5

LEMMA EnqueueIInv ==
    ASSUME IInv, NEW m \in Messages, Enqueue(m)
    PROVE  IInv'
<1>1. TypeOK
  BY DEF IInv
<1>2. /\ m \in Queued \ happened
      /\ happened' = happened \cup {m} /\ queue' = Pushed(m)
      /\ lost' = lost \cup Fallen(m)
      /\ UNCHANGED <<pending, run, batch, held, stopped, turns, recovering, given>>
      /\ debounce' = (debounce \/ (m \notin Notes /\ ~pending))
  BY DEF Enqueue, Drop
<1>3. TurnType'
  BY <1>1, <1>2, TypeParts DEF TurnType, turns
<1>4. Flags'
  <2>1. debounce' \in BOOLEAN
    BY <1>2
  <2> QED BY <1>1, <1>2, <2>1, TypeParts DEF Flags
<1> QED BY <1>2, <1>3, <1>4, PushIInv

LEMMA RecoverIInv ==
    ASSUME IInv, NEW s \in Slots, Recover(s)
    PROVE  IInv'
<1>1. TypeOK
  BY DEF IInv
<1>2. /\ recovering' = FALSE /\ Chat(s, {})
      /\ UNCHANGED <<happened, notifier, held, stopped, lost>>
  BY DEF Recover
<1>3. TurnType' /\ \A m \in Messages : given'[m] = given[m]
  BY <1>1, <1>2, ChatFacts
<1>4. Flags'
  BY <1>1, <1>2, TypeParts DEF Flags, notifier
<1> QED BY <1>2, <1>3, <1>4, StillIInv DEF notifier

LEMMA NextIInv == IInv /\ [Next]_vars => IInv'
<1> SUFFICES ASSUME IInv, [Next]_vars PROVE IInv'
  OBVIOUS
<1>1. ASSUME NEW s \in Slots, NEW retry \in BOOLEAN, UserChat(s, retry) PROVE IInv'
  BY <1>1, UserChatIInv
<1>2. ASSUME NEW s \in Slots, TurnEnds(s) PROVE IInv'
  BY <1>2, TurnEndsIInv
<1>3. ASSUME NEW s \in Slots, Recover(s) PROVE IInv'
  BY <1>3, RecoverIInv
<1>4. ASSUME NEW m \in Messages, NEW s \in Slots, WakeupFires(m, s) PROVE IInv'
  BY <1>4, WakeupIInv
<1>5. ASSUME NEW r \in Runs, NEW s \in Slots, Handle(r, s) PROVE IInv'
  BY <1>5, HandleIInv
<1>6. ASSUME NEW m \in Messages, Enqueue(m) PROVE IInv'
  BY <1>6, EnqueueIInv
<1>7. ASSUME NEW m \in Notes \cup {None},
             Stop(m) \/ StallAborts(m) \/ StallGivesUp(m)
      PROVE  IInv'
  <2>1. Flags /\ TurnType
    BY TypeParts DEF IInv
  <2>2. CASE Stop(m)
    BY <2>1, <2>2, SurvivorsIInv DEF Stop, Flags, TurnType
  <2>3. CASE StallAborts(m)
    BY <2>1, <2>3, SurvivorsIInv DEF StallAborts, Flags, TurnType
  <2>4. CASE StallGivesUp(m)
    BY <2>1, <2>4, SurvivorsIInv DEF StallGivesUp, Flags, TurnType
  <2> QED BY <1>7, <2>2, <2>3, <2>4
<1>8. ASSUME NEW r \in Runs,
             \/ DebounceFires(r) \/ RescheduleFires(r) \/ WaitEnds(r) \/ WaitGivesUp(r)
      PROVE  IInv'
  <2>1. debounce \in BOOLEAN
    BY TypeParts DEF IInv, Flags
  <2>2. CASE DebounceFires(r)
    BY <2>2, RunIInv DEF DebounceFires, Begin
  <2>3. CASE RescheduleFires(r)
    BY <2>1, <2>3, RunIInv DEF RescheduleFires, Begin
  <2>4. CASE WaitEnds(r)
    BY <2>1, <2>4, RunIInv DEF WaitEnds
  <2>5. CASE WaitGivesUp(r)
    BY <2>1, <2>5, RunIInv DEF WaitGivesUp
  <2> QED BY <1>8, <2>2, <2>3, <2>4, <2>5
<1>9. CASE UNCHANGED vars
  <2>1. UNCHANGED <<happened, queue, run, batch, held, lost, stopped, given, turns,
                    debounce, pending, recovering>>
    BY <1>9 DEF vars, notifier
  <2>2. TurnType' /\ Flags'
    BY <2>1, TypeParts DEF IInv, TurnType, Flags, turns
  <2> QED BY <2>1, <2>2, StillIInv
<1> QED BY <1>1, <1>2, <1>3, <1>4, <1>5, <1>6, <1>7, <1>8, <1>9 DEF Next

LEMMA IInvAlways == Spec => []IInv
BY InitIInv, NextIInv, PTL DEF Spec

-----------------------------------------------------------------------------
(* What is promised of turns nobody typed.                                 *)

LEMMA IInvOnePlace == IInv => OnePlace
<1> SUFFICES ASSUME IInv PROVE OnePlace
  OBVIOUS
<1>1. ASSUME NEW m \in Messages
      PROVE  (IF m \in Items(queue) THEN 1 ELSE 0)
             + Cardinality({r \in Runs : m \in Items(batch[r])})
             + (IF m \in held THEN 1 ELSE 0)
             + (IF m \in lost THEN 1 ELSE 0)
             + given[m] = (IF m \in happened THEN 1 ELSE 0)
  <2> DEFINE R == {r \in Runs : m \in Items(batch[r])}
  <2>1. Where(m)
    BY DEF IInv
  <2>2. Cardinality(R) = IF Carried(m) THEN 1 ELSE 0
    <3>1. CASE Carried(m)
      <4>1. PICK r \in Runs : m \in Items(batch[r])
        BY <3>1 DEF Carried
      <4>2. R = {r}
        BY <2>1, <4>1 DEF Where
      <4> QED BY <3>1, <4>2, FS_Singleton
    <3>2. CASE ~Carried(m)
      <4>1. R = {}
        BY <3>2 DEF Carried
      <4> QED BY <3>2, <4>1, FS_EmptySet
    <3> QED BY <3>1, <3>2
  <2> HIDE DEF R
  <2>3. (IF m \in Items(queue) THEN 1 ELSE 0)
        + Cardinality(R)
        + (IF m \in held THEN 1 ELSE 0)
        + (IF m \in lost THEN 1 ELSE 0)
        + given[m] = (IF m \in happened THEN 1 ELSE 0)
    BY <2>1, <2>2 DEF Where
  <2> QED BY <2>3 DEF R
<1> QED BY <1>1 DEF OnePlace, IInv, Gate

\* After a stop, a turn that begins by itself brings a scheduled job.
LEMMA ChatStop ==
    ASSUME TypeOK, NEW s \in Slots, NEW M, Chat(s, M), stopped, ~Holds(M)
    PROVE  \E m \in Scheduled : given'[m] # given[m]
<1>1. PICK m \in M \cap Scheduled : TRUE
  BY DEF Holds
<1>2. m \in Messages
  BY DEF Messages, Queued
<1>3. given[m] \in Nat /\ given'[m] = given[m] + 1
  BY <1>2, ChatFacts, TypeParts DEF TurnType
<1> QED BY <1>3

LEMMA AutoStop ==
    ASSUME TypeOK, NEW s \in Slots, NEW M, AutoChat(s, M), stopped
    PROVE  \/ UNCHANGED <<turn, given>>
           \/ \E m \in Scheduled : given'[m] # given[m]
<1>1. CASE Holds(M)
  BY <1>1 DEF AutoChat, turns
<1>2. CASE ~Holds(M)
  BY <1>2, ChatStop DEF AutoChat
<1> QED BY <1>1, <1>2

\* Every step under a stop: no turn begins, or one for a scheduled job, or the
\* stall guard's.
LEMMA StepStop ==
    ASSUME TypeOK, [Next]_vars, stopped, stopped', TurnBegins
    PROVE  \/ \E m \in Scheduled : given'[m] # given[m]
           \/ recovering /\ ~recovering' /\ UNCHANGED <<queue, batch, held, given>>
<1> DEFINE Job == \E m \in Scheduled : given'[m] # given[m]
           Goal == Job \/ (recovering /\ ~recovering'
                           /\ UNCHANGED <<queue, batch, held, given>>)
<1>0. UNCHANGED <<turn, given>> => FALSE
  BY DEF TurnBegins
<1>1. ASSUME NEW s \in Slots, NEW retry \in BOOLEAN, UserChat(s, retry) PROVE Goal
  BY <1>1 DEF UserChat, TakeHeld
<1>2. ASSUME NEW s \in Slots, TurnEnds(s) PROVE Goal
  <2>1. CASE Chat(s, Items(queue)) /\ ~Holds(Items(queue))
    BY <2>1, ChatStop
  <2>2. CASE turn' = [turn EXCEPT ![s] = FALSE] /\ UNCHANGED given
    <3>1. turn \in [Slots -> BOOLEAN]
      BY TypeParts DEF TurnType
    <3>2. \A q \in Slots : turn'[q] => turn[q]
      BY <2>2, <3>1
    <3> QED BY <2>2, <3>2 DEF TurnBegins
  <2> QED BY <1>2, <2>1, <2>2 DEF TurnEnds
<1>3. ASSUME NEW s \in Slots, Recover(s) PROVE Goal
  <2>1. given' = given
    BY <1>3, TypeParts DEF Recover, Chat, TurnType
  <2> QED BY <1>3, <2>1 DEF Recover, notifier
<1>4. ASSUME NEW m \in Messages, NEW s \in Slots, WakeupFires(m, s) PROVE Goal
  BY <1>0, <1>4, AutoStop DEF WakeupFires
<1>5. ASSUME NEW r \in Runs, NEW s \in Slots, Handle(r, s) PROVE Goal
  <2>1. UNCHANGED <<turn, given>> \/ AutoChat(s, Items(batch[r]))
    BY <1>5 DEF Handle, turns
  <2> QED BY <1>0, <2>1, AutoStop
<1>6. ASSUME NEW m \in Messages, Enqueue(m) PROVE Goal
  BY <1>0, <1>6 DEF Enqueue, turns
<1>7. ASSUME NEW m \in Notes \cup {None},
             Stop(m) \/ StallAborts(m) \/ StallGivesUp(m)
      PROVE  Goal
  BY <1>0, <1>7 DEF Stop, StallAborts, StallGivesUp, Abort
<1>8. ASSUME NEW r \in Runs,
             \/ DebounceFires(r) \/ RescheduleFires(r) \/ WaitEnds(r) \/ WaitGivesUp(r)
      PROVE  Goal
  BY <1>0, <1>8 DEF DebounceFires, RescheduleFires, WaitEnds, WaitGivesUp, turns
<1>9. CASE UNCHANGED vars
  BY <1>0, <1>9 DEF vars, turns
<1> QED BY <1>1, <1>2, <1>3, <1>4, <1>5, <1>6, <1>7, <1>8, <1>9 DEF Next

\* The tables of the notifier, the gate and the bridge keep their types; a
\* turn's controller and its abort are there only while the turn is.
THEOREM TypeCorrect == Spec => []TypeOK
<1>1. IInv => TypeOK
  BY DEF IInv
<1> QED BY <1>1, IInvAlways, PTL

\* No message reaches the model twice or disappears without being counted as
\* lost, whatever turns and runs of the notifier meet.
THEOREM OnePlaceAlways == Spec => []OnePlace
BY IInvAlways, IInvOnePlace, PTL

\* From a stop until the user speaks a turn begins only for a job the user
\* scheduled, or for the stall guard, which had aborted one and gives the model no
\* message.
THEOREM StopHoldsAlways == Spec => StopHolds
<1>1. TypeOK /\ [Next]_vars =>
         [stopped /\ stopped' /\ TurnBegins =>
            \/ \E m \in Scheduled : given'[m] # given[m]
            \/ recovering /\ ~recovering' /\ UNCHANGED <<queue, batch, held, given>>]_vars
  BY StepStop
<1> QED BY <1>1, TypeCorrect, PTL DEF Spec, StopHolds
=============================================================================
