-------------------------- MODULE WsGateway_proofs --------------------------
(***************************************************************************)
(* Proofs about WsGateway, for any devices, sessions and messages.         *)
(***************************************************************************)
EXTENDS WsGateway, TLAPS

\* What the handlers rely on: a connection that has not been accepted has left
\* no trace, and one that has belongs to a device.
Accepted ==
    \A c \in Conns :
        /\ c <= accepted => device[c] \in Devices
        /\ c > accepted => ws[c] = "none" /\ subscribed[c] = None

\* What an entry's set holds, oldest first, is the end of what it has taken: all
\* of it until the set is full.
Suffix(uuids, all) ==
    /\ Len(uuids) <= Len(all)
    /\ Len(uuids) < Capacity => Len(uuids) = Len(all)
    /\ \A k \in 1..Len(uuids) : uuids[k] = all[Len(all) - Len(uuids) + k]

Remembers ==
    /\ taken \in [Conns -> Seq(Messages)]
    /\ \A c \in Conns : Suffix(inbound[c], taken[c])

\* The table has the newest connection of a device, or none.
Newest ==
    \A d \in Devices : clients[d] # None =>
        \A f \in 1..accepted : device[f] = d => f <= clients[d]

IInv == /\ TypeOK /\ since \in [Conns -> Nat]
        /\ Accepted /\ OpenIsFed /\ Remembers /\ Newest

-----------------------------------------------------------------------------
LEMMA InitIInv == Init => IInv
<1> SUFFICES ASSUME Init PROVE IInv
  OBVIOUS
<1>1. TypeOK
  BY BoundsAssumption DEF Init, TypeOK, Conns
<1>2. Accepted /\ OpenIsFed
  BY BoundsAssumption DEF Init, Accepted, OpenIsFed, Conns
<1>3. Remembers /\ Newest
  BY BoundsAssumption DEF Init, Remembers, Newest, Suffix
<1> QED BY <1>1, <1>2, <1>3 DEF IInv, Init

\* What every step starts from, with the entries in the table taken apart.
LEMMA Facts ==
    ASSUME IInv
    PROVE  /\ TypeOK /\ since \in [Conns -> Nat]
           /\ Accepted /\ OpenIsFed /\ Remembers /\ Newest
           /\ accepted \in Nat /\ accepted <= MaxConns /\ MaxConns \in Nat
           /\ forwarded \in Nat /\ Len(bus) \in Nat /\ forwarded <= Len(bus)
           /\ Conns \subseteq Nat /\ None \notin Conns
           /\ 1..accepted \subseteq Conns
           /\ \A d \in Devices : clients[d] # None =>
                 /\ clients[d] \in 1..accepted /\ device[clients[d]] = d
                 /\ ws[clients[d]] = "open"
<1>1. /\ TypeOK /\ Accepted /\ accepted \in Nat /\ accepted <= MaxConns
      /\ MaxConns \in Nat /\ Conns = 1..MaxConns
  BY BoundsAssumption DEF IInv, TypeOK, Conns
<1>2. None \notin Conns
  BY <1>1, NoneAssumption
<1>3. ASSUME NEW d \in Devices, clients[d] # None
      PROVE  /\ clients[d] \in 1..accepted /\ device[clients[d]] = d
             /\ ws[clients[d]] = "open"
  <2>1. /\ clients[d] \in Conns /\ device[clients[d]] = d
        /\ ws[clients[d]] = "open"
    BY <1>1, <1>3 DEF TypeOK
  <2>2. ~(clients[d] > accepted)
    BY <1>1, <2>1 DEF Accepted
  <2> QED BY <1>1, <2>1, <2>2
<1>4. forwarded \in Nat /\ Len(bus) \in Nat /\ forwarded <= Len(bus)
  BY <1>1 DEF TypeOK
<1> QED BY <1>1, <1>2, <1>3, <1>4 DEF IInv

\* The sets change only in HandleMessage, the table only where connections come
\* and go.
LEMMA KeepsTaken ==
    ASSUME Remembers, Newest, UNCHANGED <<inbound, taken, accepted, device, clients>>
    PROVE  Remembers' /\ Newest'
BY DEF Remembers, Newest, Suffix

\* The oldest uuid makes room: the set still holds the end of what was taken.
LEMMA AddedSuffix ==
    ASSUME NEW uuids \in Seq(Messages), NEW all \in Seq(Messages),
           NEW m \in Messages, Len(uuids) <= Capacity, Suffix(uuids, all)
    PROVE  /\ Added(uuids, m) \in Seq(Messages) /\ Len(Added(uuids, m)) <= Capacity
           /\ Suffix(Added(uuids, m), Append(all, m))
<1>1. Capacity \in Nat /\ Capacity > 0 /\ Len(uuids) \in Nat /\ Len(all) \in Nat
  BY BoundsAssumption
<1>2. /\ Append(all, m) \in Seq(Messages) /\ Len(Append(all, m)) = Len(all) + 1
      /\ Append(all, m)[Len(all) + 1] = m
      /\ \A k \in 1..Len(all) : Append(all, m)[k] = all[k]
  OBVIOUS
<1>3. CASE Len(uuids) < Capacity
  <2>1. /\ Added(uuids, m) = Append(uuids, m) /\ Len(uuids) = Len(all)
        /\ \A k \in 1..Len(uuids) : uuids[k] = all[k]
    BY <1>1, <1>3 DEF Added, Suffix
  <2>2. /\ Append(uuids, m) \in Seq(Messages)
        /\ Len(Append(uuids, m)) = Len(uuids) + 1
        /\ Append(uuids, m)[Len(uuids) + 1] = m
        /\ \A k \in 1..Len(uuids) : Append(uuids, m)[k] = uuids[k]
    OBVIOUS
  <2> QED BY <1>1, <1>2, <1>3, <2>1, <2>2 DEF Suffix
<1>4. CASE Len(uuids) = Capacity
  <2> DEFINE rest == Tail(uuids)
             new  == Append(rest, m)
  <2>1. /\ rest \in Seq(Messages) /\ Len(rest) = Capacity - 1
        /\ \A k \in 1..Len(rest) : rest[k] = uuids[k + 1]
    BY <1>1, <1>4
  <2> HIDE DEF rest
  <2>2. /\ new \in Seq(Messages) /\ Len(new) = Capacity
        /\ new[Capacity] = m
        /\ \A k \in 1..(Capacity - 1) : new[k] = uuids[k + 1]
    BY <1>1, <2>1
  <2>3. Added(uuids, m) = new
    BY <1>1, <1>4 DEF Added, rest
  <2>4. \A k \in 1..Capacity : uuids[k] = all[Len(all) - Capacity + k]
    BY <1>4 DEF Suffix
  <2> HIDE DEF new
  <2> DEFINE more == Append(all, m)
  <2>5. /\ Len(more) = Len(all) + 1 /\ more[Len(all) + 1] = m
        /\ \A k \in 1..Len(all) : more[k] = all[k]
    BY <1>2
  <2> HIDE DEF more
  <2>6. ASSUME NEW k \in 1..Capacity
        PROVE  new[k] = more[Len(all) + 1 - Capacity + k]
    <3>1. CASE k = Capacity
      <4>1. Len(all) + 1 - Capacity + k = Len(all) + 1
        BY <1>1, <3>1
      <4> QED BY <2>2, <2>5, <3>1, <4>1
    <3>2. CASE k # Capacity
      <4>1. k \in 1..(Capacity - 1) /\ k + 1 \in 1..Capacity
        BY <1>1, <3>2
      <4>2. new[k] = all[Len(all) - Capacity + (k + 1)]
        BY <2>2, <2>4, <4>1
      <4>3. Len(all) - Capacity + (k + 1) \in 1..Len(all)
        BY <1>1, <1>4, <4>1 DEF Suffix
      <4>4. Len(all) - Capacity + (k + 1) = Len(all) + 1 - Capacity + k
        BY <1>1, <4>1
      <4> QED BY <2>5, <4>2, <4>3, <4>4
    <3> QED BY <3>1, <3>2
  <2>7. Capacity <= Len(all) + 1
    BY <1>1, <1>4 DEF Suffix
  <2>8. Suffix(new, more)
    BY ONLY <1>1, <2>2, <2>5, <2>6, <2>7 DEF Suffix
  <2> QED BY <1>1, <2>2, <2>3, <2>8 DEF more
<1> QED BY <1>1, <1>3, <1>4

\* What is not in the set was not among the last Capacity messages.
LEMMA ForgottenIsOld ==
    ASSUME NEW uuids \in Seq(Messages), NEW all \in Seq(Messages), NEW m,
           Len(uuids) <= Capacity, Suffix(uuids, all), ~Contains(uuids, m),
           NEW i \in 1..Len(all), all[i] = m
    PROVE  Len(all) - i >= Capacity
<1>1. /\ Capacity \in Nat /\ Len(uuids) \in Nat /\ Len(all) \in Nat /\ i \in Nat
      /\ \A k \in 1..Len(uuids) : uuids[k] # m
  BY BoundsAssumption DEF Contains
<1>2. SUFFICES ASSUME Len(all) - i < Capacity PROVE FALSE
  BY <1>1
<1> DEFINE k == i - (Len(all) - Len(uuids))
<1>3. k \in 1..Len(uuids) /\ Len(all) - Len(uuids) + k = i
  BY <1>1, <1>2 DEF Suffix
<1> QED BY <1>1, <1>3 DEF Suffix

LEMMA ConnectIInv ==
    ASSUME IInv, NEW d \in Devices, Connect(d)
    PROVE  IInv'
<1> DEFINE c == accepted + 1
           old == clients[d]
<1>1. /\ TypeOK /\ since \in [Conns -> Nat]
      /\ Accepted /\ OpenIsFed /\ Remembers /\ Newest
      /\ accepted \in Nat /\ accepted <= MaxConns /\ MaxConns \in Nat
      /\ forwarded \in Nat /\ Len(bus) \in Nat /\ forwarded <= Len(bus)
      /\ Conns \subseteq Nat /\ None \notin Conns
      /\ 1..accepted \subseteq Conns
      /\ \A e \in Devices : clients[e] # None =>
            /\ clients[e] \in 1..accepted /\ device[clients[e]] = e
            /\ ws[clients[e]] = "open"
  BY Facts
<1>2. /\ accepted < MaxConns /\ accepted' = c
      /\ device' = [device EXCEPT ![c] = d]
      /\ ws' = [Replaced(old) EXCEPT ![c] = "open"]
      /\ clients' = [clients EXCEPT ![d] = c]
      /\ since' = [since EXCEPT ![c] = forwarded]
      /\ UNCHANGED <<vanished, subscribed, inbound, wire, bus, forwarded, sent,
                     robbed, taken>>
  BY DEF Connect, feed
<1>3. c \in Conns /\ c \notin 1..accepted /\ c \in 1..c /\ 1..accepted \subseteq 1..c
  BY <1>1, <1>2 DEF Conns
<1>4. ws[c] = "none" /\ subscribed[c] = None
  BY <1>1, <1>3 DEF Accepted
<1>5. /\ Replaced(old) \in [Conns -> {"none", "open", "closing", "dead", "closed"}]
      /\ \A b \in Conns :
            Replaced(old)[b] = IF b = old /\ b # None THEN "closing" ELSE ws[b]
  BY <1>1 DEF Replaced, TypeOK
<1>6. \A b \in Conns :
         /\ ws'[b] = IF b = c THEN "open" ELSE IF b = old THEN "closing" ELSE ws[b]
         /\ device'[b] = IF b = c THEN d ELSE device[b]
         /\ since'[b] = IF b = c THEN forwarded ELSE since[b]
  BY <1>1, <1>2, <1>5 DEF TypeOK
<1>7. \A e \in Devices : clients'[e] = IF e = d THEN c ELSE clients[e]
  BY <1>1, <1>2 DEF TypeOK
<1> HIDE DEF c, old
<1>8. TypeOK'
  <2>1. accepted' \in 0..MaxConns
    BY <1>1, <1>2 DEF c
  <2>2. device' \in [Conns -> Devices \cup {None}]
    BY <1>1, <1>2 DEF TypeOK
  <2>3. ws' \in [Conns -> {"none", "open", "closing", "dead", "closed"}]
    BY <1>2, <1>5
  <2>4. vanished' \subseteq 1..accepted' /\ robbed' \subseteq 1..accepted'
    BY <1>1, <1>2, <1>3 DEF TypeOK
  <2>5. clients' \in [Devices -> Conns \cup {None}]
    BY <1>1, <1>2, <1>3 DEF TypeOK
  <2>6. \A e \in Devices : clients'[e] # None =>
            device'[clients'[e]] = e /\ ws'[clients'[e]] = "open"
    <3> SUFFICES ASSUME NEW e \in Devices, clients'[e] # None
                 PROVE  device'[clients'[e]] = e /\ ws'[clients'[e]] = "open"
      OBVIOUS
    <3>1. CASE e = d
      BY <1>3, <1>6, <1>7, <3>1
    <3>2. CASE e # d
      <4>1. /\ clients'[e] = clients[e] /\ clients[e] \in 1..accepted
            /\ device[clients[e]] = e /\ ws[clients[e]] = "open"
        BY <1>1, <1>7, <3>2
      <4>2. clients[e] # old
        BY <1>1, <3>2, <4>1 DEF old
      <4> QED BY <1>1, <1>3, <1>6, <4>1, <4>2
    <3> QED BY <3>1, <3>2
  <2> QED BY <1>1, <1>2, <2>1, <2>2, <2>3, <2>4, <2>5, <2>6 DEF TypeOK
<1>9. since' \in [Conns -> Nat]
  BY <1>1, <1>2 DEF TypeOK
<1>10. Accepted'
  <2> SUFFICES ASSUME NEW b \in Conns
               PROVE  /\ b <= accepted' => device'[b] \in Devices
                      /\ b > accepted' => ws'[b] = "none" /\ subscribed'[b] = None
    BY DEF Accepted
  <2>1. b \in Nat
    BY <1>1
  <2>2. CASE b = c
    BY <1>1, <1>2, <1>6, <2>2 DEF c
  <2>3. CASE b # c
    <3>1. /\ b <= accepted' => b <= accepted
          /\ b > accepted' => b > accepted /\ b # old
      BY <1>1, <1>2, <2>1, <2>3 DEF c, old
    <3> QED BY <1>1, <1>2, <1>6, <2>3, <3>1 DEF Accepted
  <2> QED BY <2>2, <2>3
<1>11. OpenIsFed'
  <2> SUFFICES ASSUME NEW b \in 1..accepted', ws'[b] = "open", b \notin robbed'
               PROVE  /\ clients'[device'[b]] = b
                      /\ \A k \in (since'[b] + 1)..forwarded' :
                            subscribed'[b] \in {None, bus'[k]} => k \in sent'[b]
    BY DEF OpenIsFed
  <2>1. CASE b = c
    BY <1>1, <1>2, <1>3, <1>6, <1>7, <2>1 DEF TypeOK
  <2>2. CASE b # c
    <3>1. b \in 1..accepted /\ b \in Conns
      BY <1>1, <1>2, <2>2 DEF c
    <3>2. b # old /\ ws[b] = "open" /\ device'[b] = device[b] /\ since'[b] = since[b]
      BY <1>6, <2>2, <3>1
    <3>3. /\ clients[device[b]] = b
          /\ \A k \in (since[b] + 1)..forwarded :
                subscribed[b] \in {None, bus[k]} => k \in sent[b]
      BY <1>1, <1>2, <3>1, <3>2 DEF OpenIsFed
    <3>4. device[b] \in Devices /\ device[b] # d
      BY <1>1, <3>1, <3>2, <3>3 DEF Accepted, old
    <3> QED BY <1>2, <1>7, <3>2, <3>3, <3>4
  <2> QED BY <2>1, <2>2
<1>12. Remembers'
  BY <1>1, <1>2 DEF Remembers, Suffix
<1>13. Newest'
  <2> SUFFICES ASSUME NEW e \in Devices, clients'[e] # None,
                      NEW f \in 1..accepted', device'[f] = e
               PROVE  f <= clients'[e]
    BY DEF Newest
  <2>1. CASE e = d
    BY <1>1, <1>2, <1>7, <2>1 DEF c
  <2>2. CASE e # d
    <3>1. f # c /\ f \in 1..accepted /\ device[f] = e
      BY <1>1, <1>2, <1>3, <1>6, <2>2 DEF c
    <3> QED BY <1>1, <1>7, <2>2, <3>1 DEF Newest
  <2> QED BY <2>1, <2>2
<1> QED BY <1>8, <1>9, <1>10, <1>11, <1>12, <1>13 DEF IInv

\* An entry leaves the table: its own connection is no longer open, or it has
\* been robbed.
LEMMA LeavesIInv ==
    ASSUME IInv, NEW c \in 1..accepted,
           Close(c) \/ CheckHeartbeats(c)
    PROVE  IInv'
<1>1. /\ TypeOK /\ since \in [Conns -> Nat]
      /\ Accepted /\ OpenIsFed /\ Remembers /\ Newest
      /\ accepted \in Nat /\ accepted <= MaxConns /\ MaxConns \in Nat
      /\ forwarded \in Nat /\ Len(bus) \in Nat /\ forwarded <= Len(bus)
      /\ Conns \subseteq Nat /\ None \notin Conns
      /\ 1..accepted \subseteq Conns
      /\ \A e \in Devices : clients[e] # None =>
            /\ clients[e] \in 1..accepted /\ device[clients[e]] = e
            /\ ws[clients[e]] = "open"
  BY Facts
<1>2. c \in Conns /\ device[c] \in Devices
  BY <1>1 DEF Accepted
<1>3. /\ \/ ws' = [ws EXCEPT ![c] = "closed"]
         \/ ws' = [ws EXCEPT ![c] = "dead"]
      /\ wire' = [wire EXCEPT ![c] = <<>>]
      /\ sent' = [sent EXCEPT ![c] = {}] \/ sent' = sent
      /\ vanished' \subseteq vanished
      /\ clients' = [clients EXCEPT ![device[c]] = None]
      /\ robbed \subseteq robbed' /\ robbed' \subseteq robbed \cup {clients[device[c]]}
      /\ None \in robbed' => None \in robbed
      /\ clients[device[c]] \in robbed' \cup {c, None}
      /\ UNCHANGED <<accepted, device, subscribed, inbound, bus, forwarded, since,
                     taken>>
  BY DEF Close, CheckHeartbeats, Unregister, conns, feed
<1>4. /\ \A b \in Conns : /\ b # c => ws'[b] = ws[b] /\ sent'[b] = sent[b]
                          /\ ws'[c] \in {"closed", "dead"}
      /\ \A e \in Devices : clients'[e] = IF e = device[c] THEN None ELSE clients[e]
  BY <1>1, <1>2, <1>3 DEF TypeOK
<1>5. TypeOK'
  <2>1. /\ ws' \in [Conns -> {"none", "open", "closing", "dead", "closed"}]
        /\ clients' \in [Devices -> Conns \cup {None}]
    <3>1. ws' \in [Conns -> {"none", "open", "closing", "dead", "closed"}]
      <4>1. ws \in [Conns -> {"none", "open", "closing", "dead", "closed"}]
        BY <1>1 DEF TypeOK
      <4>2. CASE ws' = [ws EXCEPT ![c] = "closed"]
        BY <4>1, <4>2
      <4>3. CASE ws' = [ws EXCEPT ![c] = "dead"]
        BY <4>1, <4>3
      <4> QED BY <1>3, <4>2, <4>3
    <3>2. clients' \in [Devices -> Conns \cup {None}]
      BY <1>1, <1>3 DEF TypeOK
    <3> QED BY <3>1, <3>2
  <2>2. wire' \in [Conns -> Seq(Messages)] /\ sent' \in [Conns -> SUBSET (1..forwarded)]
    <3>1. <<>> \in Seq(Messages) /\ {} \in SUBSET (1..forwarded)
      OBVIOUS
    <3>2. wire' \in [Conns -> Seq(Messages)]
      BY <1>1, <1>3, <3>1 DEF TypeOK
    <3>3. sent' \in [Conns -> SUBSET (1..forwarded)]
      BY <1>1, <1>3, <3>1 DEF TypeOK
    <3> QED BY <3>2, <3>3
  <2>3. robbed' \subseteq 1..accepted
    BY <1>1, <1>2, <1>3 DEF TypeOK
  <2>4. \A e \in Devices : clients'[e] # None =>
            device'[clients'[e]] = e /\ ws'[clients'[e]] = "open"
    BY <1>1, <1>2, <1>3, <1>4
  <2> QED BY <1>1, <1>3, <2>1, <2>2, <2>3, <2>4 DEF TypeOK
<1>6. Accepted'
  BY <1>1, <1>3, <1>4 DEF Accepted
<1>7. OpenIsFed'
  <2> SUFFICES ASSUME NEW b \in 1..accepted, ws'[b] = "open", b \notin robbed'
               PROVE  /\ clients'[device[b]] = b
                      /\ \A k \in (since[b] + 1)..forwarded :
                            subscribed[b] \in {None, bus[k]} => k \in sent'[b]
    BY <1>3 DEF OpenIsFed
  <2>1. b # c /\ b \in Conns /\ b # None /\ ws[b] = "open" /\ b \notin robbed
        /\ sent'[b] = sent[b] /\ device[b] \in Devices
    BY <1>1, <1>2, <1>3, <1>4 DEF Accepted
  <2>2. /\ clients[device[b]] = b
        /\ \A k \in (since[b] + 1)..forwarded :
              subscribed[b] \in {None, bus[k]} => k \in sent[b]
    BY <1>1, <2>1 DEF OpenIsFed
  <2>3. device[b] # device[c]
    BY <1>3, <2>1, <2>2
  <2> QED BY <1>4, <2>1, <2>2, <2>3
<1>8. Remembers'
  <2>1. inbound' = inbound /\ taken' = taken
    BY <1>3
  <2> QED BY <1>1, <2>1 DEF Remembers, Suffix
<1>9. Newest'
  BY <1>1, <1>3, <1>4 DEF Newest
<1> QED BY <1>1, <1>3, <1>5, <1>6, <1>7, <1>8, <1>9 DEF IInv

\* A message is taken by an entry whose set does not hold it, or is dropped.
LEMMA HandleMessageIInv ==
    ASSUME IInv, NEW c \in 1..accepted, HandleMessage(c)
    PROVE  IInv'
<1> DEFINE m == Head(wire[c])
           e == clients[device[c]]
<1>1. /\ TypeOK /\ since \in [Conns -> Nat]
      /\ Accepted /\ OpenIsFed /\ Remembers /\ Newest
      /\ accepted \in Nat /\ accepted <= MaxConns /\ MaxConns \in Nat
      /\ forwarded \in Nat /\ Len(bus) \in Nat /\ forwarded <= Len(bus)
      /\ Conns \subseteq Nat /\ None \notin Conns
      /\ 1..accepted \subseteq Conns
      /\ \A d \in Devices : clients[d] # None =>
            /\ clients[d] \in 1..accepted /\ device[clients[d]] = d
            /\ ws[clients[d]] = "open"
  BY Facts
<1>2. c \in Conns /\ device[c] \in Devices /\ m \in Messages
      /\ Tail(wire[c]) \in Seq(Messages)
  <2>1. c \in Conns /\ device[c] \in Devices
    BY <1>1 DEF Accepted
  <2>2. wire[c] \in Seq(Messages) /\ wire[c] # <<>>
    BY <1>1, <2>1 DEF HandleMessage, TypeOK
  <2> QED BY <2>1, <2>2
<1>3. /\ wire' = [wire EXCEPT ![c] = Tail(wire[c])]
      /\ UNCHANGED <<accepted, device, ws, vanished, clients, bus, forwarded, sent,
                     robbed>>
  BY <1>1, <1>2 DEF HandleMessage, conns, feed, TypeOK
<1>4. wire' \in [Conns -> Seq(Messages)]
  BY <1>1, <1>2, <1>3 DEF TypeOK
<1> HIDE DEF m, e
<1>5. CASE UNCHANGED <<inbound, subscribed, since, taken>>
  <2>1. TypeOK'
    BY <1>1, <1>3, <1>4, <1>5 DEF TypeOK
  <2>2. Accepted' /\ OpenIsFed'
    BY <1>1, <1>3, <1>5 DEF Accepted, OpenIsFed
  <2>3. Remembers' /\ Newest'
    BY <1>1, <1>3, <1>5, KeepsTaken
  <2> QED BY <1>1, <1>5, <2>1, <2>2, <2>3 DEF IInv
<1>6. CASE /\ e # None
           /\ inbound' = [inbound EXCEPT ![e] = Added(@, m)]
           /\ taken' = [taken EXCEPT ![e] = Append(@, m)]
           /\ IF m \in Chats THEN Subscribe(e, SessionOf[m])
                             ELSE UNCHANGED <<subscribed, since>>
  <2>1. e \in 1..accepted /\ e \in Conns /\ ws[e] = "open"
    BY <1>1, <1>2, <1>6 DEF e
  <2>2. SessionOf[m] \in Sessions /\ SessionOf[m] # None
    BY <1>2, MessageAssumption, NoneAssumption
  <2>3. /\ inbound[e] \in Seq(Messages) /\ Len(inbound[e]) <= Capacity
        /\ taken[e] \in Seq(Messages) /\ Suffix(inbound[e], taken[e])
    BY <1>1, <2>1 DEF TypeOK, Remembers
  <2>4. /\ Added(inbound[e], m) \in Seq(Messages)
        /\ Len(Added(inbound[e], m)) <= Capacity
        /\ Suffix(Added(inbound[e], m), Append(taken[e], m))
    BY <1>2, <2>3, AddedSuffix
  <2>5. /\ inbound' \in [Conns -> Seq(Messages)]
        /\ \A b \in Conns : Len(inbound'[b]) <= Capacity
    <3>1. inbound \in [Conns -> Seq(Messages)] /\ \A b \in Conns : Len(inbound[b]) <= Capacity
      BY <1>1 DEF TypeOK
    <3> QED BY <1>6, <2>4, <3>1
  <2>6. Remembers' /\ Newest'
    <3>1. Append(taken[e], m) \in Seq(Messages)
      BY <1>2, <2>3
    <3>2. /\ inbound \in [Conns -> Seq(Messages)] /\ taken \in [Conns -> Seq(Messages)]
          /\ \A b \in Conns : Suffix(inbound[b], taken[b])
      BY <1>1 DEF TypeOK, Remembers
    <3>3. taken' \in [Conns -> Seq(Messages)]
      BY <1>6, <3>1, <3>2
    <3>4. \A b \in Conns : /\ b # e => inbound'[b] = inbound[b] /\ taken'[b] = taken[b]
                           /\ b = e => /\ inbound'[b] = Added(inbound[e], m)
                                       /\ taken'[b] = Append(taken[e], m)
      BY <1>6, <3>2
    <3>5. ASSUME NEW b \in Conns PROVE Suffix(inbound'[b], taken'[b])
      <4>1. CASE b = e
        BY <2>4, <3>4, <4>1
      <4>2. CASE b # e
        BY <3>2, <3>4, <4>2
      <4> QED BY <4>1, <4>2
    <3>6. Newest'
      BY <1>1, <1>3 DEF Newest
    <3> QED BY <3>3, <3>5, <3>6 DEF Remembers, Suffix
  <2>7. /\ subscribed' \in [Conns -> Sessions \cup {None}] /\ since' \in [Conns -> Nat]
        /\ \A b \in Conns :
              b # e => subscribed'[b] = subscribed[b] /\ since'[b] = since[b]
        /\ \/ subscribed'[e] = subscribed[e] /\ since'[e] = since[e]
           \/ /\ subscribed'[e] = SessionOf[m]
              /\ since'[e] = IF subscribed[e] \in {None, SessionOf[m]}
                             THEN since[e] ELSE forwarded
    <3>1. subscribed \in [Conns -> Sessions \cup {None}]
      BY <1>1 DEF TypeOK
    <3>2. CASE m \in Chats
      <4>1. /\ subscribed' = [subscribed EXCEPT ![e] = SessionOf[m]]
            /\ since' = [since EXCEPT ![e] = IF subscribed[e] \in {None, SessionOf[m]}
                                             THEN @ ELSE forwarded]
        BY <1>6, <3>2 DEF Subscribe
      <4>2. subscribed' \in [Conns -> Sessions \cup {None}]
        BY <2>2, <3>1, <4>1
      <4>3. since' \in [Conns -> Nat]
        BY <1>1, <2>1, <4>1
      <4> QED BY <1>1, <2>1, <3>1, <4>1, <4>2, <4>3
    <3>3. CASE m \notin Chats
      BY <1>1, <1>6, <3>1, <3>3
    <3> QED BY <3>2, <3>3
  <2>8. TypeOK'
    BY <1>1, <1>3, <1>4, <2>5, <2>7 DEF TypeOK
  <2>9. Accepted'
    BY <1>1, <1>3, <2>1, <2>7 DEF Accepted
  <2>10. OpenIsFed'
    <3> SUFFICES ASSUME NEW b \in 1..accepted, ws[b] = "open", b \notin robbed
                 PROVE  /\ clients[device[b]] = b
                        /\ \A k \in (since'[b] + 1)..forwarded :
                              subscribed'[b] \in {None, bus[k]} => k \in sent[b]
      BY <1>3 DEF OpenIsFed
    <3>1. /\ clients[device[b]] = b
          /\ \A k \in (since[b] + 1)..forwarded :
                subscribed[b] \in {None, bus[k]} => k \in sent[b]
      BY <1>1 DEF OpenIsFed
    <3>2. CASE subscribed'[b] = subscribed[b] /\ since'[b] = since[b]
      BY <3>1, <3>2
    <3>3. CASE /\ b = e /\ subscribed[e] \in {None, SessionOf[m]}
               /\ subscribed'[e] = SessionOf[m] /\ since'[e] = since[e]
      BY <2>2, <3>1, <3>3
    <3>4. CASE b = e /\ since'[e] = forwarded
      BY <1>1, <3>1, <3>4
    <3> QED BY <1>1, <2>1, <2>7, <3>2, <3>3, <3>4
  <2> QED BY <2>6, <2>7, <2>8, <2>9, <2>10 DEF IInv
<1> QED BY <1>5, <1>6 DEF HandleMessage, m, e

\* The next event is written to every entry that listens.
LEMMA ForwardIInv == ASSUME IInv, Forward PROVE IInv'
<1>1. /\ TypeOK /\ since \in [Conns -> Nat]
      /\ Accepted /\ OpenIsFed /\ Remembers /\ Newest
      /\ accepted \in Nat /\ accepted <= MaxConns /\ MaxConns \in Nat
      /\ forwarded \in Nat /\ Len(bus) \in Nat /\ forwarded <= Len(bus)
      /\ Conns \subseteq Nat /\ None \notin Conns
      /\ 1..accepted \subseteq Conns
      /\ \A e \in Devices : clients[e] # None =>
            /\ clients[e] \in 1..accepted /\ device[clients[e]] = e
            /\ ws[clients[e]] = "open"
  BY Facts
<1>2. /\ forwarded < Len(bus) /\ forwarded' = forwarded + 1
      /\ sent' = [b \in Conns |-> IF Listens(b, bus[forwarded + 1])
                                  THEN sent[b] \cup {forwarded + 1} ELSE sent[b]]
      /\ UNCHANGED <<accepted, device, ws, vanished, clients, subscribed, inbound,
                     wire, bus, since, robbed, taken>>
  BY DEF Forward, conns
<1>3. TypeOK'
  <2>1. forwarded' \in 0..Len(bus)
    BY <1>1, <1>2
  <2>2. sent' \in [Conns -> SUBSET (1..forwarded')]
    BY <1>1, <1>2 DEF TypeOK
  <2> QED BY <1>1, <1>2, <2>1, <2>2 DEF TypeOK
<1>4. Accepted'
  BY <1>1, <1>2 DEF Accepted
<1>5. OpenIsFed'
  <2> SUFFICES ASSUME NEW b \in 1..accepted, ws[b] = "open", b \notin robbed
               PROVE  /\ clients[device[b]] = b
                      /\ \A k \in (since[b] + 1)..forwarded' :
                            subscribed[b] \in {None, bus[k]} => k \in sent'[b]
    BY <1>2 DEF OpenIsFed
  <2>1. /\ clients[device[b]] = b
        /\ \A k \in (since[b] + 1)..forwarded :
              subscribed[b] \in {None, bus[k]} => k \in sent[b]
    BY <1>1 DEF OpenIsFed
  <2>2. b \in Conns /\ since[b] \in Nat /\ b \in Nat /\ b <= accepted
    BY <1>1
  <2>3. sent[b] \subseteq sent'[b]
    BY <1>2, <2>2
  <2>4. subscribed[b] \in {None, bus[forwarded + 1]} => forwarded + 1 \in sent'[b]
    BY <1>2, <2>1, <2>2 DEF Listens
  <2> QED BY <1>1, <1>2, <2>1, <2>2, <2>3, <2>4
<1>6. Remembers' /\ Newest'
  BY <1>1, <1>2, KeepsTaken
<1> QED BY <1>1, <1>2, <1>3, <1>4, <1>5, <1>6 DEF IInv

\* The peers and the publishers.
LEMMA OutsideIInv ==
    ASSUME IInv,
           \/ \E c \in 1..accepted : Vanish(c) \/ \E m \in Messages : Send(c, m)
           \/ \E s \in Sessions : Publish(s)
    PROVE  IInv'
<1>1. /\ TypeOK /\ since \in [Conns -> Nat]
      /\ Accepted /\ OpenIsFed /\ Remembers /\ Newest
      /\ accepted \in Nat /\ accepted <= MaxConns /\ MaxConns \in Nat
      /\ forwarded \in Nat /\ Len(bus) \in Nat /\ forwarded <= Len(bus)
      /\ Conns \subseteq Nat /\ None \notin Conns
      /\ 1..accepted \subseteq Conns
      /\ \A e \in Devices : clients[e] # None =>
            /\ clients[e] \in 1..accepted /\ device[clients[e]] = e
            /\ ws[clients[e]] = "open"
  BY Facts
<1>2. CASE \E c \in 1..accepted : Vanish(c) \/ \E m \in Messages : Send(c, m)
  <2>1. /\ UNCHANGED <<accepted, device, ws, clients, subscribed, inbound, bus,
                       forwarded, sent, since, robbed, taken>>
        /\ vanished' \subseteq 1..accepted
        /\ wire' \in [Conns -> Seq(Messages)]
    <3>1. CASE \E c \in 1..accepted : Vanish(c)
      BY <1>1, <3>1 DEF Vanish, conns, feed, TypeOK
    <3>2. CASE \E c \in 1..accepted, m \in Messages : Send(c, m)
      <4>1. PICK c \in 1..accepted, m \in Messages :
                    /\ wire' = [wire EXCEPT ![c] = Append(@, m)]
                    /\ UNCHANGED <<conns, ws, vanished, clients, subscribed,
                                   inbound, feed, since, robbed, taken>>
        BY <3>2 DEF Send
      <4>2. c \in Conns /\ Append(wire[c], m) \in Seq(Messages)
        BY <1>1 DEF TypeOK
      <4>3. wire' \in [Conns -> Seq(Messages)]
        BY <1>1, <4>1, <4>2 DEF TypeOK
      <4> QED BY <1>1, <4>1, <4>3 DEF conns, feed, TypeOK
    <3> QED BY <1>2, <3>1, <3>2
  <2>2. TypeOK'
    BY <1>1, <2>1 DEF TypeOK
  <2>3. Accepted' /\ OpenIsFed'
    BY <1>1, <2>1 DEF Accepted, OpenIsFed
  <2>4. Remembers' /\ Newest'
    BY <1>1, <2>1, KeepsTaken
  <2> QED BY <1>1, <2>1, <2>2, <2>3, <2>4 DEF IInv
<1>3. CASE \E s \in Sessions : Publish(s)
  <2>1. PICK s \in Sessions : bus' = Append(bus, s)
    BY <1>3 DEF Publish
  <2>2. UNCHANGED <<accepted, device, ws, vanished, clients, subscribed, inbound,
                    wire, forwarded, sent, since, robbed, taken>>
    BY <1>3 DEF Publish, conns
  <2>3. /\ bus' \in Seq(Sessions) /\ Len(bus') = Len(bus) + 1
        /\ \A k \in 1..Len(bus) : bus'[k] = bus[k]
    BY <1>1, <2>1 DEF TypeOK
  <2>4. TypeOK'
    <3>1. forwarded \in 0..Len(bus')
      BY <1>1, <2>3
    <3> QED BY <1>1, <2>2, <2>3, <3>1 DEF TypeOK
  <2>5. Accepted'
    BY <1>1, <2>2 DEF Accepted
  <2>6. OpenIsFed'
    <3> SUFFICES ASSUME NEW b \in 1..accepted, ws[b] = "open", b \notin robbed
                 PROVE  /\ clients[device[b]] = b
                        /\ \A k \in (since[b] + 1)..forwarded :
                              subscribed[b] \in {None, bus'[k]} => k \in sent[b]
      BY <2>2 DEF OpenIsFed
    <3>1. /\ clients[device[b]] = b
          /\ \A k \in (since[b] + 1)..forwarded :
                subscribed[b] \in {None, bus[k]} => k \in sent[b]
      BY <1>1 DEF OpenIsFed
    <3>2. since[b] \in Nat
      BY <1>1
    <3>3. \A k \in (since[b] + 1)..forwarded : bus'[k] = bus[k]
      BY <1>1, <2>3, <3>2
    <3> QED BY <3>1, <3>3
  <2>7. Remembers' /\ Newest'
    BY <1>1, <2>2, KeepsTaken
  <2> QED BY <1>1, <2>2, <2>4, <2>5, <2>6, <2>7 DEF IInv
<1> QED BY <1>2, <1>3

LEMMA StepIInv == IInv /\ [Next]_vars => IInv'
<1> SUFFICES ASSUME IInv, [Next]_vars PROVE IInv'
  OBVIOUS
<1>1. ASSUME NEW d \in Devices, Connect(d) PROVE IInv'
  BY <1>1, ConnectIInv
<1>2. ASSUME NEW c \in 1..accepted, Close(c) \/ CheckHeartbeats(c) PROVE IInv'
  BY <1>2, LeavesIInv
<1>3. ASSUME NEW c \in 1..accepted, HandleMessage(c) PROVE IInv'
  BY <1>3, HandleMessageIInv
<1>4. CASE \/ \E c \in 1..accepted : Vanish(c) \/ \E m \in Messages : Send(c, m)
           \/ \E s \in Sessions : Publish(s)
  BY <1>4, OutsideIInv
<1>5. CASE Forward
  BY <1>5, ForwardIInv
<1>6. CASE UNCHANGED vars
  <2>1. TypeOK' /\ since' \in [Conns -> Nat]
    BY <1>6 DEF IInv, TypeOK, vars
  <2>2. Accepted' /\ OpenIsFed'
    BY <1>6 DEF IInv, Accepted, OpenIsFed, vars
  <2>3. Remembers' /\ Newest'
    BY <1>6, KeepsTaken DEF IInv, vars
  <2> QED BY <2>1, <2>2, <2>3 DEF IInv
<1> QED BY <1>1, <1>2, <1>3, <1>4, <1>5, <1>6 DEF Next

LEMMA AlwaysIInv == Spec => []IInv
BY InitIInv, StepIInv, PTL DEF Spec

-----------------------------------------------------------------------------
(* The theorems.                                                           *)

\* Whatever connects, closes and vanishes, an entry of the table is that of an
\* open connection of its device.
THEOREM TypeCorrect == Spec => []TypeOK
<1>1. IInv => TypeOK
  BY DEF IInv
<1> QED BY AlwaysIInv, <1>1, PTL

\* An open connection is in the table and has been sent all that its entry asks
\* for, unless the close of an older connection has taken its entry away.
THEOREM OpenIsFedAlways == Spec => []OpenIsFed
<1>1. IInv => OpenIsFed
  BY DEF IInv
<1> QED BY AlwaysIInv, <1>1, PTL

\* However often a message is sent, and over whichever socket it arrives, it is
\* judged by the newest entry of its device, which lets it through again only after
\* Capacity others.
THEOREM DuplicatesDroppedAlways == Spec => DuplicatesDropped
<1> DEFINE Step == \A e \in Conns : taken'[e] # taken[e] =>
                      /\ \A f \in 1..accepted : device[f] = device[e] => f <= e
                      /\ \A i \in 1..Len(taken[e]) : taken[e][i] = Last(taken'[e]) =>
                            Len(taken[e]) - i >= Capacity
<1>1. IInv /\ [Next]_vars => [Step]_vars
  <2> SUFFICES ASSUME IInv, [Next]_vars, NEW e \in Conns, taken'[e] # taken[e]
               PROVE  /\ \A f \in 1..accepted : device[f] = device[e] => f <= e
                      /\ \A i \in 1..Len(taken[e]) : taken[e][i] = Last(taken'[e]) =>
                            Len(taken[e]) - i >= Capacity
    OBVIOUS
  <2>1. PICK c \in 1..accepted : HandleMessage(c)
    BY DEF Next, vars, Connect, Close, CheckHeartbeats, Vanish, Send, Publish, Forward
  <2> DEFINE m == Head(wire[c])
             b == clients[device[c]]
  <2>2. /\ b # None /\ ~Contains(inbound[b], m)
        /\ taken' = [taken EXCEPT ![b] = Append(@, m)]
    BY <2>1 DEF HandleMessage
  <2>3. /\ taken \in [Conns -> Seq(Messages)]
        /\ device[c] \in Devices /\ b \in Conns /\ device[b] = device[c]
        /\ inbound[b] \in Seq(Messages) /\ Len(inbound[b]) <= Capacity
        /\ Suffix(inbound[b], taken[b]) /\ Newest
    BY <2>2, Facts DEF TypeOK, Accepted, Remembers
  <2>4. m \in Messages
    <3>1. wire[c] \in Seq(Messages) /\ wire[c] # <<>>
      BY <2>1, Facts DEF HandleMessage, TypeOK
    <3> QED BY <3>1
  <2> HIDE DEF m, b
  <2>5. e = b /\ taken'[e] = Append(taken[b], m)
    BY <2>2, <2>3
  <2>6. taken[b] \in Seq(Messages) /\ Last(taken'[e]) = m
    BY <2>3, <2>4, <2>5 DEF Last
  <2>7. \A f \in 1..accepted : device[f] = device[e] => f <= e
    BY <2>2, <2>3, <2>5 DEF Newest, b
  <2>8. \A i \in 1..Len(taken[b]) : taken[b][i] = m => Len(taken[b]) - i >= Capacity
    BY <2>2, <2>3, <2>6, ForgottenIsOld
  <2> QED BY <2>5, <2>6, <2>7, <2>8
<1> QED BY <1>1, AlwaysIInv, PTL DEF Spec, DuplicatesDropped
=============================================================================
