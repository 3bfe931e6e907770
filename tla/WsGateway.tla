----------------------------- MODULE WsGateway -----------------------------
(***************************************************************************)
(* The WebSocket gateway (core/src/server/wsGateway.ts), through which     *)
(* phones talk to a session.  A device is known by its id; the table       *)
(* `clients' has one entry per device, made by its last connection.  The   *)
(* connections are numbered in the order in which they are accepted, and   *)
(* the entry of a connection (ConnectedClient) is written with its number. *)
(*                                                                         *)
(* The peers and the socket library are outside this code: a peer sends    *)
(* its messages again when it likes, vanishes without a word, or connects  *)
(* a second time while its old socket is still open.                       *)
(***************************************************************************)
EXTENDS Naturals, Sequences, FiniteSets, SequencesExt

CONSTANTS
    Devices,    \* ids that phones connect with
    Sessions,   \* sessions of the server
    Messages,   \* messages of the phones, told apart by their uuid
    Chats,      \* those that start a chat; the others change nothing here
    DeviceOf,   \* DeviceOf[m]: the phone that sends m
    SessionOf,  \* SessionOf[m]: the session m is for
    Capacity,   \* of a BoundedUUIDSet
    MaxConns,   \* bound: connections accepted
    MaxEvents,  \* bound: events published
    MaxSends,   \* bound: messages taken and on their way
    None

ASSUME MessageAssumption ==
    /\ DeviceOf \in [Messages -> Devices]
    /\ SessionOf \in [Messages -> Sessions]
    /\ Chats \subseteq Messages

ASSUME BoundsAssumption ==
    /\ MaxConns \in Nat /\ MaxEvents \in Nat /\ MaxSends \in Nat
    /\ Capacity \in Nat \ {0}

ASSUME NoneAssumption == None \notin Nat \cup Sessions \cup Devices

Conns == 1..MaxConns

VARIABLES
    accepted,    \* number of connections accepted so far
    device,      \* the device id a connection came with
    ws,          \* readyState of a socket; "dead" after terminate()
    vanished,    \* connections whose peer is gone without closing
    clients,     \* the table: the connection a device's entry was made by
    subscribed,  \* ConnectedClient.subscribedSession
    inbound,     \* ConnectedClient.inboundUUIDs, oldest first
    wire,        \* messages a peer has sent and the server has not read
    bus,         \* the events published, as the sessions they are about
    forwarded,   \* how many of them forwardEventToClients has seen
    sent,        \* the events written to a socket that has not closed
    since,       \* history: events forwarded before the entry got its session
    robbed,      \* history: entries deleted by another connection's close
    taken        \* history: the messages let through under an entry, in order

vars == <<accepted, device, ws, vanished, clients, subscribed, inbound,
          wire, bus, forwarded, sent, since, robbed, taken>>

conns == <<accepted, device>>
feed  == <<bus, forwarded, sent>>

Init ==
    /\ accepted = 0
    /\ device = [c \in Conns |-> None]
    /\ ws = [c \in Conns |-> "none"]
    /\ vanished = {}
    /\ clients = [d \in Devices |-> None]
    /\ subscribed = [c \in Conns |-> None]
    /\ inbound = [c \in Conns |-> <<>>]
    /\ wire = [c \in Conns |-> <<>>]
    /\ bus = <<>>
    /\ forwarded = 0
    /\ sent = [c \in Conns |-> {}]
    /\ since = [c \in Conns |-> 0]
    /\ robbed = {}
    /\ taken = [c \in Conns |-> <<>>]

-----------------------------------------------------------------------------
(* Connections *)

\* A new connection closes the socket of the entry it replaces; closing a
\* socket that is closing or gone does nothing.
Replaced(c) ==
    IF c # None /\ ws[c] = "open" THEN [ws EXCEPT ![c] = "closing"] ELSE ws

\* handleConnection.  The position the peer names is not used: the replay asks
\* for the session of the entry, which a new entry does not have.
Connect(d) ==
    LET c   == accepted + 1
        old == clients[d]
    IN  /\ accepted < MaxConns
        /\ accepted' = c
        /\ device' = [device EXCEPT ![c] = d]
        /\ ws' = [Replaced(old) EXCEPT ![c] = "open"]
        /\ clients' = [clients EXCEPT ![d] = c]
        /\ since' = [since EXCEPT ![c] = forwarded]
        /\ UNCHANGED <<vanished, subscribed, inbound, wire, feed, robbed, taken>>

\* The close handler deletes the entry of the device, whoever made it.
Unregister(c) ==
    LET d == device[c]
    IN  /\ clients' = [clients EXCEPT ![d] = None]
        /\ robbed' = robbed \cup ({clients[d]} \ {c, None})

\* The socket is closed: by its peer, by an error, or at last after close() or
\* terminate(), and ws.on('close') runs.
Close(c) ==
    /\ ws[c] \in {"open", "closing", "dead"}
    /\ ws' = [ws EXCEPT ![c] = "closed"]
    /\ wire' = [wire EXCEPT ![c] = <<>>]
    /\ sent' = [sent EXCEPT ![c] = {}]
    /\ vanished' = vanished \ {c}
    /\ Unregister(c)
    /\ UNCHANGED <<conns, subscribed, inbound, bus, forwarded, since, taken>>

\* The peer of an open socket is gone: no message, no pong, no close frame.
Vanish(c) ==
    /\ ws[c] = "open"
    /\ c \notin vanished
    /\ vanished' = vanished \cup {c}
    /\ UNCHANGED <<conns, ws, clients, subscribed, inbound, wire, feed, since,
                   robbed, taken>>

\* checkHeartbeats finds the entry of a peer that has not answered for 90
\* seconds.  It walks the table, so it sees entries only.
CheckHeartbeats(c) ==
    /\ c \in vanished
    /\ clients[device[c]] = c
    /\ ws' = [ws EXCEPT ![c] = "dead"]
    /\ wire' = [wire EXCEPT ![c] = <<>>]
    /\ clients' = [clients EXCEPT ![device[c]] = None]
    /\ UNCHANGED <<conns, vanished, subscribed, inbound, feed, since, robbed, taken>>

-----------------------------------------------------------------------------
(* Messages *)

\* How many messages have been taken or are on their way.
Sending == FoldFunction(+, 0, [c \in Conns |-> Len(taken[c]) + Len(wire[c])])

\* A peer sends a message, for the first time or once more, on any socket that
\* it has not seen closing.
Send(c, m) ==
    /\ device[c] = DeviceOf[m]
    /\ ws[c] = "open" /\ c \notin vanished
    /\ ~Contains(wire[c], m)
    /\ Sending < MaxSends
    /\ wire' = [wire EXCEPT ![c] = Append(@, m)]
    /\ UNCHANGED <<conns, ws, vanished, clients, subscribed, inbound, feed, since,
                   robbed, taken>>

\* Bug: a full set is emptied.
Added_Clears(uuids, m) ==
    IF Len(uuids) < Capacity THEN Append(uuids, m) ELSE <<m>>

\* BoundedUUIDSet.add of a uuid that is not in the set: the oldest makes room.
Added(uuids, m) ==
    IF Len(uuids) < Capacity THEN Append(uuids, m) ELSE Append(Tail(uuids), m)

\* A chat subscribes the entry to its session.
Subscribe(e, s) ==
    /\ subscribed' = [subscribed EXCEPT ![e] = s]
    /\ since' = [since EXCEPT ![e] = IF subscribed[e] \in {None, s}
                                     THEN @ ELSE forwarded]

\* handleClientMessage.  The entry is looked up by device: it need not be that
\* of the socket that brought the message.  A closing socket still delivers what
\* its peer had sent.  What the entry's set holds is dropped.
HandleMessage(c) ==
    LET m == Head(wire[c])
        e == clients[device[c]]
    IN  /\ ws[c] \in {"open", "closing"}
        /\ wire[c] # <<>>
        /\ wire' = [wire EXCEPT ![c] = Tail(@)]
        /\ IF e # None /\ ~Contains(inbound[e], m)
           THEN /\ inbound' = [inbound EXCEPT ![e] = Added(@, m)]
                /\ taken' = [taken EXCEPT ![e] = Append(@, m)]
                /\ IF m \in Chats THEN Subscribe(e, SessionOf[m])
                                  ELSE UNCHANGED <<subscribed, since>>
           ELSE UNCHANGED <<inbound, subscribed, since, taken>>
        /\ UNCHANGED <<conns, ws, vanished, clients, feed, robbed>>

-----------------------------------------------------------------------------
(* Events *)

Publish(s) ==
    /\ Len(bus) < MaxEvents
    /\ bus' = Append(bus, s)
    /\ UNCHANGED <<conns, ws, vanished, clients, subscribed, inbound, wire,
                   forwarded, sent, since, robbed, taken>>

\* Bug: an entry gets events only once it has a session.
Listens_Subscribed(c, s) ==
    c <= accepted /\ clients[device[c]] = c /\ ws[c] = "open" /\ subscribed[c] = s

\* An entry gets the events of its session, and all events until it has one.
Listens(c, s) ==
    /\ c <= accepted
    /\ clients[device[c]] = c
    /\ ws[c] = "open"
    /\ subscribed[c] \in {None, s}

\* forwardEventToClients, for the next event of the gateway's subscription.
Forward ==
    /\ forwarded < Len(bus)
    /\ forwarded' = forwarded + 1
    /\ sent' = [c \in Conns |-> IF Listens(c, bus[forwarded + 1])
                                THEN sent[c] \cup {forwarded + 1} ELSE sent[c]]
    /\ UNCHANGED <<conns, ws, vanished, clients, subscribed, inbound, wire, bus,
                   since, robbed, taken>>

-----------------------------------------------------------------------------
Next ==
    \/ \E d \in Devices : Connect(d)
    \/ \E c \in 1..accepted : Close(c) \/ Vanish(c) \/ CheckHeartbeats(c) \/ HandleMessage(c)
    \/ \E c \in 1..accepted, m \in Messages : Send(c, m)
    \/ \E s \in Sessions : Publish(s)
    \/ Forward

Spec == Init /\ [][Next]_vars

-----------------------------------------------------------------------------
(* Properties *)

TypeOK ==
    /\ accepted \in 0..MaxConns
    /\ device \in [Conns -> Devices \cup {None}]
    /\ ws \in [Conns -> {"none", "open", "closing", "dead", "closed"}]
    /\ vanished \subseteq 1..accepted
    /\ clients \in [Devices -> Conns \cup {None}]
    /\ \A d \in Devices : clients[d] # None =>
          device[clients[d]] = d /\ ws[clients[d]] = "open"
    /\ subscribed \in [Conns -> Sessions \cup {None}]
    /\ inbound \in [Conns -> Seq(Messages)]
    /\ \A c \in Conns : Len(inbound[c]) <= Capacity
    /\ wire \in [Conns -> Seq(Messages)]
    /\ bus \in Seq(Sessions)
    /\ forwarded \in 0..Len(bus)
    /\ sent \in [Conns -> SUBSET (1..forwarded)]
    /\ robbed \subseteq 1..accepted

\* An open connection hears of everything that happens in the session it chats
\* in, of everything at all before its first chat, and only the close of an
\* older connection of its device can end that: no other step takes its entry
\* from the table, or leaves an older open connection beside it.
OpenIsFed ==
    \A c \in 1..accepted :
        ws[c] = "open" /\ c \notin robbed =>
            /\ clients[device[c]] = c
            /\ \A k \in (since[c] + 1)..forwarded :
                  subscribed[c] \in {None, bus[k]} => k \in sent[c]

\* A message that is delivered again, on its own or an older socket of its
\* device, has an effect again only when the device has made a new connection, or
\* when its entry has taken Capacity messages since; and what an old socket still
\* delivers is judged by the device's newest entry.
DuplicatesDropped ==
    [][\A e \in Conns : taken'[e] # taken[e] =>
          /\ \A f \in 1..accepted : device[f] = device[e] => f <= e
          /\ \A i \in 1..Len(taken[e]) : taken[e][i] = Last(taken'[e]) =>
                Len(taken[e]) - i >= Capacity]_vars
=============================================================================
