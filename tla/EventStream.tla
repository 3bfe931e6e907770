---------------------------- MODULE EventStream ----------------------------
(***************************************************************************)
(* The event stream of one session: the server's EventBus with its ring    *)
(* buffer and its cached run_result, one /events response, and the SDK's   *)
(* subscribeSSE, which reconnects and resumes from the last sequence       *)
(* number it saw.  An event is its sequence number.                        *)
(***************************************************************************)
EXTENDS ArrayFilter

CONSTANTS
    Capacity,    \* SESSION_BUFFER_CAPACITY
    MaxSeq,      \* bound: events of one incarnation of the server
    MaxTimers,   \* bound: run_results within 30 seconds
    MaxBreaks,   \* bound: how often the stream ends
    MaxEpoch     \* bound: incarnations of the server

ASSUME StreamAssumption == /\ Capacity \in Nat \ {0}
                           /\ MaxSeq \in Nat /\ MaxTimers \in Nat
                           /\ MaxBreaks \in Nat
                           /\ MaxEpoch \in Nat \ {0}

VARIABLES
    epoch,          \* incarnation of the server
    globalSeq,      \* last sequence number given out
    ring,           \* the session's ring buffer, oldest first
    lastRunResult,  \* the cached run_result; 0 when there is none
    timers,         \* pending 30-second timers that clear the cache
    sub,            \* the subscription behind the open response
    wire,           \* messages written and not yet read
    mode,           \* "dialing" or "reading": where connect() is
    retry,          \* reconnectCount > 0
    lastSeqNum,     \* highest sequence number the client has handled
    breaks,         \* how often the stream has ended
    got,            \* history: what the handler was given of this
                    \* incarnation, in order
    evicted,        \* history: events that had left the ring at a resume
    faults,         \* history: what went wrong beside lost connections
    stale           \* history: the client's position when the server died

bus == <<epoch, globalSeq, ring, lastRunResult, timers>>
client == <<mode, retry, lastSeqNum, breaks>>
history == <<got, evicted, faults, stale>>
streamVars == <<bus, sub, wire, client, history>>

Event == 1..MaxSeq
Closed == [stage |-> "closed", from |-> 0, cached |-> FALSE, at |-> 0,
           queue |-> <<>>]

StreamTypeOK ==
    /\ epoch \in 1..MaxEpoch
    /\ globalSeq \in 0..MaxSeq
    /\ ring \in Seq(Event) /\ Len(ring) <= Capacity
    /\ lastRunResult \in 0..globalSeq
    /\ timers \in 0..MaxTimers
    /\ sub \in [stage : {"closed", "hello", "loop"}, from : 0..MaxSeq,
                cached : BOOLEAN, at : 0..MaxSeq, queue : Seq(Event)]
    /\ wire \in Seq([seq : Event, id : BOOLEAN])
    /\ mode \in {"dialing", "reading"} /\ retry \in BOOLEAN
    /\ lastSeqNum \in 0..MaxSeq
    /\ breaks \in 0..MaxBreaks
    /\ got \in Seq([seq : Event, id : BOOLEAN])
    /\ evicted \subseteq Event
    /\ faults \subseteq {"restart", "split", "cleanEnd", "lateCache"}
    /\ stale \in 0..MaxSeq

StreamInit ==
    /\ epoch = 1 /\ globalSeq = 0 /\ ring = <<>>
    /\ lastRunResult = 0 /\ timers = 0
    /\ sub = Closed /\ wire = <<>>
    /\ mode = "dialing" /\ retry = FALSE /\ lastSeqNum = 0 /\ breaks = 0
    /\ got = <<>> /\ evicted = {} /\ faults = {} /\ stale = 0

-----------------------------------------------------------------------------
(* The event bus.                                                          *)

PushToBuffer(buffer, e) ==
    IF Len(buffer) < Capacity THEN Append(buffer, e)
    ELSE Append(SubSeq(buffer, Len(buffer) - Capacity + 2, Len(buffer)), e)

\* The subscriber's handler: it drops what the replay has covered.
Handle(e) ==
    IF sub.stage # "closed" /\ e > sub.from
    THEN [sub EXCEPT !.queue = Append(@, e)] ELSE sub

Publish ==
    /\ globalSeq < MaxSeq
    /\ LET e == globalSeq + 1
       IN  /\ globalSeq' = e
           /\ ring' = PushToBuffer(ring, e)
           /\ sub' = Handle(e)
           /\ \/ timers < MaxTimers
                 /\ lastRunResult' = e /\ timers' = timers + 1
              \/ UNCHANGED <<lastRunResult, timers>>
    /\ UNCHANGED <<epoch, wire, client, history>>

\* Every run_result starts a timer of its own, and each timer deletes
\* whatever the session's cache then holds.
ResultTimer ==
    /\ timers > 0
    /\ timers' = timers - 1
    /\ lastRunResult' = 0
    /\ UNCHANGED <<epoch, globalSeq, ring, sub, wire, client, history>>

\* DELETE /sessions/:id.
ClearSessionBuffer ==
    /\ ring # <<>> \/ lastRunResult # 0
    /\ ring' = <<>> /\ lastRunResult' = 0
    /\ UNCHANGED <<epoch, globalSeq, timers, sub, wire, client, history>>

-----------------------------------------------------------------------------
(* The response to GET /events.                                            *)

\* Bug: the replay starts one event late.
ReplayFrom_OneLate(from) == Kept(ring, {e \in Event : e > from + 1})

ReplayFrom(from) == Kept(ring, {e \in Event : e > from})

\* Bug: the replay is queued although the position was not asked for.
SubscriptionFrom_Always(from) ==
    [stage |-> "hello", from |-> from, cached |-> retry /\ from = 0,
     at |-> globalSeq, queue |-> ReplayFrom(from)]

\* Bug: a client that resumes from a position is sent the cached run_result, too.
SubscriptionFrom_CachedToo(from) ==
    [stage |-> "hello", from |-> from, cached |-> retry, at |-> globalSeq,
     queue |-> IF from > 0 THEN ReplayFrom(from) ELSE <<>>]

\* subscribe: replay and registration in one turn of the event loop.
SubscriptionFrom(from) ==
    [stage |-> "hello", from |-> from, cached |-> retry /\ from = 0,
     at |-> globalSeq, queue |-> IF from > 0 THEN ReplayFrom(from) ELSE <<>>]

\* One pass of connect()'s loop: a reconnecting client names its position.
Subscribe ==
    /\ mode = "dialing"
    /\ LET from == IF retry THEN lastSeqNum ELSE 0
       IN  /\ sub' = SubscriptionFrom(from)
           /\ evicted' = IF from = 0 THEN evicted
                         ELSE evicted \cup ((from + 1)..globalSeq
                                            \ Elements(ring))
    /\ wire' = <<>>
    /\ mode' = "reading" /\ retry' = FALSE
    /\ UNCHANGED <<bus, lastSeqNum, breaks, got, faults, stale>>

\* fetch fails once a first connection has been made: the next pass counts as
\* a reconnection.
DialFails ==
    /\ mode = "dialing" /\ breaks > 0 /\ ~retry
    /\ retry' = TRUE
    /\ UNCHANGED <<bus, sub, wire, mode, lastSeqNum, breaks, history>>

\* 'connected' has been written; a client that reconnects without a position
\* gets the cached run_result as it is now, without an id.
Hello ==
    /\ sub.stage = "hello"
    /\ sub' = [sub EXCEPT !.stage = "loop"]
    /\ IF sub.cached /\ lastRunResult # 0
       THEN /\ wire' = Append(wire, [seq |-> lastRunResult, id |-> FALSE])
            /\ faults' = IF lastRunResult > sub.at
                         THEN faults \cup {"lateCache"} ELSE faults
       ELSE UNCHANGED <<wire, faults>>
    /\ UNCHANGED <<bus, client, got, evicted, stale>>

\* Bug: the loop writes what was queued at the start and is never woken.
WriteNext_OnlyBacklog ==
    /\ sub.stage = "loop" /\ sub.queue # <<>> /\ Head(sub.queue) <= sub.at
    /\ wire' = Append(wire, [seq |-> Head(sub.queue), id |-> TRUE])
    /\ sub' = [sub EXCEPT !.queue = Tail(@)]
    /\ UNCHANGED <<bus, client, history>>

WriteNext ==
    /\ sub.stage = "loop" /\ sub.queue # <<>>
    /\ wire' = Append(wire, [seq |-> Head(sub.queue), id |-> TRUE])
    /\ sub' = [sub EXCEPT !.queue = Tail(@)]
    /\ UNCHANGED <<bus, client, history>>

-----------------------------------------------------------------------------
(* The client's read loop.                                                 *)

\* A whole message within one chunk.
Read ==
    /\ mode = "reading" /\ wire # <<>>
    /\ LET m == Head(wire)
       IN  /\ got' = Append(got, m)
           /\ lastSeqNum' = IF m.seq > lastSeqNum THEN m.seq ELSE lastSeqNum
    /\ wire' = Tail(wire)
    /\ UNCHANGED <<bus, sub, mode, retry, breaks, evicted, faults, stale>>

\* A message whose lines arrive in two chunks: the fields parsed so far are
\* declared per chunk, so the message is forgotten.
ReadSplit ==
    /\ mode = "reading" /\ wire # <<>>
    /\ wire' = Tail(wire)
    /\ faults' = faults \cup {"split"}
    /\ UNCHANGED <<bus, sub, client, got, evicted, stale>>

EndStream ==
    /\ mode = "reading" /\ breaks < MaxBreaks
    /\ mode' = "dialing" /\ breaks' = breaks + 1
    /\ sub' = Closed /\ wire' = <<>>
    /\ UNCHANGED <<bus, lastSeqNum, got, evicted, stale>>

\* read() throws, or no data for SSE_HEARTBEAT_TIMEOUT_MS: what is in flight
\* is gone, and the next pass counts as a reconnection.
StreamLost ==
    /\ EndStream
    /\ retry' = TRUE
    /\ UNCHANGED faults

\* read() reports the end of the response: reconnectCount is still 0.
CleanEnd ==
    /\ wire = <<>>
    /\ EndStream
    /\ faults' = faults \cup {"cleanEnd"}
    /\ UNCHANGED retry

\* The server process dies and a new one takes its place: the bus and its
\* numbering start afresh, the client keeps its position.
Restart ==
    /\ epoch < MaxEpoch
    /\ epoch' = epoch + 1
    /\ globalSeq' = 0 /\ ring' = <<>> /\ lastRunResult' = 0 /\ timers' = 0
    /\ sub' = Closed /\ wire' = <<>>
    /\ mode' = "dialing" /\ retry' = (retry \/ mode = "reading")
    /\ got' = <<>> /\ evicted' = {} /\ faults' = faults \cup {"restart"}
    /\ stale' = lastSeqNum
    /\ UNCHANGED <<lastSeqNum, breaks>>

StreamNext ==
    \/ Publish \/ ResultTimer \/ ClearSessionBuffer
    \/ Subscribe \/ DialFails \/ Hello \/ WriteNext
    \/ Read \/ ReadSplit \/ StreamLost \/ CleanEnd \/ Restart

StreamSpec == StreamInit /\ [][StreamNext]_streamVars

\* The server answers and writes what it has queued, and a client that has a
\* connection reads it; connections are lost at most MaxBreaks times.
StreamFairSpec ==
    /\ StreamSpec
    /\ WF_streamVars(Subscribe) /\ WF_streamVars(Hello) /\ WF_streamVars(WriteNext)
    /\ WF_streamVars(Read \/ ReadSplit)

-----------------------------------------------------------------------------
(* Properties.                                                             *)

Delivered == {got[i].seq : i \in 1..Len(got)}
OnTheWay == Elements(sub.queue) \cup {wire[i].seq : i \in 1..Len(wire)}

\* What a connected client may expect: the events published since this
\* connection was made, and, because it resumes, those after the first it was
\* given with an id.  A client that loses a connection before it has read any
\* event with an id has no position to resume from (lastSeqNum is 0, and
\* subscribe replays for fromSeq > 0 only): what was published before it was
\* connected again is not owed, although the ring may hold it.
Streamed == {got[i].seq : i \in {j \in 1..Len(got) : got[j].id}}
Owed == {s \in 1..globalSeq : s > sub.at \/ \E d \in Streamed : d < s}
Missing == Owed \ (Delivered \cup OnTheWay \cup evicted)

\* The events of the stream proper (those with an id) are handed over in the
\* order of their numbers and never twice, whatever is lost, cut or, by an
\* earlier incarnation, numbered alike; the cached run_result is outside this
\* order.
DeliveredInOrder ==
    \A i, j \in 1..Len(got) :
        i < j /\ got[i].id /\ got[j].id => got[i].seq < got[j].seq

\* From the first event with an id that it has read, and however often the
\* connection is lost after that, the client misses nothing that the ring still
\* held when it came back (fromSeq, lastSeqNum).  A connection lost before
\* anything with an id was read is not covered: it is made again without a
\* position and nothing is replayed.  When the server has died, and numbers its
\* events afresh, the loss ends at the position the client had then: what is
\* numbered above it is delivered.
StreamComplete ==
    faults \subseteq {"restart"} /\ mode = "reading" => Missing \subseteq 1..stale

\* And when the connections stop being lost, it is given all that is Owed: what
\* follows the first event it has read with an id, and what is published over
\* its last connection.
CatchesUp ==
    <>[](faults \subseteq {"restart"} =>
            mode = "reading" /\ Owed \subseteq Delivered \cup evicted \cup 1..stale)
=============================================================================
