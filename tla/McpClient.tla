----------------------------- MODULE McpClient -----------------------------
(***************************************************************************)
(* The connections of MCPClientManager to one MCP server: tool calls and   *)
(* the user connect on demand and share one attempt; a call whose session  *)
(* has expired disconnects and tries once more; connections close late,    *)
(* and their close handlers change the shared tables when they do.         *)
(***************************************************************************)
EXTENDS Integers, FiniteSets

CONSTANTS
    Calls,          \* calls of the server's tools
    User,           \* connect() from the settings page, or the autoConnect
    Conns,          \* the connections ever made, in this order: a bound
    None,           \* no connection, and no cached list
    Static,         \* the tool list kept in the server's configuration
    MaxErrors,      \* MAX_ERRORS_BEFORE_RECONNECT
    MaxRetries      \* MAX_SESSION_RETRIES

Callers == Calls \cup {User}

ASSUME McpAssumption ==
    /\ User \notin Calls
    /\ Conns \subseteq Nat
    /\ None \notin Conns /\ Static \notin Conns /\ None # Static
    /\ MaxErrors \in Nat \ {0} /\ MaxRetries \in Nat

VARIABLES
    conn,           \* conn[k]: the transport of connection k
    entry,          \* connections.get(server.id)
    connecting,     \* connecting.get(server.id)
    coolingDown,    \* Date.now() < nextAttemptAt
    errors,         \* consecutiveErrors
    toolsCache,     \* whose tools getTools returns: None when it must look
    pc,             \* pc[c]: where the caller is
    on,             \* on[c]: the connection the caller has, or waits for
    retries,        \* retries[c]
    sent            \* history: the connections the request was sent over

tables == <<entry, connecting, coolingDown, errors, toolsCache>>
callers == <<pc, on, retries, sent>>
vars == <<conn, tables, callers>>

\* "closing": closed by this side, its process still running; "abandoned": an
\* attempt that has failed and is being closed.
TypeOK ==
    /\ conn \in [Conns -> {"unused", "opening", "abandoned", "open",
                           "closing", "gone"}]
    /\ entry \in Conns \cup {None}
    /\ connecting \in Conns \cup {None}
    /\ coolingDown \in BOOLEAN
    /\ errors \in 0..MaxErrors
    /\ toolsCache \in Conns \cup {None, Static}
    /\ pc \in [Callers -> {"ready", "connecting", "calling", "disconnecting",
                           "givingUp", "ended"}]
    /\ on \in [Callers -> Conns \cup {None}]
    /\ retries \in [Callers -> 0..MaxRetries]
    /\ sent \in [Callers -> SUBSET Conns]

Init ==
    /\ conn = [k \in Conns |-> "unused"]
    /\ entry = None /\ connecting = None
    /\ coolingDown = FALSE /\ errors = 0
    /\ toolsCache = None
    /\ pc = [c \in Callers |-> "ready"]
    /\ on = [c \in Callers |-> None]
    /\ retries = [c \in Callers |-> 0]
    /\ sent = [c \in Callers |-> {}]

-----------------------------------------------------------------------------
(* Shared steps.                                                           *)

\* The callers of S have connection k: a tool call sends its request over it,
\* connect() returns and drops the cached list.
Proceed(S, k) ==
    /\ pc' = [c \in Callers |-> IF c \notin S THEN pc[c]
                                ELSE IF c = User THEN "ended" ELSE "calling"]
    /\ on' = [c \in Callers |-> IF c \notin S THEN on[c]
                                ELSE IF c = User THEN None ELSE k]
    /\ sent' = [c \in Callers |-> IF c \in S \ {User}
                                  THEN sent[c] \cup {k} ELSE sent[c]]
    /\ toolsCache' = IF User \in S THEN None ELSE toolsCache
    /\ UNCHANGED retries

\* The callers of S return or throw, and their locals are gone.
Settle(S) ==
    /\ pc' = [c \in Callers |-> IF c \in S THEN "ended" ELSE pc[c]]
    /\ on' = [c \in Callers |-> IF c \in S THEN None ELSE on[c]]
    /\ retries' = [c \in Callers |-> IF c \in S THEN 0 ELSE retries[c]]
    /\ sent' = [c \in Callers |-> IF c \in S THEN {} ELSE sent[c]]

\* disconnect(server.id), up to its await: whatever connection is in the table.
DropEntry ==
    /\ entry' = None
    /\ toolsCache' = IF entry = None THEN toolsCache ELSE None
    /\ conn' = IF entry = None THEN conn ELSE [conn EXCEPT ![entry] = "closing"]

\* recordError: what the counter becomes.
Counted(terminal) ==
    IF ~terminal THEN 0 ELSE IF errors < MaxErrors THEN errors + 1 ELSE errors

-----------------------------------------------------------------------------
(* ensureConnected.                                                        *)

\* There is a connection.
UseEntry(c) ==
    /\ pc[c] = "ready"
    /\ entry # None
    /\ Proceed({c}, entry)
    /\ UNCHANGED <<conn, entry, connecting, coolingDown, errors>>

Await(c, k) ==
    /\ pc' = [pc EXCEPT ![c] = "connecting"]
    /\ on' = [on EXCEPT ![c] = k]
    /\ UNCHANGED <<retries, sent>>

\* There is an attempt under way: its promise is shared.
JoinAttempt(c) ==
    /\ pc[c] = "ready"
    /\ entry = None /\ connecting # None
    /\ Await(c, connecting)
    /\ UNCHANGED <<conn, tables>>

\* createConnection makes a new transport and client.
Fresh(k) == conn[k] = "unused" /\ \A j \in Conns : j < k => conn[j] # "unused"

\* Bug: the attempt is not looked for.
BeginAttempt_Always(c) ==
    /\ pc[c] = "ready"
    /\ entry = None /\ ~coolingDown
    /\ \E k \in Conns :
        /\ Fresh(k)
        /\ conn' = [conn EXCEPT ![k] = "opening"]
        /\ connecting' = k
        /\ Await(c, k)
    /\ UNCHANGED <<entry, coolingDown, errors, toolsCache>>

BeginAttempt(c) ==
    /\ pc[c] = "ready"
    /\ entry = None /\ connecting = None /\ ~coolingDown
    /\ \E k \in Conns :
        /\ Fresh(k)
        /\ conn' = [conn EXCEPT ![k] = "opening"]
        /\ connecting' = k
        /\ Await(c, k)
    /\ UNCHANGED <<entry, coolingDown, errors, toolsCache>>

\* The last attempt failed a moment ago.
RefuseWhileCooling(c) ==
    /\ pc[c] = "ready"
    /\ entry = None /\ connecting = None /\ coolingDown
    /\ Settle({c})
    /\ UNCHANGED <<conn, tables>>

Waiters(k) == {c \in Callers : pc[c] = "connecting" /\ on[c] = k}

\* Connected and its tools listed: the close handler is installed, the entry
\* made, and everyone who waited goes on.
Opened(k) ==
    /\ conn[k] = "opening"
    /\ conn' = [conn EXCEPT ![k] = "open"]
    /\ entry' = k /\ connecting' = None
    /\ coolingDown' = FALSE /\ errors' = 0
    /\ Proceed(Waiters(k), k)

\* connect or tools/list fails, times out, or the server dies: close() begins.
OpenFails(k) ==
    /\ conn[k] = "opening"
    /\ conn' = [conn EXCEPT ![k] = "abandoned"]
    /\ UNCHANGED <<tables, callers>>

\* Bug: those who joined the attempt are not told.
Rejected_FirstOnly(k, terminal) ==
    /\ errors' = Counted(terminal)
    /\ connecting' = None /\ coolingDown' = TRUE
    /\ \E c \in Waiters(k) : Settle({c})

\* The attempt's promise is rejected.
Rejected(k, terminal) ==
    /\ errors' = Counted(terminal)
    /\ connecting' = None /\ coolingDown' = TRUE
    /\ Settle(Waiters(k))

\* close() has returned, at the latest after the SDK's timeouts.  No handler
\* is set yet, so it does not matter here when the process ends.
GivesUp(k) ==
    /\ connecting = k /\ conn[k] = "abandoned"
    /\ conn' = [conn EXCEPT ![k] = "gone"]
    /\ \E terminal \in BOOLEAN : Rejected(k, terminal)
    /\ UNCHANGED <<entry, toolsCache>>

\* nextAttemptAt passes.
CooledDown ==
    /\ coolingDown
    /\ coolingDown' = FALSE
    /\ UNCHANGED <<conn, entry, connecting, errors, toolsCache, callers>>

-----------------------------------------------------------------------------
(* The end of a connection.                                                *)

\* The SDK rejects what is pending on k with "Connection closed", which the
\* call takes for an expired session: the disconnect finds no entry, and the
\* call tries again unless it already has.
RejectPending(k) ==
    LET pending == {c \in Calls : pc[c] = "calling" /\ on[c] = k}
        again == {c \in pending : retries[c] < MaxRetries}
        last == pending \ again
    IN  /\ pc' = [c \in Callers |-> IF c \in again THEN "ready" ELSE
                                    IF c \in last THEN "ended" ELSE pc[c]]
        /\ on' = [c \in Callers |-> IF c \in last THEN None ELSE on[c]]
        /\ retries' = [c \in Callers |-> IF c \in again THEN retries[c] + 1 ELSE
                                         IF c \in last THEN 0 ELSE retries[c]]
        /\ sent' = [c \in Callers |-> IF c \in last THEN {} ELSE sent[c]]

\* client.onclose, set for k: it removes the server's entry, whichever
\* connection that is by now; "transport closed" is not a terminal error.
OnClose(k) ==
    /\ entry' = None
    /\ toolsCache' = None
    /\ errors' = 0
    /\ RejectPending(k)
    /\ UNCHANGED <<connecting, coolingDown>>

\* The server ends, or the process of a closed connection has ended.
TransportCloses(k) ==
    /\ conn[k] \in {"open", "closing"}
    /\ conn' = [conn EXCEPT ![k] = "gone"]
    /\ OnClose(k)

\* client.onerror.
TransportError(k) ==
    /\ conn[k] \in {"open", "closing"}
    /\ \E terminal \in BOOLEAN : errors' = Counted(terminal)
    /\ UNCHANGED <<conn, entry, connecting, coolingDown, toolsCache, callers>>

-----------------------------------------------------------------------------
(* A tool call with its request sent.                                      *)

Answered(c) ==
    /\ pc[c] = "calling" /\ conn[on[c]] \in {"open", "closing"}
    /\ errors' = 0
    /\ Settle({c})
    /\ UNCHANGED <<conn, entry, connecting, coolingDown, toolsCache>>

\* Bug: the call tries again over the connection it has.
SessionExpired_NoDisconnect(c) ==
    /\ pc[c] = "calling" /\ conn[on[c]] \in {"open", "closing"}
    /\ retries[c] < MaxRetries
    /\ retries' = [retries EXCEPT ![c] = @ + 1]
    /\ pc' = [pc EXCEPT ![c] = "ready"]
    /\ UNCHANGED <<conn, tables, on, sent>>

\* The server answers 404 or -32001: disconnect the server and try again.
SessionExpired(c) ==
    /\ pc[c] = "calling" /\ conn[on[c]] \in {"open", "closing"}
    /\ retries[c] < MaxRetries
    /\ DropEntry
    /\ pc' = [pc EXCEPT ![c] = "disconnecting"]
    /\ UNCHANGED <<connecting, coolingDown, errors, on, retries, sent>>

\* disconnect has returned, the old process gone or not: healthTracker.clear.
RetriesSession(c) ==
    /\ pc[c] = "disconnecting"
    /\ errors' = 0
    /\ retries' = [retries EXCEPT ![c] = @ + 1]
    /\ pc' = [pc EXCEPT ![c] = "ready"]
    /\ UNCHANGED <<conn, entry, connecting, coolingDown, toolsCache, on, sent>>

\* Any other error, a timeout, or an expired session again.  Too many terminal
\* errors in a row disconnect the server before the call fails.
CallFails(c) ==
    /\ pc[c] = "calling"
    /\ \E terminal \in BOOLEAN :
        /\ errors' = Counted(terminal)
        /\ IF Counted(terminal) = MaxErrors
           THEN /\ DropEntry
                /\ pc' = [pc EXCEPT ![c] = "givingUp"]
                /\ UNCHANGED <<on, retries, sent>>
           ELSE Settle({c}) /\ UNCHANGED <<conn, entry, toolsCache>>
    /\ UNCHANGED <<connecting, coolingDown>>

ThrowsAfterDisconnect(c) ==
    /\ pc[c] = "givingUp"
    /\ Settle({c})
    /\ UNCHANGED <<conn, tables>>

-----------------------------------------------------------------------------
(* The settings page and the agent's tool table.                           *)

\* disconnect(): nothing is done about an attempt under way.
UserDisconnects ==
    /\ entry # None
    /\ DropEntry
    /\ UNCHANGED <<connecting, coolingDown, errors, callers>>

\* getTools, without a cached list or told to refresh it: the list of the live
\* connection, or the configured one.
GetTools ==
    /\ toolsCache' = IF entry # None THEN entry ELSE Static
    /\ UNCHANGED <<conn, entry, connecting, coolingDown, errors, callers>>

EnsureConnected(c) ==
    UseEntry(c) \/ JoinAttempt(c) \/ BeginAttempt(c) \/ RefuseWhileCooling(c)

Continue(c) == EnsureConnected(c) \/ RetriesSession(c) \/ ThrowsAfterDisconnect(c)

Next ==
    \/ \E c \in Callers : EnsureConnected(c)
    \/ \E c \in Calls : \/ Answered(c) \/ SessionExpired(c) \/ RetriesSession(c)
                        \/ CallFails(c) \/ ThrowsAfterDisconnect(c)
    \/ \E k \in Conns : \/ Opened(k) \/ OpenFails(k) \/ GivesUp(k)
                        \/ TransportCloses(k) \/ TransportError(k)
    \/ CooledDown \/ UserDisconnects \/ GetTools

Spec == Init /\ [][Next]_vars

\* Continuations run, and every wait on the server has a timeout: withTimeout
\* ends connect, tools/list and callTool, the SDK's own ends close().
FairSpec ==
    /\ Spec
    /\ \A c \in Callers : WF_vars(Continue(c)) /\ WF_vars(c \in Calls /\ CallFails(c))
    /\ \A k \in Conns : WF_vars(OpenFails(k)) /\ WF_vars(GivesUp(k))

-----------------------------------------------------------------------------
(* Properties.                                                             *)

\* The manager's tables tell the truth about the connections.  However many
\* calls find the server disconnected at once, one connection is being made and
\* everyone who waits, waits for that one; the connection a call is given is
\* open, not one that another call, the user or the server has closed; and the
\* cached tool list is that of the connection in use, or the configured one.
TablesAgree ==
    /\ \A k \in Conns : conn[k] = "opening" => connecting = k
    /\ \A c \in Callers : pc[c] = "connecting" => connecting = on[c]
    /\ entry # None => conn[entry] = "open"
    /\ toolsCache \in Conns => toolsCache = entry

\* A request goes over one connection once, and over at most two: the second
\* time only after its session's connection has been given up, whatever the
\* other calls do to the table in between.
SentAgainElsewhere ==
    [][\A c \in Calls :
        /\ pc[c] # "calling" /\ pc'[c] = "calling"
        => sent'[c] # sent[c] /\ Cardinality(sent'[c]) <= MaxRetries + 1]_vars

\* Every tool call ends, although calls close the connection others are
\* waiting on, join attempts that fail, and the server may be silent.
CallsEnd == \A c \in Calls : <>(pc[c] = "ended")

\* clientManager.ts:330-332: a transport that works must be findable, or it
\* is closed: "the connection is not in the Map, disconnect cannot find it".
NoOrphan == \A k \in Conns : conn[k] = "open" => entry = k
=============================================================================
