----------------------------- MODULE WriteLocks -----------------------------
(***************************************************************************)
(* The locks around one process's file-writing tools: the guarded tool     *)
(* takes the WriteLockManager's lock of every file it names, in sorted     *)
(* order, with a timeout; a lock that outlives its TTL is given away; and  *)
(* edit and write_file also queue, for the write itself, on the promise    *)
(* chain of withFileWriteLock.                                             *)
(***************************************************************************)
EXTENDS Integers, Sequences

CONSTANTS
    Writers,    \* the calls of guarded tools
    NoWriter,   \* no entry in the lock table
    Files,      \* lock keys, in their sorting order
    AgentOf,    \* the agent id a call uses
    Kinds       \* what a call names, and whether it writes under the chain

ASSUME LockAssumption ==
    /\ NoWriter \notin Writers
    /\ Files \subseteq Int
    /\ \A k \in Kinds : /\ k.targets \in (SUBSET Files) \ {{}}
                        /\ k.chained \in BOOLEAN
                        /\ k.chained => \E f \in Files : k.targets = {f}

VARIABLES
    kind,       \* kind[w]: what the call does
    pc,         \* pc[w]: where the call is
    acquired,   \* acquired[w]: acquiredTargets
    owner,      \* owner[f]: the call whose acquire made the lock entry
    expired,    \* the files whose entry is past its expiresAt
    waitQueues, \* waitQueues[f]: the calls waiting for the lock
    chain,      \* chain[f]: the calls in withFileWriteLock
    overdue     \* history: calls whose entry expired while they had it

calls == <<kind, pc, acquired>>
table == <<owner, expired, waitQueues>>
vars == <<calls, table, chain, overdue>>

TypeOK ==
    /\ kind \in [Writers -> Kinds]
    /\ pc \in [Writers -> {"idle", "acquiring", "waiting", "reading",
                           "chained", "writing", "done"}]
    /\ acquired \in [Writers -> SUBSET Files]
    /\ owner \in [Files -> Writers \cup {NoWriter}]
    /\ expired \subseteq Files
    /\ waitQueues \in [Files -> Seq(Writers)]
    /\ chain \in [Files -> Seq(Writers)]
    /\ overdue \subseteq Writers

Init ==
    /\ kind \in [Writers -> Kinds]
    /\ pc = [w \in Writers |-> "idle"]
    /\ acquired = [w \in Writers |-> {}]
    /\ owner = [f \in Files |-> NoWriter]
    /\ expired = {}
    /\ waitQueues = [f \in Files |-> <<>>]
    /\ chain = [f \in Files |-> <<>>]
    /\ overdue = {}

-----------------------------------------------------------------------------
(* The lock table.                                                         *)

\* The entries of S are deleted, and processWaitQueue gives each file to its
\* first waiter in `queues`; a call that returns sets its own pc in `pcs`.
Free(S, queues, pcs) ==
    LET passed == {f \in S : queues[f] # <<>>}
        lucky(w) == {f \in passed : Head(queues[f]) = w}
    IN  /\ owner' = [f \in Files |->
                        IF f \in passed THEN Head(queues[f])
                        ELSE IF f \in S THEN NoWriter ELSE owner[f]]
        /\ expired' = expired \ S
        /\ waitQueues' = [f \in Files |->
                            IF f \in passed THEN Tail(queues[f])
                            ELSE queues[f]]
        /\ acquired' = [w \in Writers |-> acquired[w] \cup lucky(w)]
        /\ pc' = [w \in Writers |-> IF lucky(w) # {} THEN "acquiring"
                                    ELSE pcs[w]]

\* Bug: release does not look at the agent.
Releasable_Any(w) == {f \in acquired[w] : owner[f] # NoWriter}

\* release: an entry of another agent is left alone, one of the same agent
\* is taken for one's own.
Releasable(w) ==
    {f \in acquired[w] : owner[f] # NoWriter /\ AgentOf[owner[f]] = AgentOf[w]}

\* The guarded tool returns, and releases what it has acquired.
Return(w, queues) ==
    /\ Free(Releasable(w), queues, [pc EXCEPT ![w] = "done"])
    /\ UNCHANGED <<kind, overdue>>

\* Time passes: the entry of f is past its TTL.
Expire(f) ==
    /\ owner[f] # NoWriter /\ f \notin expired
    /\ expired' = expired \cup {f}
    /\ overdue' = overdue \cup {owner[f]}
    /\ UNCHANGED <<calls, owner, waitQueues, chain>>

\* The interval timer.
CleanupExpiredLocks ==
    /\ expired # {}
    /\ Free(expired, waitQueues, pc)
    /\ UNCHANGED <<kind, chain, overdue>>

-----------------------------------------------------------------------------
(* One guarded call.                                                       *)

\* The call begins with its first acquire.
Asks(w) == pc[w] \in {"idle", "acquiring"}

Remaining(w) == kind[w].targets \ acquired[w]

\* Bug: the targets are taken in the order the arguments name them.
Target_Unsorted(w, f) == f \in Remaining(w)

\* resolveLockTargets sorts the keys.
Target(w, f) ==
    /\ f \in Remaining(w)
    /\ \A g \in Remaining(w) : f <= g

\* tryAcquire: a free lock, or one past its TTL, is taken at once, whoever
\* waits for it.
Acquire(w) ==
    /\ Asks(w)
    /\ \E f \in Files :
        /\ Target(w, f)
        /\ owner[f] = NoWriter \/ f \in expired
        /\ owner' = [owner EXCEPT ![f] = w]
        /\ expired' = expired \ {f}
        /\ acquired' = [acquired EXCEPT ![w] = @ \cup {f}]
    /\ pc' = [pc EXCEPT ![w] = "acquiring"]
    /\ UNCHANGED <<kind, waitQueues, chain, overdue>>

\* waitForLock.
WaitForLock(w) ==
    /\ Asks(w)
    /\ \E f \in Files :
        /\ Target(w, f)
        /\ owner[f] # NoWriter /\ f \notin expired
        /\ waitQueues' = [waitQueues EXCEPT ![f] = Append(@, w)]
        /\ pc' = [pc EXCEPT ![w] = "waiting"]
    /\ UNCHANGED <<kind, acquired, owner, expired, chain, overdue>>

\* Bug: removeFromQueue takes the last entry instead of the first, and with it
\* another call's timer.
WaitTimesOut_TakesLast(w) ==
    /\ pc[w] = "waiting"
    /\ \E f \in Files :
        /\ waitQueues[f] # <<>> /\ Head(waitQueues[f]) = w
        /\ Return(w, [waitQueues EXCEPT ![f] = SubSeq(@, 1, Len(@) - 1)])
    /\ UNCHANGED chain

\* All calls wait equally long, so the timer that fires is that of a queue's
\* first waiter, and removeFromQueue's first entry of its agent is its own.
\* The call fails and releases the locks it has.
WaitTimesOut(w) ==
    /\ pc[w] = "waiting"
    /\ \E f \in Files :
        /\ waitQueues[f] # <<>> /\ Head(waitQueues[f]) = w
        /\ Return(w, [waitQueues EXCEPT ![f] = Tail(@)])
    /\ UNCHANGED chain

\* All locks are there: the tool runs.  edit and write_file first look at the
\* file, and only their write to the disk is chained.
BeginWrite(w) ==
    /\ pc[w] = "acquiring" /\ Remaining(w) = {}
    /\ pc' = [pc EXCEPT ![w] = IF kind[w].chained THEN "reading" ELSE "writing"]
    /\ UNCHANGED <<kind, acquired, table, chain, overdue>>

\* withFileWriteLock: the call puts itself at the end of its file's chain.
JoinChain(w) ==
    /\ pc[w] = "reading"
    /\ pc' = [pc EXCEPT ![w] = "chained"]
    /\ chain' = [f \in Files |-> IF f \in kind[w].targets
                                 THEN Append(chain[f], w) ELSE chain[f]]
    /\ UNCHANGED <<kind, acquired, table, overdue>>

\* Bug: the chain is joined and not awaited.
ChainTurn_NoAwait(w) ==
    /\ pc[w] = "chained"
    /\ pc' = [pc EXCEPT ![w] = "writing"]
    /\ UNCHANGED <<kind, acquired, table, chain, overdue>>

\* The call before it in the chain has ended.
ChainTurn(w) ==
    /\ pc[w] = "chained"
    /\ \A f \in kind[w].targets : Head(chain[f]) = w
    /\ pc' = [pc EXCEPT ![w] = "writing"]
    /\ UNCHANGED <<kind, acquired, table, chain, overdue>>

\* The tool has written or thrown: the two finally blocks.  The promise that
\* the next call in the chain awaits resolves.
WriteEnds(w) ==
    /\ pc[w] = "writing"
    /\ chain' = [f \in Files |-> IF chain[f] # <<>> /\ Head(chain[f]) = w
                                 THEN Tail(chain[f]) ELSE chain[f]]
    /\ Return(w, waitQueues)

\* Every call has returned and every entry is gone.
Quiet ==
    /\ \A w \in Writers : pc[w] = "done"
    /\ \A f \in Files : owner[f] = NoWriter
    /\ UNCHANGED vars

Step(w) ==
    \/ Acquire(w) \/ WaitForLock(w) \/ BeginWrite(w) \/ JoinChain(w)
    \/ ChainTurn(w)

Next ==
    \/ \E w \in Writers : Step(w) \/ WaitTimesOut(w) \/ WriteEnds(w)
    \/ \E f \in Files : Expire(f)
    \/ CleanupExpiredLocks
    \/ Quiet

Spec == Init /\ [][Next]_vars

\* Continuations run and timers fire.  A tool that never ends is allowed.
FairSpec ==
    /\ Spec
    /\ \A w \in Writers : /\ WF_vars(pc[w] # "idle" /\ Step(w))
                          /\ WF_vars(WaitTimesOut(w))
    /\ WF_vars(CleanupExpiredLocks)

ToolsEnd == \A w \in Writers : WF_vars(WriteEnds(w))

-----------------------------------------------------------------------------
(* Properties.                                                             *)

Overlap(v, w) == /\ v # w /\ pc[v] = "writing" /\ pc[w] = "writing"
                 /\ kind[v].targets \cap kind[w].targets # {}

\* From the moment a call looks at its files until it has written them it has
\* their entries, so that no other call is at work on them, unless its entry
\* has expired, or a call of the same agent id, whose own had expired, has
\* released it in its place.  A call is never robbed by another agent that
\* keeps to its time.
WritersHoldEntries ==
    \A w \in Writers, f \in Files :
        /\ pc[w] \in {"reading", "chained", "writing"}
        /\ f \in kind[w].targets /\ owner[f] # w
        => \E u \in overdue : AgentOf[u] = AgentOf[w]

\* edit and write_file never write one file at the same time, whatever
\* expires: what the manager's locks give away, the chain still serializes.
ChainSerializes ==
    \A v, w \in Writers :
        Overlap(v, w) => ~kind[v].chained \/ ~kind[w].chained

\* Whoever waits in a queue waits for an entry, never for nothing, the entry is
\* that of a call that is still there to release it, and no two calls hold what
\* the other one waits for: the sorted order lets a rename meet a rename in the
\* opposite direction without both timing out.
WaitsAreSound ==
    LET waitsFor(v, w) == \E f \in Files :
            owner[f] = w /\ \E i \in 1..Len(waitQueues[f]) : waitQueues[f][i] = v
    IN  /\ \A f \in Files :
            /\ owner[f] # NoWriter => pc[owner[f]] \notin {"idle", "done"}
            /\ waitQueues[f] # <<>> => owner[f] # NoWriter
            /\ \A i \in 1..Len(waitQueues[f]) : pc[waitQueues[f][i]] = "waiting"
        /\ \A v, w \in Writers : ~(waitsFor(v, w) /\ waitsFor(w, v))

\* A call that has started answers when the tools end; with a rename among
\* them this needs the timeouts, the wake-ups and the chain together.
CallsAnswer ==
    ToolsEnd => \A w \in Writers : pc[w] # "idle" ~> pc[w] = "done"
=============================================================================
