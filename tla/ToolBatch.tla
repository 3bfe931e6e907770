----------------------------- MODULE ToolBatch -----------------------------
(***************************************************************************)
(* One batch of tool calls, as runOrchestratedBatch schedules it: the      *)
(* parallel-safe prefix first, then a serial tail in which runs of safe    *)
(* calls and runs of writes to different files are grouped, and a call     *)
(* without paths is a barrier.  Each call goes through the orchestration   *)
(* pipeline (validate, preHook, gate, execute, postHook), may be cut by    *)
(* the user's abort, by steering or by its hard timeout, and records one   *)
(* outcome.  A tool body that was cut keeps running: JavaScript cannot     *)
(* kill it.                                                                *)
(***************************************************************************)
EXTENDS Integers, FiniteSets

CONSTANTS
    N,          \* number of tool calls in the model's response
    Cap,        \* maxConcurrency
    Paths,      \* raw path arguments, as the model writes them
    Keys,       \* what normalizePath makes of them
    NoKey,      \* the empty key: a blank path or /dev/null
    KeyOf,      \* normalizePath, as a function of the raw path
    FileOf,     \* the file the operating system opens for a raw path
    Profiles    \* the kinds of tool call considered

Call == 1..N

CallProfile ==
    [found       : BOOLEAN,   \* the raw name is the name of a registered tool
     dynamic     : {"absent", "yes", "no", "throws"},  \* isConcurrencySafe
     declared    : {"none", "safe", "unsafe"},         \* parallelSafety
     readOnly    : BOOLEAN,   \* isReadOnly
     whitelisted : BOOLEAN,   \* canonical parallel-safe name
     parses      : BOOLEAN,   \* the arguments are parseable
     resources   : {"absent", "throws", "reports"},    \* getAffectedResources
     fileScoped  : BOOLEAN,   \* a member of fileScopedWriteTools
     paths       : SUBSET Paths,  \* the reported, or extracted, paths
     timed       : BOOLEAN]   \* its effective hard timeout is not 0

ASSUME NAssumption == N \in Nat
ASSUME CapAssumption == Cap \in Nat \ {0}
ASSUME PathAssumption == /\ NoKey \notin Keys
                         /\ KeyOf \in [Paths -> Keys \cup {NoKey}]
ASSUME ProfileAssumption == Profiles \subseteq CallProfile

VARIABLES
    calls,        \* calls[i]: the profile of the i-th tool call
    pc,           \* where runOrchestratedBatch is
    ret,          \* where it resumes when the awaited group has settled
    next,         \* index of the call the serial loop looks at
    safeGroup,    \* pending run of parallel-safe calls of the tail
    scopedBatch,  \* pending run of writes to different files
    activeKeys,   \* path keys of scopedBatch
    flushing,     \* the calls of the group being awaited
    limited,      \* does that group run under a ConcurrencyLimiter?
    active,       \* the limiter's count of occupied slots
    st,           \* st[i]: progress of call i through the pipeline
    verdict,      \* verdict[i]: result known, post hooks still to run
    outcome,      \* outcome[i]: what recordOutcome stored
    body,         \* body[i]: the tool function itself
    aborted,      \* the run's abort signal
    steered       \* the batch's steering signal

orchestrator == <<pc, ret, next, safeGroup, scopedBatch, activeKeys>>
limiter == <<flushing, limited, active>>
pipeline == <<st, verdict, outcome, body>>
signals == <<aborted, steered>>
vars == <<calls, orchestrator, limiter, pipeline, signals>>

Results == {"none", "ok", "failed", "blocked", "aborted", "timeout"}

TypeOK ==
    /\ calls \in [Call -> Profiles]
    /\ pc \in {"start", "top", "place", "settle", "drain", "done"}
    /\ ret \in {"top", "place", "drain"}
    /\ next \in 1..(N + 1)
    /\ safeGroup \subseteq Call
    /\ scopedBatch \subseteq Call
    /\ activeKeys \subseteq Keys
    /\ flushing \subseteq Call
    /\ limited \in BOOLEAN
    /\ active \in Int
    /\ st \in [Call -> {"idle", "waiting", "woken", "gating", "running",
                        "posting", "settled"}]
    /\ verdict \in [Call -> Results]
    /\ outcome \in [Call -> Results]
    /\ body \in [Call -> {"unborn", "running", "done"}]
    /\ aborted \in BOOLEAN
    /\ steered \in BOOLEAN

-----------------------------------------------------------------------------
(* What the batch decides about a call before running it.                  *)

\* The dynamic verdict wins (a throwing one is "no"), then the static
\* declaration, then the read-only flag and the whitelist of names.
JudgeParallelSafe(c) ==
    \/ c.found /\ c.dynamic = "yes"
    \/ /\ c.found => c.dynamic = "absent"
       /\ \/ c.found /\ c.declared = "safe"
          \/ /\ c.found => c.declared = "none"
             /\ (c.found /\ c.readOnly) \/ c.whitelisted

\* Bug: only one of the path arguments is looked at.
WritePlan_OnePath(c) ==
    {k \in Keys :
        /\ c.parses /\ c.fileScoped
        /\ \E p \in c.paths : k = KeyOf[CHOOSE q \in c.paths : TRUE]}

\* getWritePlan: the keys of a scoped write; {} stands for a barrier.
WritePlan(c) ==
    {k \in Keys :
        /\ c.parses
        /\ IF c.found /\ c.resources # "absent"
           THEN c.resources = "reports"
           ELSE c.fileScoped
        /\ \E p \in c.paths : KeyOf[p] = k}

Safe(i) == JudgeParallelSafe(calls[i])
PlanOf(i) == WritePlan(calls[i])
Barrier(i) == ~Safe(i) /\ PlanOf(i) = {}

\* The order the batch promises to keep: two calls may run together only if
\* both are parallel-safe or both are writes whose keys are disjoint.
Conflict(i, j) ==
    ~ \/ Safe(i) /\ Safe(j)
      \/ /\ ~Safe(i) /\ ~Safe(j) /\ ~Barrier(i) /\ ~Barrier(j)
         /\ PlanOf(i) \cap PlanOf(j) = {}

-----------------------------------------------------------------------------
Init ==
    /\ calls \in [Call -> Profiles]
    /\ pc = "start" /\ ret = "top" /\ next = 1
    /\ safeGroup = {} /\ scopedBatch = {} /\ activeKeys = {}
    /\ flushing = {} /\ limited = FALSE /\ active = 0
    /\ st = [i \in Call |-> "idle"]
    /\ verdict = [i \in Call |-> "none"]
    /\ outcome = [i \in Call |-> "none"]
    /\ body = [i \in Call |-> "unborn"]
    /\ aborted = FALSE /\ steered = FALSE

-----------------------------------------------------------------------------
(* The orchestrator: it launches a group, awaits it, and looks at the next *)
(* call.                                                                   *)

\* The members of group g that find a free slot when limit() is called for
\* each of them in order, synchronously; the others wait.
Admitted(g, lim) ==
    IF lim THEN {i \in g : Cardinality({j \in g : j < i}) < Cap} ELSE g

\* Start the calls of g and await them (runOne, or runBatchSettled with a
\* fresh limiter when lim); continue at r.
Launch(g, lim, r) ==
    /\ pc' = "settle" /\ ret' = r
    /\ flushing' = g /\ limited' = lim
    /\ active' = IF lim THEN Cardinality(Admitted(g, lim)) ELSE 0
    /\ st' = [i \in Call |-> IF i \notin g THEN st[i]
                             ELSE IF i \in Admitted(g, lim) THEN "gating"
                             ELSE "waiting"]
    /\ UNCHANGED <<calls, verdict, outcome, body, signals>>

\* Phase 1: the longest parallel-safe prefix runs first, and the rest is the
\* serial tail.  No abort check here.
Start ==
    /\ pc = "start"
    /\ \E k \in 1..(N + 1) :
        /\ \A i \in 1..(k - 1) : Safe(i)
        /\ k <= N => ~Safe(k)
        /\ next' = k
        /\ \/ k = 1 /\ pc' = "top"
              /\ UNCHANGED <<ret, limiter, calls, pipeline, signals>>
           \/ k > 1 /\ Launch(1..(k - 1), k > 2, "top")
    /\ UNCHANGED <<safeGroup, scopedBatch, activeKeys>>

\* Bug: steering leaves the loop as an abort does.
LoopTop_SteeringBreaks ==
    /\ pc = "top"
    /\ pc' = IF aborted \/ steered \/ next > N THEN "drain" ELSE "place"
    /\ UNCHANGED <<ret, next, safeGroup, scopedBatch, activeKeys, calls,
                   limiter, pipeline, signals>>

\* Head of the serial loop: the only place that looks at the abort signal.
LoopTop ==
    /\ pc = "top"
    /\ pc' = IF aborted \/ next > N THEN "drain" ELSE "place"
    /\ UNCHANGED <<ret, next, safeGroup, scopedBatch, activeKeys, calls,
                   limiter, pipeline, signals>>

\* flushSafeGroup, when it has something to run.
FlushSafe(r) ==
    /\ safeGroup # {}
    /\ safeGroup' = {}
    /\ Launch(safeGroup, Cardinality(safeGroup) > 1, r)
    /\ UNCHANGED <<next, scopedBatch, activeKeys>>

\* flushScoped, when it has something to run: no limiter.
FlushScoped(r) ==
    /\ scopedBatch # {}
    /\ scopedBatch' = {} /\ activeKeys' = {}
    /\ Launch(scopedBatch, FALSE, r)
    /\ UNCHANGED <<next, safeGroup>>

\* Bug: a read does not wait for the pending writes.
PlaceSafe_NoFlush ==
    /\ pc = "place" /\ Safe(next)
    /\ safeGroup' = safeGroup \cup {next}
    /\ next' = next + 1 /\ pc' = "top"
    /\ UNCHANGED <<ret, scopedBatch, activeKeys, calls, limiter, pipeline,
                   signals>>

\* A read waits for the pending writes, then joins the safe group.
PlaceSafe ==
    /\ pc = "place" /\ Safe(next)
    /\ \/ FlushScoped("place")
       \/ /\ scopedBatch = {}
          /\ safeGroup' = safeGroup \cup {next}
          /\ next' = next + 1 /\ pc' = "top"
          /\ UNCHANGED <<ret, scopedBatch, activeKeys, calls, limiter,
                         pipeline, signals>>

\* A call that is not safe waits for the pending reads; a write that shares
\* a key with the pending writes, and any barrier, waits for those too.
PlaceUnsafe ==
    /\ pc = "place" /\ ~Safe(next)
    /\ \/ FlushSafe("place")
       \/ /\ safeGroup = {}
          /\ Barrier(next) \/ PlanOf(next) \cap activeKeys # {}
          /\ FlushScoped("place")
       \/ /\ safeGroup = {} /\ ~Barrier(next)
          /\ PlanOf(next) \cap activeKeys = {}
          /\ scopedBatch' = scopedBatch \cup {next}
          /\ activeKeys' = activeKeys \cup PlanOf(next)
          /\ next' = next + 1 /\ pc' = "top"
          /\ UNCHANGED <<ret, safeGroup, calls, limiter, pipeline, signals>>
       \/ /\ safeGroup = {} /\ scopedBatch = {} /\ Barrier(next)
          /\ next' = next + 1
          /\ Launch({next}, FALSE, "top")
          /\ UNCHANGED <<safeGroup, scopedBatch, activeKeys>>

\* The awaited group has settled, every call of it.
GroupSettled ==
    /\ pc = "settle"
    /\ \A i \in flushing : st[i] = "settled"
    /\ pc' = ret
    /\ flushing' = {} /\ limited' = FALSE /\ active' = 0
    /\ UNCHANGED <<ret, next, safeGroup, scopedBatch, activeKeys, calls,
                   pipeline, signals>>

\* After the loop, left or broken out of, what is still pending is run.
Drain ==
    /\ pc = "drain"
    /\ \/ FlushSafe("drain")
       \/ safeGroup = {} /\ FlushScoped("drain")
       \/ /\ safeGroup = {} /\ scopedBatch = {}
          /\ pc' = "done"
          /\ UNCHANGED <<ret, next, safeGroup, scopedBatch, activeKeys,
                         calls, limiter, pipeline, signals>>

Orchestrate ==
    \/ Start \/ LoopTop \/ PlaceSafe \/ PlaceUnsafe \/ GroupSettled \/ Drain

-----------------------------------------------------------------------------
(* One call in the pipeline.                                               *)

\* recordOutcome, and the limiter's finally block: the slot is freed and the
\* longest-waiting call of the group is woken.
Waiting == {j \in flushing : st[j] = "waiting"}

\* Bug: the slot is freed and nobody is woken.
Record_NoWake(i, result) ==
    /\ outcome' = [outcome EXCEPT ![i] = result]
    /\ active' = IF limited THEN active - 1 ELSE active
    /\ st' = [st EXCEPT ![i] = "settled"]
    /\ UNCHANGED <<calls, orchestrator, flushing, limited, signals>>

Record(i, result) ==
    /\ outcome' = [outcome EXCEPT ![i] = result]
    /\ active' = IF limited THEN active - 1 ELSE active
    /\ st' = [j \in Call |->
                IF j = i THEN "settled"
                ELSE IF /\ j \in Waiting
                        /\ \A k \in Waiting : j <= k
                     THEN "woken"
                     ELSE st[j]]
    /\ UNCHANGED <<calls, orchestrator, flushing, limited, signals>>

\* The continuation of a woken waiter takes its slot.
TakeSlot(i) ==
    /\ st[i] = "woken"
    /\ st' = [st EXCEPT ![i] = "gating"]
    /\ active' = active + 1
    /\ UNCHANGED <<calls, orchestrator, flushing, limited, verdict, outcome,
                   body, signals>>

\* Validation, a pre hook or the gate blocks the call (a throwing one
\* blocks too), and no post hook runs.
Blocked(i) ==
    /\ st[i] = "gating"
    /\ Record(i, "blocked")
    /\ UNCHANGED <<verdict, body>>

\* The execute stage knows the result; the post hooks come next.
Decide(i, result) ==
    /\ st' = [st EXCEPT ![i] = "posting"]
    /\ verdict' = [verdict EXCEPT ![i] = result]
    /\ UNCHANGED <<calls, orchestrator, limiter, outcome, signals>>

\* The execute stage, and invokeTool, look at the signals after the last
\* await of the gate: a cut call never starts its tool.
RefuseCut(i) ==
    /\ st[i] = "gating"
    /\ aborted \/ steered
    /\ Decide(i, "aborted")
    /\ UNCHANGED body

\* invokeTool's own guards (skill scope, truncated or missing arguments).
RefuseArguments(i) ==
    /\ st[i] = "gating"
    /\ ~aborted /\ ~steered
    /\ Decide(i, "failed")
    /\ UNCHANGED body

\* Bug: the signals are read before the gate is awaited, not after.
StartBody_Unchecked(i) ==
    /\ st[i] = "gating"
    /\ st' = [st EXCEPT ![i] = "running"]
    /\ body' = [body EXCEPT ![i] = "running"]
    /\ UNCHANGED <<calls, orchestrator, limiter, verdict, outcome, signals>>

StartBody(i) ==
    /\ st[i] = "gating"
    /\ ~aborted /\ ~steered
    /\ st' = [st EXCEPT ![i] = "running"]
    /\ body' = [body EXCEPT ![i] = "running"]
    /\ UNCHANGED <<calls, orchestrator, limiter, verdict, outcome, signals>>

\* The tool function returns or throws while its call still waits for it.
BodyReturns(i) ==
    /\ st[i] = "running"
    /\ body' = [body EXCEPT ![i] = "done"]
    /\ \E result \in {"ok", "failed"} : Decide(i, result)

\* The tool function of a call that was cut ends at last: the result is
\* swallowed by the race it lost.
LateReturn(i) ==
    /\ body[i] = "running" /\ st[i] # "running"
    /\ body' = [body EXCEPT ![i] = "done"]
    /\ UNCHANGED <<calls, orchestrator, limiter, st, verdict, outcome,
                   signals>>

\* withTimeout gives up on the call; its body keeps running.
HardTimeout(i) ==
    /\ st[i] = "running" /\ calls[i].timed
    /\ Decide(i, "timeout")
    /\ UNCHANGED body

\* The post hooks have run (a throwing one is ignored).
PostHooksDone(i) ==
    /\ st[i] = "posting"
    /\ Record(i, verdict[i])
    /\ UNCHANGED <<verdict, body>>

Pipeline(i) ==
    \/ TakeSlot(i) \/ Blocked(i) \/ RefuseCut(i) \/ RefuseArguments(i)
    \/ StartBody(i) \/ BodyReturns(i) \/ LateReturn(i) \/ HardTimeout(i)
    \/ PostHooksDone(i)

-----------------------------------------------------------------------------
(* The two signals, raised from outside at any time.  abortableRace rejects *)
(* every running call in the same turn of the event loop.                   *)

\* Bug: the running calls are not raced against the signal.
CutRunning_Nothing == UNCHANGED <<calls, orchestrator, limiter, pipeline>>

CutRunning ==
    /\ st' = [i \in Call |-> IF st[i] = "running" THEN "posting" ELSE st[i]]
    /\ verdict' = [i \in Call |-> IF st[i] = "running" THEN "aborted"
                                  ELSE verdict[i]]
    /\ UNCHANGED <<calls, orchestrator, limiter, outcome, body>>

Abort ==
    /\ pc # "done" /\ ~aborted
    /\ aborted' = TRUE
    /\ CutRunning
    /\ UNCHANGED steered

Steer ==
    /\ pc # "done" /\ ~steered
    /\ steered' = TRUE
    /\ CutRunning
    /\ UNCHANGED aborted

\* The batch has returned; what is left is the late end of abandoned bodies.
Terminated ==
    /\ pc = "done"
    /\ \A i \in Call : body[i] # "running"
    /\ UNCHANGED vars

Next ==
    \/ Orchestrate
    \/ \E i \in Call : Pipeline(i)
    \/ Abort
    \/ Steer
    \/ Terminated

Spec == Init /\ [][Next]_vars

-----------------------------------------------------------------------------
(* Fairness.  The event loop runs every continuation that is ready, and the *)
(* gates and the hooks answer.  That tools return, or have a timeout to run *)
(* into, is no part of it: an abort must not need it.                       *)

GateAnswers(i) ==
    Blocked(i) \/ RefuseCut(i) \/ RefuseArguments(i) \/ StartBody(i)

Fairness ==
    /\ WF_vars(Orchestrate)
    /\ \A i \in Call : WF_vars(TakeSlot(i)) /\ WF_vars(GateAnswers(i))
                       /\ WF_vars(PostHooksDone(i))

FairSpec == Spec /\ Fairness

ToolsReturn == \A i \in Call : WF_vars(BodyReturns(i) \/ HardTimeout(i))

-----------------------------------------------------------------------------
(* Properties.                                                             *)

Begun(i) == st[i] \notin {"idle"}
Settled(i) == st[i] = "settled"

\* A call enters the pipeline only after every earlier call it conflicts
\* with has its outcome: reads see the writes before them, writes do not
\* overtake reads, and a barrier is alone (flush order of the serial loop).
ConflictOrder ==
    \A i, j \in Call :
        i < j /\ Begun(j) => Settled(i) \/ ~Conflict(i, j)

\* Two conflicting tool bodies run at the same time only when the earlier one
\* was given up by its hard timeout: abort and steering abandon bodies too,
\* but then nothing new is started.
OverlapOnlyByTimeout ==
    \A i, j \in Call :
        i < j /\ body[i] = "running" /\ body[j] = "running"
        => verdict[i] = "timeout" \/ ~Conflict(i, j)

\* The files a scoped write really touches; a blank path names none, and
\* /dev/null need not be serialized.
Files(i) == {FileOf[p] : p \in {q \in calls[i].paths : KeyOf[q] # NoKey}}

\* No file has two keys.  normalizePath follows no links and folds the case on
\* Windows only: this is so in a workspace without links, on Windows or on a
\* case-sensitive file system.
KeysTellFiles ==
    \A p, q \in Paths : FileOf[p] = FileOf[q] => KeyOf[p] = KeyOf[q]

\* Two running writes have no file in common, however a file is spelled and
\* however many a call names, unless one of them was given up by its timeout.
SameFileSerialized ==
    \A i, j \in Call :
        /\ i # j /\ body[i] = "running" /\ body[j] = "running"
        /\ ~Safe(i) /\ ~Safe(j) /\ ~Barrier(i) /\ ~Barrier(j)
        /\ "timeout" \notin {verdict[i], verdict[j]}
        => Files(i) \cap Files(j) = {}

\* When the batch returns, the calls with an outcome are a prefix of the
\* response, and a call is missing only after an abort: steering, a timeout
\* or a failure leaves no gap for the runner to fill.
OutcomesAreAPrefix ==
    pc = "done" =>
        /\ \A i, j \in Call : i < j /\ Settled(j) => Settled(i)
        /\ ~aborted => \A i \in Call : Settled(i)
        /\ \A i \in Call : Settled(i) <=> outcome[i] # "none"

\* A recorded outcome is never replaced, not even by the late result of an
\* abandoned body, and a call with an outcome never starts its body again.
OutcomeIsFinal ==
    [][\A i \in Call : outcome[i] # "none" =>
            /\ outcome'[i] = outcome[i]
            /\ st'[i] = "settled"
            /\ body'[i] = "running" => body[i] = "running"]_vars

\* Once the user has aborted or steered, no tool body starts in this batch,
\* whatever gate was being awaited and whatever group is still flushed.
NoStartAfterCut ==
    [][aborted \/ steered =>
          \A i \in Call : body[i] = "unborn" => body'[i] = "unborn"]_vars

\* The batch returns when its tools return or time out: no group, slot or
\* flush waits for a call that is itself waiting.
BatchTerminates == ToolsReturn => <>(pc = "done")

\* After an abort the batch returns although the running tools never do.
AbortReleases == aborted ~> (pc = "done")
-----------------------------------------------------------------------------
(* The inductive strengthening behind the safety properties.               *)

\* What is behind `next` has settled, is being awaited or is pending; what is
\* ahead is untouched; nothing is pending while a group is awaited, and never
\* reads and writes at once.
GroupInv ==
    /\ pc = "start" => next = 1
    /\ pc = "place" \/ (pc = "settle" /\ ret = "place") => next <= N
    /\ pc # "settle" => flushing = {}
    /\ pc = "settle" => safeGroup = {} /\ scopedBatch = {}
    /\ safeGroup = {} \/ scopedBatch = {}
    /\ pc = "done" => safeGroup = {} /\ scopedBatch = {}
    /\ \A i \in flushing : i < next /\ st[i] # "idle"
    /\ \A i \in safeGroup \cup scopedBatch : i < next /\ st[i] = "idle"
    /\ \A i \in Call :
          IF i < next
          THEN Settled(i) \/ i \in flushing \cup safeGroup \cup scopedBatch
          ELSE st[i] = "idle"
    /\ \/ pc \in {"drain", "done"}
       \/ pc = "settle" /\ ret = "drain"
       => aborted \/ next = N + 1

\* The pending groups hold calls that may run together.
PendingInv ==
    /\ \A i \in safeGroup : Safe(i)
    /\ \A i \in scopedBatch :
          ~Safe(i) /\ ~Barrier(i) /\ PlanOf(i) \subseteq activeKeys
    /\ \A i, j \in scopedBatch : i # j => PlanOf(i) \cap PlanOf(j) = {}

\* A body outlives its call only when the call was cut, and a cut call knows
\* by whom.
BodyInv ==
    \A i \in Call :
        /\ st[i] \in {"idle", "waiting", "woken", "gating"}
              => body[i] = "unborn"
        /\ st[i] = "running" => body[i] = "running"
        /\ body[i] = "running"
              => st[i] = "running" \/ verdict[i] \in {"timeout", "aborted"}
        /\ verdict[i] = "aborted" => aborted \/ steered
        /\ st[i] = "posting" => verdict[i] # "none"
        /\ Settled(i) <=> outcome[i] # "none"

IInv == /\ TypeOK
        /\ GroupInv
        /\ PendingInv
        /\ BodyInv
        /\ ConflictOrder
        /\ OverlapOnlyByTimeout
=============================================================================
