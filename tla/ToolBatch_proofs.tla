-------------------------- MODULE ToolBatch_proofs --------------------------
(***************************************************************************)
(* Proofs about ToolBatch for every number of calls, every concurrency cap *)
(* and every set of call profiles.  A step of the specification either     *)
(* launches a group, or leaves the groups alone and only advances calls    *)
(* ("quiet" steps): the two lemmas LaunchOrder and QuietStep carry the     *)
(* order argument, one lemma per conjunct of IInv the rest.                *)
(***************************************************************************)
EXTENDS ToolBatchRefinement, FiniteSetTheorems, TLAPS

\* What Launch does to the state, in the terms the invariants use.
LEMMA LaunchFacts ==
    ASSUME TypeOK, NEW g \in SUBSET Call, NEW lim \in BOOLEAN,
           NEW r \in {"top", "place", "drain"}, Launch(g, lim, r)
    PROVE  /\ pc' = "settle" /\ ret' = r /\ flushing' = g /\ limited' = lim
           /\ active' \in Int
           /\ st' \in [Call -> {"idle", "waiting", "woken", "gating",
                                "running", "posting", "settled"}]
           /\ \A i \in Call : IF i \in g THEN st'[i] \in {"gating", "waiting"}
                                         ELSE st'[i] = st[i]
           /\ UNCHANGED <<calls, verdict, outcome, body, aborted, steered>>
<1>1. Admitted(g, lim) \in SUBSET Call
  BY DEF Admitted
<1>2. IsFiniteSet(Call)
  BY NAssumption, FS_Interval DEF Call
<1>3. Cardinality(Admitted(g, lim)) \in Nat
  BY <1>1, <1>2, FS_Subset, FS_CardinalityType
<1>4. active' \in Int
  BY <1>3 DEF Launch
<1> QED
  BY <1>1, <1>4 DEF Launch, TypeOK, signals

\* What Record does to the state.
LEMMA RecordFacts ==
    ASSUME TypeOK, NEW i \in Call, NEW result \in Results, Record(i, result)
    PROVE  /\ outcome' = [outcome EXCEPT ![i] = result]
           /\ active' \in Int
           /\ st' \in [Call -> {"idle", "waiting", "woken", "gating",
                                "running", "posting", "settled"}]
           /\ st'[i] = "settled"
           /\ \A j \in Call \ {i} :
                 \/ st'[j] = st[j]
                 \/ st[j] = "waiting" /\ st'[j] = "woken"
           /\ UNCHANGED <<calls, pc, ret, next, safeGroup, scopedBatch,
                          activeKeys, flushing, limited, aborted, steered>>
<1>1. st' \in [Call -> {"idle", "waiting", "woken", "gating",
                        "running", "posting", "settled"}]
  BY DEF Record, TypeOK
<1>2. \A j \in Call \ {i} : \/ st'[j] = st[j]
                            \/ st[j] = "waiting" /\ st'[j] = "woken"
  BY DEF Record, TypeOK, Waiting
<1> QED
  BY <1>1, <1>2 DEF Record, TypeOK, orchestrator, signals

-----------------------------------------------------------------------------
(* Type correctness.                                                       *)

LEMMA TypeInit == Init => TypeOK
<1>1. 1 \in 1..(N + 1)
  BY NAssumption
<1> SUFFICES ASSUME Init PROVE TypeOK
  OBVIOUS
<1>2. /\ st \in [Call -> {"idle", "waiting", "woken", "gating", "running",
                         "posting", "settled"}]
      /\ verdict \in [Call -> Results]
      /\ outcome \in [Call -> Results]
      /\ body \in [Call -> {"unborn", "running", "done"}]
  BY DEF Init, Results
<1>3. /\ safeGroup \subseteq Call /\ scopedBatch \subseteq Call
      /\ activeKeys \subseteq Keys /\ flushing \subseteq Call
  BY DEF Init
<1>4. /\ calls \in [Call -> Profiles]
      /\ pc \in {"start", "top", "place", "settle", "drain", "done"}
      /\ ret \in {"top", "place", "drain"}
  BY DEF Init
<1>5. next \in 1..(N + 1) /\ active \in Int
  BY <1>1 DEF Init
<1>6. limited \in BOOLEAN /\ aborted \in BOOLEAN /\ steered \in BOOLEAN
  BY DEF Init
<1> QED
  BY <1>2, <1>3, <1>4, <1>5, <1>6 DEF TypeOK

LEMMA TypePipeline ==
    ASSUME TypeOK, NEW i \in Call, Pipeline(i)
    PROVE  TypeOK'
<1>1. CASE TakeSlot(i)
  BY <1>1 DEF TypeOK, TakeSlot, orchestrator, signals
<1>2. CASE Blocked(i)
  <2>1. "blocked" \in Results BY DEF Results
  <2> QED BY <1>2, <2>1, RecordFacts DEF TypeOK, Blocked
<1>3. CASE RefuseCut(i)
  BY <1>3 DEF TypeOK, RefuseCut, Decide, orchestrator, limiter, signals, Results
<1>4. CASE RefuseArguments(i)
  BY <1>4 DEF TypeOK, RefuseArguments, Decide, orchestrator, limiter, signals,
              Results
<1>5. CASE StartBody(i)
  BY <1>5 DEF TypeOK, StartBody, orchestrator, limiter, signals
<1>6. CASE BodyReturns(i)
  BY <1>6 DEF TypeOK, BodyReturns, Decide, orchestrator, limiter, signals,
              Results
<1>7. CASE LateReturn(i)
  BY <1>7 DEF TypeOK, LateReturn, orchestrator, limiter, signals
<1>8. CASE HardTimeout(i)
  BY <1>8 DEF TypeOK, HardTimeout, Decide, orchestrator, limiter, signals,
              Results
<1>9. CASE PostHooksDone(i)
  <2>1. verdict[i] \in Results BY DEF TypeOK
  <2> QED BY <1>9, <2>1, RecordFacts DEF TypeOK, PostHooksDone
<1> QED
  BY <1>1, <1>2, <1>3, <1>4, <1>5, <1>6, <1>7, <1>8, <1>9 DEF Pipeline

LEMMA TypeLaunch ==
    ASSUME TypeOK, NEW g \in SUBSET Call, NEW lim \in BOOLEAN,
           NEW r \in {"top", "place", "drain"}, Launch(g, lim, r),
           next' \in 1..(N + 1), safeGroup' \subseteq Call,
           scopedBatch' \subseteq Call, activeKeys' \subseteq Keys
    PROVE  TypeOK'
<1>1. /\ pc' = "settle" /\ ret' = r /\ flushing' = g /\ limited' = lim
      /\ active' \in Int
      /\ st' \in [Call -> {"idle", "waiting", "woken", "gating",
                           "running", "posting", "settled"}]
      /\ UNCHANGED <<calls, verdict, outcome, body, aborted, steered>>
  BY LaunchFacts
<1> QED
  BY <1>1 DEF TypeOK

\* Flushing a pending group, wherever the loop does it.
LEMMA TypeFlush ==
    ASSUME TypeOK, NEW r \in {"place", "drain"},
           FlushSafe(r) \/ FlushScoped(r)
    PROVE  TypeOK'
<1>1. CASE FlushSafe(r)
  <2> DEFINE lim == Cardinality(safeGroup) > 1
  <2>1. lim \in BOOLEAN /\ safeGroup \in SUBSET Call
    BY DEF TypeOK
  <2>2. Launch(safeGroup, lim, r)
    BY <1>1 DEF FlushSafe
  <2> HIDE DEF lim
  <2> QED
    BY <1>1, <2>1, <2>2, TypeLaunch DEF TypeOK, FlushSafe
<1>2. CASE FlushScoped(r)
  <2>1. Launch(scopedBatch, FALSE, r) /\ scopedBatch \in SUBSET Call
    BY <1>2 DEF FlushScoped, TypeOK
  <2> QED
    BY <1>2, <2>1, TypeLaunch DEF TypeOK, FlushScoped
<1> QED
  BY <1>1, <1>2

LEMMA TypeOrchestrate ==
    ASSUME TypeOK, pc = "place" => next <= N, Orchestrate
    PROVE  TypeOK'
<1>1. CASE Start
  <2>1. PICK k \in 1..(N + 1) :
           /\ next' = k
           /\ \/ /\ pc' = "top"
                 /\ UNCHANGED <<ret, limiter, calls, pipeline, signals>>
              \/ Launch(1..(k - 1), k > 2, "top")
    BY <1>1 DEF Start
  <2>2. 1..(k - 1) \in SUBSET Call /\ (k > 2) \in BOOLEAN
    BY NAssumption DEF Call
  <2>3. UNCHANGED <<safeGroup, scopedBatch, activeKeys>>
    BY <1>1 DEF Start
  <2>4. CASE UNCHANGED <<ret, limiter, calls, pipeline, signals>> /\ pc' = "top"
    BY <2>1, <2>3, <2>4 DEF TypeOK, limiter, pipeline, signals
  <2>5. CASE Launch(1..(k - 1), k > 2, "top")
    <3>1. /\ next' \in 1..(N + 1) /\ safeGroup' \subseteq Call
          /\ scopedBatch' \subseteq Call /\ activeKeys' \subseteq Keys
      BY <2>1, <2>3 DEF TypeOK
    <3> QED
      BY <2>2, <2>5, <3>1, TypeLaunch
  <2> QED
    BY <2>1, <2>4, <2>5
<1>2. CASE LoopTop
  BY <1>2 DEF TypeOK, LoopTop, limiter, pipeline, signals
<1>3. CASE PlaceSafe
  <2>1. CASE FlushScoped("place")
    BY <2>1, TypeFlush
  <2>2. CASE ~FlushScoped("place")
    <3>1. next \in Call /\ next + 1 \in 1..(N + 1)
      BY <1>3, NAssumption DEF PlaceSafe, TypeOK, Call
    <3> QED
      BY <1>3, <2>2, <3>1 DEF TypeOK, PlaceSafe, limiter, pipeline, signals
  <2> QED
    BY <2>1, <2>2
<1>4. CASE PlaceUnsafe
  <2>1. CASE FlushSafe("place") \/ FlushScoped("place")
    BY <2>1, TypeFlush
  <2>2. CASE /\ ~FlushSafe("place") /\ ~FlushScoped("place")
             /\ Barrier(next)
    <3>1. next \in Call /\ next + 1 \in 1..(N + 1)
      BY <1>4, NAssumption DEF PlaceUnsafe, TypeOK, Call
    <3>2. /\ Launch({next}, FALSE, "top") /\ next' = next + 1
          /\ UNCHANGED <<safeGroup, scopedBatch, activeKeys>>
      BY <1>4, <2>2 DEF PlaceUnsafe
    <3>3. {next} \in SUBSET Call
      BY <3>1
    <3>4. /\ next' \in 1..(N + 1) /\ safeGroup' \subseteq Call
          /\ scopedBatch' \subseteq Call /\ activeKeys' \subseteq Keys
      BY <3>1, <3>2 DEF TypeOK
    <3> QED
      BY <3>2, <3>3, <3>4, TypeLaunch
  <2>3. CASE /\ ~FlushSafe("place") /\ ~FlushScoped("place")
             /\ ~Barrier(next)
    <3>1. PlanOf(next) \subseteq Keys
      BY DEF PlanOf, WritePlan
    <3>2. next \in Call /\ next + 1 \in 1..(N + 1)
      BY <1>4, NAssumption DEF PlaceUnsafe, TypeOK, Call
    <3>3. /\ scopedBatch' = scopedBatch \cup {next}
          /\ activeKeys' = activeKeys \cup PlanOf(next)
          /\ next' = next + 1 /\ pc' = "top"
          /\ UNCHANGED <<ret, safeGroup, calls, limiter, pipeline, signals>>
      BY <1>4, <2>3 DEF PlaceUnsafe
    <3> QED
      BY <3>1, <3>2, <3>3 DEF TypeOK, limiter, pipeline, signals
  <2> QED
    BY <2>1, <2>2, <2>3
<1>5. CASE GroupSettled
  <2>1. /\ pc' = ret /\ flushing' = {} /\ limited' = FALSE /\ active' = 0
        /\ UNCHANGED <<ret, next, safeGroup, scopedBatch, activeKeys, calls,
                       st, verdict, outcome, body, aborted, steered>>
    BY <1>5 DEF GroupSettled, pipeline, signals
  <2>2. flushing' \subseteq Call /\ active' \in Int
    BY <2>1
  <2>3. pc' \in {"start", "top", "place", "settle", "drain", "done"}
    BY <2>1 DEF TypeOK
  <2> QED
    BY <2>1, <2>2, <2>3 DEF TypeOK
<1>6. CASE Drain
  <2>1. CASE FlushSafe("drain") \/ FlushScoped("drain")
    BY <2>1, TypeFlush
  <2>2. CASE ~FlushSafe("drain") /\ ~FlushScoped("drain")
    BY <1>6, <2>2 DEF TypeOK, Drain, limiter, pipeline, signals
  <2> QED
    BY <2>1, <2>2
<1> QED
  BY <1>1, <1>2, <1>3, <1>4, <1>5, <1>6 DEF Orchestrate

LEMMA TypeSignals ==
    ASSUME TypeOK, Abort \/ Steer
    PROVE  TypeOK'
  BY ZenonT(60) DEF TypeOK, Abort, Steer, CutRunning, orchestrator, limiter, Results

-----------------------------------------------------------------------------
(* The order argument.                                                     *)

\* A step that only advances calls keeps the groups and the order: a call
\* stays settled, and stays idle exactly if it was.
LEMMA QuietStep ==
    ASSUME TypeOK, GroupInv, PendingInv, ConflictOrder,
           UNCHANGED <<calls, pc, ret, next, safeGroup, scopedBatch,
                       activeKeys, flushing>>,
           aborted => aborted',
           \A j \in Call : /\ st'[j] = "idle" <=> st[j] = "idle"
                           /\ st[j] = "settled" => st'[j] = "settled"
    PROVE  GroupInv' /\ PendingInv' /\ ConflictOrder'
<1>1. GroupInv'
  BY DEF TypeOK, GroupInv, Settled
<1>2. PendingInv'
  BY DEF PendingInv, Safe, Barrier, PlanOf
<1>3. ConflictOrder'
  BY DEF ConflictOrder, Begun, Settled, Conflict, Safe, Barrier, PlanOf
<1> QED
  BY <1>1, <1>2, <1>3

\* Launching a group of calls that may run together, when everything before
\* them has settled, keeps the order.
LEMMA LaunchOrder ==
    ASSUME TypeOK, ConflictOrder, NEW g \in SUBSET Call, NEW lim \in BOOLEAN,
           NEW r \in {"top", "place", "drain"}, Launch(g, lim, r),
           \A i \in g : st[i] = "idle",
           \A i, j \in g : i # j => ~Conflict(i, j),
           \A j \in g, i \in Call : i < j => Settled(i) \/ i \in g
    PROVE  ConflictOrder'
<1>1. /\ \A i \in Call : IF i \in g THEN st'[i] \in {"gating", "waiting"}
                                    ELSE st'[i] = st[i]
      /\ calls' = calls
  BY LaunchFacts
<1>2. \A i, j \in Call : Conflict(i, j)' <=> Conflict(i, j)
  BY <1>1 DEF Conflict, Safe, Barrier, PlanOf
<1> SUFFICES ASSUME NEW i \in Call, NEW j \in Call, i < j, Begun(j)',
                    ~Conflict(i, j)' = FALSE
             PROVE  Settled(i)'
  BY DEF ConflictOrder
<1>3. Conflict(i, j)
  BY <1>2
<1>4. CASE j \in g
  <2>1. i # j
    BY DEF Call
  <2>2. i \notin g
    BY <1>3, <1>4, <2>1
  <2> QED
    BY <1>1, <1>4, <2>2 DEF Settled
<1>5. CASE j \notin g
  <2>1. Begun(j)
    BY <1>1, <1>5 DEF Begun
  <2>2. Settled(i)
    BY <1>3, <2>1 DEF ConflictOrder
  <2> QED
    BY <1>1, <2>2 DEF Settled
<1> QED
  BY <1>4, <1>5

\* Two members of a pending group may run together.
LEMMA PendingCompatible ==
    ASSUME PendingInv
    PROVE  /\ \A i, j \in safeGroup : i # j => ~Conflict(i, j)
           /\ \A i, j \in scopedBatch : i # j => ~Conflict(i, j)
  BY DEF PendingInv, Conflict

\* Pipeline steps and signals are quiet.
LEMMA OrderPipeline ==
    ASSUME TypeOK, GroupInv, PendingInv, ConflictOrder,
           NEW i \in Call, Pipeline(i)
    PROVE  GroupInv' /\ PendingInv' /\ ConflictOrder'
<1> USE DEF TypeOK, orchestrator, limiter, signals
<1>1. CASE TakeSlot(i)
  BY <1>1, QuietStep DEF TakeSlot
<1>2. CASE Blocked(i)
  <2>1. "blocked" \in Results /\ st[i] = "gating" /\ Record(i, "blocked")
    BY <1>2 DEF Results, Blocked
  <2> QED
    BY <2>1, RecordFacts, QuietStep
<1>3. CASE RefuseCut(i)
  BY <1>3, QuietStep DEF RefuseCut, Decide
<1>4. CASE RefuseArguments(i)
  BY <1>4, QuietStep DEF RefuseArguments, Decide
<1>5. CASE StartBody(i)
  BY <1>5, QuietStep DEF StartBody
<1>6. CASE BodyReturns(i)
  BY <1>6, QuietStep DEF BodyReturns, Decide
<1>7. CASE LateReturn(i)
  BY <1>7, QuietStep DEF LateReturn
<1>8. CASE HardTimeout(i)
  BY <1>8, QuietStep DEF HardTimeout, Decide
<1>9. CASE PostHooksDone(i)
  <2>1. verdict[i] \in Results /\ st[i] = "posting" /\ Record(i, verdict[i])
    BY <1>9 DEF PostHooksDone
  <2> QED
    BY <2>1, RecordFacts, QuietStep
<1> QED
  BY <1>1, <1>2, <1>3, <1>4, <1>5, <1>6, <1>7, <1>8, <1>9 DEF Pipeline

LEMMA OrderSignals ==
    ASSUME TypeOK, GroupInv, PendingInv, ConflictOrder, Abort \/ Steer
    PROVE  GroupInv' /\ PendingInv' /\ ConflictOrder'
<1>1. /\ UNCHANGED <<calls, pc, ret, next, safeGroup, scopedBatch,
                     activeKeys, flushing>>
      /\ aborted => aborted'
      /\ \A j \in Call : /\ st'[j] = "idle" <=> st[j] = "idle"
                         /\ st[j] = "settled" => st'[j] = "settled"
  BY DEF TypeOK, Abort, Steer, CutRunning, orchestrator, limiter
<1> QED
  BY <1>1, QuietStep

\* Flushing the pending group: it is the only one, and everything else behind
\* `next` has settled.
LEMMA OrderFlush ==
    ASSUME TypeOK, GroupInv, PendingInv, ConflictOrder,
           NEW r \in {"place", "drain"}, pc = r,
           FlushSafe(r) \/ FlushScoped(r)
    PROVE  GroupInv' /\ PendingInv' /\ ConflictOrder'
<1>1. PICK g \in SUBSET Call, lim \in BOOLEAN :
         /\ Launch(g, lim, r)
         /\ \/ g = safeGroup /\ scopedBatch = {}
            \/ g = scopedBatch /\ safeGroup = {}
         /\ safeGroup' = {} /\ scopedBatch' = {} /\ next' = next
  <2>1. CASE FlushSafe(r)
    <3> DEFINE lim == Cardinality(safeGroup) > 1
    <3>1. lim \in BOOLEAN
      OBVIOUS
    <3>2. /\ Launch(safeGroup, lim, r) /\ safeGroup \in SUBSET Call
          /\ scopedBatch = {} /\ safeGroup' = {} /\ scopedBatch' = {}
          /\ next' = next
      BY <2>1 DEF FlushSafe, TypeOK, GroupInv
    <3> HIDE DEF lim
    <3> QED
      BY <3>1, <3>2
  <2>2. CASE FlushScoped(r)
    BY <2>2 DEF FlushScoped, TypeOK, GroupInv
  <2> QED
    BY <2>1, <2>2
<1>2. /\ pc' = "settle" /\ ret' = r /\ flushing' = g
      /\ \A i \in Call : IF i \in g THEN st'[i] \in {"gating", "waiting"}
                                    ELSE st'[i] = st[i]
      /\ UNCHANGED <<calls, aborted>>
  BY <1>1, LaunchFacts
<1>3. flushing = {}
  BY DEF GroupInv
<1>4. \A i \in g : i < next /\ st[i] = "idle"
  BY <1>1 DEF GroupInv
<1>5. \A i \in Call : IF i < next THEN Settled(i) \/ i \in g ELSE st[i] = "idle"
  BY <1>1, <1>3 DEF GroupInv
<1>6. GroupInv'
  <2>1. \A i \in Call : IF i < next THEN Settled(i)' \/ i \in g
                        ELSE st'[i] = "idle"
    BY <1>2, <1>4, <1>5 DEF Settled
  <2>2. /\ r = "drain" => aborted \/ next = N + 1
        /\ r = "place" => next <= N
    BY DEF GroupInv
  <2> QED
    BY <1>1, <1>2, <1>4, <2>1, <2>2 DEF GroupInv
<1>7. PendingInv'
  BY <1>1 DEF PendingInv
<1>8. ConflictOrder'
  <2>1. \A i, j \in g : i # j => ~Conflict(i, j)
    BY <1>1, PendingCompatible
  <2>2. \A j \in g, i \in Call : i < j => Settled(i) \/ i \in g
    <3> SUFFICES ASSUME NEW j \in g, NEW i \in Call, i < j
                 PROVE  Settled(i) \/ i \in g
      OBVIOUS
    <3>1. i < next
      BY <1>4, NAssumption DEF Call, TypeOK
    <3> QED
      BY <1>5, <3>1
  <2> QED
    BY <1>1, <1>4, <2>1, <2>2, LaunchOrder
<1> QED
  BY <1>6, <1>7, <1>8

\* The first group of the batch: the parallel-safe prefix.
LEMMA OrderStart ==
    ASSUME TypeOK, GroupInv, PendingInv, ConflictOrder, Start
    PROVE  GroupInv' /\ PendingInv' /\ ConflictOrder'
<1>1. PICK k \in 1..(N + 1) :
         /\ \A i \in 1..(k - 1) : Safe(i)
         /\ next' = k
         /\ \/ /\ k = 1 /\ pc' = "top"
               /\ UNCHANGED <<ret, limiter, calls, pipeline, signals>>
            \/ k > 1 /\ Launch(1..(k - 1), k > 2, "top")
  BY DEF Start
<1>2. /\ next = 1 /\ pc = "start"
      /\ UNCHANGED <<safeGroup, scopedBatch, activeKeys>>
  BY DEF Start, GroupInv
<1>3. flushing = {} /\ safeGroup = {} /\ scopedBatch = {}
  <2>1. flushing = {}
    BY <1>2 DEF GroupInv
  <2>2. \A i \in safeGroup \cup scopedBatch : i < 1 /\ i \in Call
    BY <1>2 DEF GroupInv, TypeOK
  <2> QED
    BY <2>1, <2>2, NAssumption DEF Call
<1>4. \A i \in Call : st[i] = "idle"
  <2>1. \A i \in Call : ~(i < 1)
    BY DEF Call
  <2> QED
    BY <1>2, <2>1 DEF GroupInv
<1>5. CASE k = 1 /\ pc' = "top"
           /\ UNCHANGED <<ret, limiter, calls, pipeline, signals>>
  <2>1. UNCHANGED <<calls, st, flushing>>
    BY <1>5 DEF limiter, pipeline
  <2>2. GroupInv'
    <3>1. next' = next
      BY <1>1, <1>2, <1>5
    <3>2. \A i \in Call : IF i < next THEN FALSE ELSE st[i] = "idle"
      BY <1>2, <1>4 DEF Call
    <3> QED
      BY <1>2, <1>3, <1>5, <2>1, <3>1, <3>2 DEF GroupInv
  <2>3. PendingInv'
    BY <1>2, <1>3 DEF PendingInv
  <2>4. ConflictOrder'
    BY <1>4, <2>1 DEF ConflictOrder, Begun
  <2> QED
    BY <2>2, <2>3, <2>4
<1>6. CASE k > 1 /\ Launch(1..(k - 1), k > 2, "top")
  <2> DEFINE g == 1..(k - 1)
             lim == k > 2
  <2>1. /\ g \in SUBSET Call /\ lim \in BOOLEAN /\ Launch(g, lim, "top")
        /\ \A i \in Call : i < k <=> i \in g
    BY <1>6, NAssumption DEF Call
  <2>2. \A i \in g : Safe(i)
    BY <1>1
  <2> HIDE DEF g, lim
  <2>3. /\ pc' = "settle" /\ ret' = "top" /\ flushing' = g
        /\ \A i \in Call : IF i \in g THEN st'[i] \in {"gating", "waiting"}
                                      ELSE st'[i] = st[i]
    BY <2>1, LaunchFacts
  <2>4. GroupInv'
    BY <1>1, <1>2, <1>3, <1>4, <2>1, <2>3 DEF GroupInv
  <2>5. PendingInv'
    BY <1>2, <1>3 DEF PendingInv
  <2>6. ConflictOrder'
    <3>1. \A i, j \in g : i # j => ~Conflict(i, j)
      BY <2>2 DEF Conflict
    <3>2. \A j \in g, i \in Call : i < j => Settled(i) \/ i \in g
      BY <2>1, NAssumption DEF Call
    <3> QED
      BY <1>4, <2>1, <3>1, <3>2, LaunchOrder
  <2> QED
    BY <2>4, <2>5, <2>6
<1> QED
  BY <1>1, <1>5, <1>6

\* A call that joins a pending group: nothing moves in the pipeline.
LEMMA OrderPlace ==
    ASSUME TypeOK, GroupInv, PendingInv, ConflictOrder, pc = "place",
           pc' = "top", next' = next + 1,
           UNCHANGED <<ret, calls, st, flushing>>,
           \/ /\ Safe(next) /\ scopedBatch = {}
              /\ safeGroup' = safeGroup \cup {next}
              /\ UNCHANGED <<scopedBatch, activeKeys>>
           \/ /\ ~Safe(next) /\ ~Barrier(next) /\ safeGroup = {}
              /\ PlanOf(next) \cap activeKeys = {}
              /\ scopedBatch' = scopedBatch \cup {next}
              /\ activeKeys' = activeKeys \cup PlanOf(next)
              /\ UNCHANGED safeGroup
    PROVE  GroupInv' /\ PendingInv' /\ ConflictOrder'
<1>1. next \in Call /\ next <= N /\ flushing = {}
  <2>1. next <= N /\ flushing = {}
    BY DEF GroupInv
  <2> QED
    BY <2>1, NAssumption DEF TypeOK, Call
<1>2. st[next] = "idle"
  BY <1>1 DEF GroupInv, Call
<1>3. \A i \in Call : i < next + 1 <=> i < next \/ i = next
  BY <1>1 DEF Call
<1>4. GroupInv'
  <2>1. /\ \A i \in safeGroup' \cup scopedBatch' :
              i < next + 1 /\ st[i] = "idle"
        /\ safeGroup' = {} \/ scopedBatch' = {}
    <3>1. \A i \in safeGroup \cup scopedBatch :
             i \in Call /\ i < next /\ st[i] = "idle"
      BY DEF GroupInv, TypeOK
    <3> QED
      BY <1>1, <1>2, <1>3, <3>1
  <2>2. \A i \in Call :
           IF i < next + 1
           THEN Settled(i) \/ i \in flushing \cup safeGroup' \cup scopedBatch'
           ELSE st[i] = "idle"
    <3> SUFFICES ASSUME NEW i \in Call
                 PROVE  IF i < next + 1
                        THEN Settled(i) \/ i \in flushing \cup safeGroup'
                                                 \cup scopedBatch'
                        ELSE st[i] = "idle"
      OBVIOUS
    <3>1. IF i < next
          THEN Settled(i) \/ i \in flushing \cup safeGroup \cup scopedBatch
          ELSE st[i] = "idle"
      BY DEF GroupInv
    <3> QED
      BY <1>3, <3>1
  <2> QED
    BY <1>1, <2>1, <2>2 DEF GroupInv, Settled
<1>5. PendingInv'
  <2>1. CASE Safe(next)
    BY <2>1 DEF PendingInv, Safe, Barrier, PlanOf
  <2>2. CASE ~Safe(next)
    <3>1. \A i \in scopedBatch : PlanOf(i) \cap PlanOf(next) = {}
      BY <2>2 DEF PendingInv
    <3>2. /\ \A i \in Call : /\ Safe(i)' <=> Safe(i)
                             /\ PlanOf(i)' = PlanOf(i)
                             /\ Barrier(i)' <=> Barrier(i)
          /\ scopedBatch' = scopedBatch \cup {next} /\ safeGroup' = {}
          /\ activeKeys' = activeKeys \cup PlanOf(next)
      BY <2>2 DEF Safe, PlanOf, Barrier
    <3>3. scopedBatch \subseteq Call
      BY DEF TypeOK
    <3> QED
      BY <1>1, <2>2, <3>1, <3>2, <3>3 DEF PendingInv
  <2> QED
    BY <2>1, <2>2
<1>6. ConflictOrder'
  BY DEF ConflictOrder, Begun, Settled, Conflict, Safe, Barrier, PlanOf
<1> QED
  BY <1>4, <1>5, <1>6

\* A barrier runs alone, after everything before it.
LEMMA OrderBarrier ==
    ASSUME TypeOK, GroupInv, PendingInv, ConflictOrder, pc = "place",
           safeGroup = {}, scopedBatch = {}, next' = next + 1,
           Launch({next}, FALSE, "top"),
           UNCHANGED <<safeGroup, scopedBatch, activeKeys>>
    PROVE  GroupInv' /\ PendingInv' /\ ConflictOrder'
<1>1. next \in Call /\ next <= N /\ flushing = {}
  <2>1. next <= N /\ flushing = {}
    BY DEF GroupInv
  <2> QED
    BY <2>1, NAssumption DEF TypeOK, Call
<1>2. {next} \in SUBSET Call /\ st[next] = "idle"
  BY <1>1 DEF GroupInv, Call
<1>3. /\ pc' = "settle" /\ ret' = "top" /\ flushing' = {next}
      /\ \A i \in Call : IF i \in {next} THEN st'[i] \in {"gating", "waiting"}
                                         ELSE st'[i] = st[i]
  BY <1>2, LaunchFacts
<1>4. \A i \in Call : IF i < next THEN Settled(i) ELSE st[i] = "idle"
  BY <1>1 DEF GroupInv
<1>5. GroupInv'
  <2>1. \A i \in Call : IF i < next + 1 THEN Settled(i)' \/ i \in {next}
                                        ELSE st'[i] = "idle"
    BY <1>1, <1>3, <1>4 DEF Settled, Call
  <2> QED
    BY <1>1, <1>3, <2>1 DEF GroupInv, Call
<1>6. PendingInv'
  BY DEF PendingInv
<1>7. ConflictOrder'
  <2>1. \A j \in {next}, i \in Call : i < j => Settled(i) \/ i \in {next}
    BY <1>4
  <2> QED
    BY <1>2, <2>1, LaunchOrder
<1> QED
  BY <1>5, <1>6, <1>7

LEMMA OrderOrchestrate ==
    ASSUME TypeOK, GroupInv, PendingInv, ConflictOrder, Orchestrate
    PROVE  GroupInv' /\ PendingInv' /\ ConflictOrder'
<1>1. CASE Start
  BY <1>1, OrderStart
<1>2. CASE LoopTop
  <2>1. /\ pc = "top" /\ pc' = IF aborted \/ next > N THEN "drain" ELSE "place"
        /\ UNCHANGED <<calls, ret, next, safeGroup, scopedBatch, activeKeys,
                       flushing, st, aborted>>
    BY <1>2 DEF LoopTop, limiter, pipeline, signals
  <2>2. next > N => next = N + 1
    BY NAssumption DEF TypeOK
  <2>3. ~(next > N) => next <= N
    BY NAssumption DEF TypeOK
  <2>4. GroupInv'
    BY <2>1, <2>2, <2>3 DEF GroupInv, Settled
  <2>5. PendingInv'
    BY <2>1 DEF PendingInv, Safe, Barrier, PlanOf
  <2>6. ConflictOrder'
    BY <2>1 DEF ConflictOrder, Begun, Settled, Conflict, Safe, Barrier, PlanOf
  <2> QED
    BY <2>4, <2>5, <2>6
<1>3. CASE PlaceSafe
  <2>1. CASE FlushScoped("place")
    BY <1>3, <2>1, OrderFlush DEF PlaceSafe
  <2>2. CASE ~FlushScoped("place")
    BY <1>3, <2>2, OrderPlace DEF PlaceSafe, limiter, pipeline
  <2> QED
    BY <2>1, <2>2
<1>4. CASE PlaceUnsafe
  <2>1. CASE FlushSafe("place") \/ FlushScoped("place")
    BY <1>4, <2>1, OrderFlush DEF PlaceUnsafe
  <2>2. CASE ~FlushSafe("place") /\ ~FlushScoped("place") /\ ~Barrier(next)
    BY <1>4, <2>2, OrderPlace DEF PlaceUnsafe, limiter, pipeline
  <2>3. CASE ~FlushSafe("place") /\ ~FlushScoped("place") /\ Barrier(next)
    BY <1>4, <2>3, OrderBarrier DEF PlaceUnsafe
  <2> QED
    BY <2>1, <2>2, <2>3
<1>5. CASE GroupSettled
  <2>1. /\ pc = "settle" /\ pc' = ret /\ flushing' = {}
        /\ \A i \in flushing : st[i] = "settled"
        /\ UNCHANGED <<calls, ret, next, safeGroup, scopedBatch, activeKeys,
                       st, aborted>>
    BY <1>5 DEF GroupSettled, pipeline, signals
  <2>2. ret \in {"top", "place", "drain"} /\ flushing \subseteq Call
    BY DEF TypeOK
  <2>3. ret = "place" => next <= N
    BY <2>1 DEF GroupInv
  <2>4. GroupInv'
    BY <2>1, <2>2, <2>3 DEF GroupInv, Settled
  <2>5. PendingInv'
    BY <2>1 DEF PendingInv, Safe, Barrier, PlanOf
  <2>6. ConflictOrder'
    BY <2>1 DEF ConflictOrder, Begun, Settled, Conflict, Safe, Barrier, PlanOf
  <2> QED
    BY <2>4, <2>5, <2>6
<1>6. CASE Drain
  <2>1. CASE FlushSafe("drain") \/ FlushScoped("drain")
    BY <1>6, <2>1, OrderFlush DEF Drain
  <2>2. CASE ~FlushSafe("drain") /\ ~FlushScoped("drain")
    <3>1. /\ pc = "drain" /\ pc' = "done"
          /\ safeGroup = {} /\ scopedBatch = {}
          /\ UNCHANGED <<calls, ret, next, safeGroup, scopedBatch, activeKeys,
                         flushing, st, aborted>>
      BY <1>6, <2>2 DEF Drain, limiter, pipeline, signals
    <3>2. GroupInv'
      BY <3>1 DEF GroupInv, Settled
    <3>3. PendingInv'
      BY <3>1 DEF PendingInv, Safe, Barrier, PlanOf
    <3>4. ConflictOrder'
      BY <3>1 DEF ConflictOrder, Begun, Settled, Conflict, Safe, Barrier,
                  PlanOf
    <3> QED
      BY <3>2, <3>3, <3>4
  <2> QED
    BY <2>1, <2>2
<1> QED
  BY <1>1, <1>2, <1>3, <1>4, <1>5, <1>6 DEF Orchestrate

-----------------------------------------------------------------------------
(* Bodies and outcomes.                                                    *)

\* A step that only moves calls forward inside the batch: no body, no result
\* and no signal changes, and only calls that have not reached their gate move.
LEMMA BodyQuiet ==
    ASSUME TypeOK, BodyInv, OverlapOnlyByTimeout,
           UNCHANGED <<calls, verdict, outcome, body, aborted, steered>>,
           \A i \in Call :
              \/ st'[i] = st[i]
              \/ /\ st[i] \in {"idle", "waiting", "woken"}
                 /\ st'[i] \in {"idle", "waiting", "woken", "gating"}
    PROVE  BodyInv' /\ OverlapOnlyByTimeout'
<1>1. BodyInv'
  BY DEF BodyInv, Settled
<1>2. OverlapOnlyByTimeout'
  BY DEF OverlapOnlyByTimeout, Conflict, Safe, Barrier, PlanOf
<1> QED
  BY <1>1, <1>2

\* A step of the orchestrator moves no call, or launches a group of idle ones.
LEMMA OrchestrateShape ==
    ASSUME TypeOK, GroupInv, Orchestrate
    PROVE  /\ UNCHANGED <<calls, verdict, outcome, body, aborted, steered>>
           /\ \/ st' = st
              \/ \E g \in SUBSET Call, lim \in BOOLEAN,
                    r \in {"top", "place", "drain"} :
                    /\ Launch(g, lim, r)
                    /\ \A i \in g : st[i] = "idle"
<1>1. CASE Start
  <2>1. PICK k \in 1..(N + 1) :
          \/ UNCHANGED <<ret, limiter, calls, pipeline, signals>>
          \/ Launch(1..(k - 1), k > 2, "top")
    BY <1>1 DEF Start
  <2>2. 1..(k - 1) \in SUBSET Call /\ (k > 2) \in BOOLEAN
    BY NAssumption DEF Call
  <2>3. \A i \in Call : ~(i < 1)
    BY DEF Call
  <2>4. \A i \in 1..(k - 1) : st[i] = "idle"
    BY <1>1, <2>2, <2>3 DEF Start, GroupInv
  <2>5. CASE UNCHANGED <<ret, limiter, calls, pipeline, signals>>
    BY <2>5 DEF pipeline, signals
  <2>6. CASE Launch(1..(k - 1), k > 2, "top")
    <3> DEFINE g == 1..(k - 1)
               lim == k > 2
    <3>1. g \in SUBSET Call /\ lim \in BOOLEAN /\ Launch(g, lim, "top")
          /\ \A i \in g : st[i] = "idle"
      BY <2>2, <2>4, <2>6
    <3> HIDE DEF g, lim
    <3>2. UNCHANGED <<calls, verdict, outcome, body, aborted, steered>>
      BY <3>1 DEF Launch, signals
    <3> QED
      BY <3>1, <3>2
  <2> QED
    BY <2>1, <2>5, <2>6
<1>2. CASE LoopTop
  BY <1>2 DEF LoopTop, pipeline, signals
<1>3. CASE GroupSettled
  BY <1>3 DEF GroupSettled, pipeline, signals
<1>4. ASSUME NEW r \in {"place", "drain"}, FlushSafe(r) \/ FlushScoped(r)
      PROVE  /\ UNCHANGED <<calls, verdict, outcome, body, aborted, steered>>
             /\ \E g \in SUBSET Call, lim \in BOOLEAN :
                   /\ Launch(g, lim, r)
                   /\ \A i \in g : st[i] = "idle"
  <2>1. CASE FlushSafe(r)
    <3> DEFINE lim == Cardinality(safeGroup) > 1
    <3>1. lim \in BOOLEAN
      OBVIOUS
    <3>2. /\ Launch(safeGroup, lim, r) /\ safeGroup \in SUBSET Call
          /\ \A i \in safeGroup : st[i] = "idle"
      BY <2>1 DEF FlushSafe, TypeOK, GroupInv
    <3> HIDE DEF lim
    <3>3. UNCHANGED <<calls, verdict, outcome, body, aborted, steered>>
      BY <3>2 DEF Launch, signals
    <3> QED
      BY <3>1, <3>2, <3>3
  <2>2. CASE FlushScoped(r)
    <3>1. /\ Launch(scopedBatch, FALSE, r) /\ scopedBatch \in SUBSET Call
          /\ \A i \in scopedBatch : st[i] = "idle"
      BY <2>2 DEF FlushScoped, TypeOK, GroupInv
    <3>2. UNCHANGED <<calls, verdict, outcome, body, aborted, steered>>
      BY <3>1 DEF Launch, signals
    <3> QED
      BY <3>1, <3>2
  <2> QED
    BY <1>4, <2>1, <2>2
<1>5. CASE PlaceSafe
  <2>1. CASE FlushScoped("place")
    BY <1>4, <2>1
  <2>2. CASE ~FlushScoped("place")
    BY <1>5, <2>2 DEF PlaceSafe, pipeline, signals
  <2> QED
    BY <2>1, <2>2
<1>6. CASE PlaceUnsafe
  <2>1. CASE FlushSafe("place") \/ FlushScoped("place")
    BY <1>4, <2>1
  <2>2. CASE /\ ~FlushSafe("place") /\ ~FlushScoped("place")
             /\ ~Barrier(next)
    BY <1>6, <2>2 DEF PlaceUnsafe, pipeline, signals
  <2>3. CASE /\ ~FlushSafe("place") /\ ~FlushScoped("place")
             /\ Barrier(next)
    <3>1. Launch({next}, FALSE, "top")
      BY <1>6, <2>3 DEF PlaceUnsafe
    <3>2. next <= N
      BY <1>6 DEF PlaceUnsafe, GroupInv
    <3>3. next \in Call /\ ~(next < next)
      BY <3>2, NAssumption DEF TypeOK, Call
    <3>4. st[next] = "idle"
      BY <3>3 DEF GroupInv
    <3>5. UNCHANGED <<calls, verdict, outcome, body, aborted, steered>>
      BY <3>1 DEF Launch, signals
    <3>6. {next} \in SUBSET Call /\ \A i \in {next} : st[i] = "idle"
      BY <3>3, <3>4
    <3> QED
      BY <3>1, <3>5, <3>6
  <2> QED
    BY <2>1, <2>2, <2>3
<1>7. CASE Drain
  <2>1. CASE FlushSafe("drain") \/ FlushScoped("drain")
    BY <1>4, <2>1
  <2>2. CASE ~FlushSafe("drain") /\ ~FlushScoped("drain")
    BY <1>7, <2>2 DEF Drain, pipeline, signals
  <2> QED
    BY <2>1, <2>2
<1> QED
  BY <1>1, <1>2, <1>3, <1>5, <1>6, <1>7 DEF Orchestrate

LEMMA BodyOrchestrate ==
    ASSUME TypeOK, GroupInv, BodyInv, OverlapOnlyByTimeout, Orchestrate
    PROVE  BodyInv' /\ OverlapOnlyByTimeout'
<1>1. /\ UNCHANGED <<calls, verdict, outcome, body, aborted, steered>>
      /\ \/ st' = st
         \/ \E g \in SUBSET Call, lim \in BOOLEAN,
               r \in {"top", "place", "drain"} :
               /\ Launch(g, lim, r)
               /\ \A i \in g : st[i] = "idle"
  BY OrchestrateShape
<1>2. CASE st' = st
  BY <1>1, <1>2, BodyQuiet
<1>3. CASE st' # st
  <2>1. PICK g \in SUBSET Call, lim \in BOOLEAN,
             r \in {"top", "place", "drain"} :
               Launch(g, lim, r) /\ \A i \in g : st[i] = "idle"
    BY <1>1, <1>3
  <2>2. \A i \in Call : IF i \in g THEN st'[i] \in {"gating", "waiting"}
                                   ELSE st'[i] = st[i]
    <3>1. Launch(g, lim, r)
      BY <2>1
    <3> QED
      BY <3>1, LaunchFacts, Zenon
  <2>3. \A i \in Call :
           \/ st'[i] = st[i]
           \/ /\ st[i] \in {"idle", "waiting", "woken"}
              /\ st'[i] \in {"idle", "waiting", "woken", "gating"}
    BY <2>1, <2>2
  <2> QED
    BY <1>1, <2>3, BodyQuiet
<1> QED
  BY <1>2, <1>3

LEMMA BodyPipeline ==
    ASSUME TypeOK, ConflictOrder, BodyInv, OverlapOnlyByTimeout,
           NEW i \in Call, Pipeline(i)
    PROVE  BodyInv' /\ OverlapOnlyByTimeout'
<1>c. calls' = calls => \A x, y \in Call : Conflict(x, y)' <=> Conflict(x, y)
  BY DEF Conflict, Safe, Barrier, PlanOf
<1>1. CASE TakeSlot(i)
  <2>1. /\ UNCHANGED <<calls, verdict, outcome, body, aborted, steered>>
        /\ \A j \in Call :
              \/ st'[j] = st[j]
              \/ /\ st[j] \in {"idle", "waiting", "woken"}
                 /\ st'[j] \in {"idle", "waiting", "woken", "gating"}
    BY <1>1 DEF TakeSlot, TypeOK, signals
  <2> QED
    BY <2>1, BodyQuiet
<1>2. CASE Blocked(i)
  <2>1. /\ "blocked" \in Results /\ st[i] = "gating" /\ Record(i, "blocked")
        /\ UNCHANGED <<verdict, body>>
    BY <1>2 DEF Results, Blocked
  <2>2. /\ outcome' = [outcome EXCEPT ![i] = "blocked"]
        /\ st'[i] = "settled"
        /\ \A j \in Call \ {i} : \/ st'[j] = st[j]
                                 \/ st[j] = "waiting" /\ st'[j] = "woken"
        /\ UNCHANGED <<calls, aborted, steered>>
    BY <2>1, RecordFacts
  <2>3. body[i] = "unborn"
    BY <2>1 DEF BodyInv
  <2>4. BodyInv'
    BY <2>1, <2>2, <2>3 DEF BodyInv, Settled, TypeOK
  <2>5. OverlapOnlyByTimeout'
    BY <1>c, <2>1, <2>2 DEF OverlapOnlyByTimeout
  <2> QED
    BY <2>4, <2>5
<1>3. CASE RefuseCut(i)
  <2>1. /\ st[i] = "gating" /\ st' = [st EXCEPT ![i] = "posting"]
        /\ verdict' = [verdict EXCEPT ![i] = "aborted"]
        /\ aborted \/ steered
        /\ UNCHANGED <<calls, outcome, body, aborted, steered>>
    BY <1>3 DEF RefuseCut, Decide, signals
  <2>2. body[i] = "unborn"
    BY <2>1 DEF BodyInv
  <2>3. BodyInv'
    BY <2>1, <2>2 DEF BodyInv, Settled, TypeOK
  <2>4. OverlapOnlyByTimeout'
    BY <1>c, <2>1, <2>2 DEF OverlapOnlyByTimeout, TypeOK
  <2> QED
    BY <2>3, <2>4
<1>4. CASE RefuseArguments(i)
  <2>1. /\ st[i] = "gating" /\ st' = [st EXCEPT ![i] = "posting"]
        /\ verdict' = [verdict EXCEPT ![i] = "failed"]
        /\ UNCHANGED <<calls, outcome, body, aborted, steered>>
    BY <1>4 DEF RefuseArguments, Decide, signals
  <2>2. body[i] = "unborn"
    BY <2>1 DEF BodyInv
  <2>3. BodyInv'
    BY <2>1, <2>2 DEF BodyInv, Settled, TypeOK
  <2>4. OverlapOnlyByTimeout'
    BY <1>c, <2>1, <2>2 DEF OverlapOnlyByTimeout, TypeOK
  <2> QED
    BY <2>3, <2>4
<1>5. CASE StartBody(i)
  <2>1. /\ st[i] = "gating" /\ st' = [st EXCEPT ![i] = "running"]
        /\ body' = [body EXCEPT ![i] = "running"]
        /\ ~aborted /\ ~steered
        /\ UNCHANGED <<calls, verdict, outcome, aborted, steered>>
    BY <1>5 DEF StartBody, signals
  <2>2. BodyInv'
    BY <2>1 DEF BodyInv, Settled, TypeOK
  <2>3. OverlapOnlyByTimeout'
    <3> SUFFICES ASSUME NEW x \in Call, NEW y \in Call, x < y,
                        body'[x] = "running", body'[y] = "running",
                        Conflict(x, y)
                 PROVE  verdict'[x] = "timeout"
      BY <1>c, <2>1 DEF OverlapOnlyByTimeout
    <3>1. x # y
      BY DEF Call
    <3>2. CASE y = i
      <4>1. Settled(x)
        BY <2>1, <3>2 DEF ConflictOrder, Begun
      <4>2. body[x] = "running"
        BY <2>1, <3>1, <3>2 DEF TypeOK
      <4> QED
        BY <2>1, <4>1, <4>2 DEF BodyInv, Settled
    <3>3. CASE x = i
      <4>1. body[y] = "running"
        BY <2>1, <3>1, <3>3 DEF TypeOK
      <4>2. Begun(y)
        BY <4>1 DEF BodyInv, Begun
      <4>3. Settled(i)
        BY <3>3, <4>2 DEF ConflictOrder
      <4> QED
        BY <2>1, <4>3 DEF Settled
    <3>4. CASE x # i /\ y # i
      BY <2>1, <3>4 DEF OverlapOnlyByTimeout, TypeOK
    <3> QED
      BY <3>2, <3>3, <3>4
  <2> QED
    BY <2>2, <2>3
<1>6. CASE BodyReturns(i)
  <2>1. PICK result \in {"ok", "failed"} :
          /\ st[i] = "running" /\ st' = [st EXCEPT ![i] = "posting"]
          /\ verdict' = [verdict EXCEPT ![i] = result]
          /\ body' = [body EXCEPT ![i] = "done"]
          /\ UNCHANGED <<calls, outcome, aborted, steered>>
    BY <1>6 DEF BodyReturns, Decide, signals
  <2>2. BodyInv'
    BY <2>1 DEF BodyInv, Settled, TypeOK
  <2>3. OverlapOnlyByTimeout'
    BY <1>c, <2>1 DEF OverlapOnlyByTimeout, TypeOK
  <2> QED
    BY <2>2, <2>3
<1>7. CASE LateReturn(i)
  <2>1. /\ body' = [body EXCEPT ![i] = "done"]
        /\ body[i] = "running" /\ st[i] # "running"
        /\ UNCHANGED <<calls, st, verdict, outcome, aborted, steered>>
    BY <1>7 DEF LateReturn, signals
  <2>2. BodyInv'
    BY <2>1 DEF BodyInv, Settled, TypeOK
  <2>3. OverlapOnlyByTimeout'
    BY <1>c, <2>1 DEF OverlapOnlyByTimeout, TypeOK
  <2> QED
    BY <2>2, <2>3
<1>8. CASE HardTimeout(i)
  <2>1. /\ st[i] = "running" /\ st' = [st EXCEPT ![i] = "posting"]
        /\ verdict' = [verdict EXCEPT ![i] = "timeout"]
        /\ UNCHANGED <<calls, outcome, body, aborted, steered>>
    BY <1>8 DEF HardTimeout, Decide, signals
  <2>2. BodyInv'
    BY <2>1 DEF BodyInv, Settled, TypeOK
  <2>3. OverlapOnlyByTimeout'
    BY <1>c, <2>1 DEF OverlapOnlyByTimeout, TypeOK
  <2> QED
    BY <2>2, <2>3
<1>9. CASE PostHooksDone(i)
  <2>1. /\ verdict[i] \in Results /\ st[i] = "posting"
        /\ Record(i, verdict[i]) /\ UNCHANGED <<verdict, body>>
    BY <1>9 DEF PostHooksDone, TypeOK
  <2>2. /\ outcome' = [outcome EXCEPT ![i] = verdict[i]]
        /\ st'[i] = "settled"
        /\ \A j \in Call \ {i} : \/ st'[j] = st[j]
                                 \/ st[j] = "waiting" /\ st'[j] = "woken"
        /\ UNCHANGED <<calls, aborted, steered>>
    BY <2>1, RecordFacts
  <2>3. verdict[i] # "none"
    BY <2>1 DEF BodyInv
  <2>4. BodyInv'
    BY <2>1, <2>2, <2>3 DEF BodyInv, Settled, TypeOK
  <2>5. OverlapOnlyByTimeout'
    BY <1>c, <2>1, <2>2 DEF OverlapOnlyByTimeout
  <2> QED
    BY <2>4, <2>5
<1> QED
  BY <1>1, <1>2, <1>3, <1>4, <1>5, <1>6, <1>7, <1>8, <1>9 DEF Pipeline

LEMMA BodySignals ==
    ASSUME TypeOK, ConflictOrder, BodyInv, OverlapOnlyByTimeout,
           Abort \/ Steer
    PROVE  BodyInv' /\ OverlapOnlyByTimeout'
<1>1. /\ st' = [i \in Call |-> IF st[i] = "running" THEN "posting" ELSE st[i]]
      /\ verdict' = [i \in Call |-> IF st[i] = "running" THEN "aborted"
                                    ELSE verdict[i]]
      /\ aborted' \/ steered'
      /\ aborted => aborted'
      /\ steered => steered'
      /\ UNCHANGED <<calls, outcome, body>>
  BY DEF Abort, Steer, CutRunning
<1>2. BodyInv'
  BY <1>1 DEF BodyInv, Settled, TypeOK
<1>3. OverlapOnlyByTimeout'
  <2> SUFFICES ASSUME NEW x \in Call, NEW y \in Call, x < y,
                      body[x] = "running", body[y] = "running",
                      Conflict(x, y)
               PROVE  verdict'[x] = "timeout"
    BY <1>1 DEF OverlapOnlyByTimeout, Conflict, Safe, Barrier, PlanOf
  <2>1. Begun(y)
    BY DEF BodyInv, Begun
  <2>2. st[x] = "settled"
    BY <2>1 DEF ConflictOrder, Settled
  <2>3. verdict[x] = "timeout"
    BY DEF OverlapOnlyByTimeout
  <2> QED
    BY <1>1, <2>2, <2>3
<1> QED
  BY <1>2, <1>3

-----------------------------------------------------------------------------
(* The inductive invariant, and what follows from it.                      *)

LEMMA InvInit == Init => IInv
<1> SUFFICES ASSUME Init PROVE IInv
  OBVIOUS
<1>1. TypeOK
  BY TypeInit
<1>2. GroupInv
  <2>1. \A i \in Call : ~(i < 1)
    BY DEF Call
  <2> QED
    BY <2>1 DEF Init, GroupInv
<1>3. PendingInv
  BY DEF Init, PendingInv
<1>4. BodyInv
  BY DEF Init, BodyInv, Settled
<1>5. ConflictOrder /\ OverlapOnlyByTimeout
  BY DEF Init, ConflictOrder, OverlapOnlyByTimeout, Begun
<1> QED
  BY <1>1, <1>2, <1>3, <1>4, <1>5 DEF IInv

LEMMA InvStutter == IInv /\ UNCHANGED vars => IInv'
<1> SUFFICES ASSUME IInv, UNCHANGED vars PROVE IInv'
  OBVIOUS
<1> USE DEF vars, orchestrator, limiter, pipeline, signals
<1>1. TypeOK'
  BY DEF IInv, TypeOK
<1>2. GroupInv' /\ PendingInv' /\ ConflictOrder'
  BY QuietStep DEF IInv
<1>3. BodyInv' /\ OverlapOnlyByTimeout'
  BY BodyQuiet DEF IInv
<1> QED
  BY <1>1, <1>2, <1>3 DEF IInv

LEMMA InvNext == IInv /\ [Next]_vars => IInv'
<1> SUFFICES ASSUME IInv, [Next]_vars PROVE IInv'
  OBVIOUS
<1> USE DEF IInv
<1>1. CASE Orchestrate
  <2>1. pc = "place" => next <= N
    BY DEF GroupInv
  <2> QED
    BY <1>1, <2>1, TypeOrchestrate, OrderOrchestrate, BodyOrchestrate
<1>2. ASSUME NEW i \in Call, Pipeline(i) PROVE IInv'
  BY <1>2, TypePipeline, OrderPipeline, BodyPipeline
<1>3. CASE Abort \/ Steer
  BY <1>3, TypeSignals, OrderSignals, BodySignals
<1>4. CASE Terminated
  BY <1>4, InvStutter DEF Terminated
<1>5. CASE UNCHANGED vars
  BY <1>5, InvStutter
<1> QED
  BY <1>1, <1>2, <1>3, <1>4, <1>5 DEF Next

LEMMA Invariance == Spec => []IInv
  BY InvInit, InvNext, PTL DEF Spec

\* Every reachable state of runOrchestratedBatch's model is well typed.
THEOREM TypeCorrect == Spec => []TypeOK
<1>1. IInv => TypeOK
  BY DEF IInv
<1> QED
  BY <1>1, Invariance, PTL

\* The serial loop's grouping keeps the order of conflicting calls: for every
\* response, whatever is aborted, steered, blocked or timed out.
THEOREM OrderKept == Spec => []ConflictOrder
<1>1. IInv => ConflictOrder
  BY DEF IInv
<1> QED
  BY <1>1, Invariance, PTL

\* Conflicting tool bodies overlap only after the hard timeout of the earlier
\* one: neither abort nor steering lets a later call start.
THEOREM OverlapBounded == Spec => []OverlapOnlyByTimeout
<1>1. IInv => OverlapOnlyByTimeout
  BY DEF IInv
<1> QED
  BY <1>1, Invariance, PTL

\* The keys of a scoped write are those of all its paths.
LEMMA PlanHasKeys ==
    ASSUME TypeOK, NEW i \in Call, ~Barrier(i), ~Safe(i),
           NEW p \in calls[i].paths, KeyOf[p] # NoKey
    PROVE  p \in Paths /\ KeyOf[p] \in PlanOf(i)
<1>1. calls[i] \in CallProfile
  BY ProfileAssumption DEF TypeOK
<1>2. p \in Paths
  BY <1>1 DEF CallProfile
<1>3. KeyOf[p] \in Keys
  BY <1>2, PathAssumption
<1> QED
  BY <1>2, <1>3 DEF Barrier, PlanOf, WritePlan

\* Where no file has two keys, two running writes never have a file in common,
\* for any number of calls and paths: the plan of a write names all its files.
THEOREM FilesSerialized ==
    ASSUME KeysTellFiles PROVE Spec => []SameFileSerialized
<1>1. IInv => SameFileSerialized
  <2> SUFFICES ASSUME IInv, NEW i \in Call, NEW j \in Call, i # j,
                      body[i] = "running", body[j] = "running",
                      ~Safe(i), ~Safe(j), ~Barrier(i), ~Barrier(j),
                      verdict[i] # "timeout", verdict[j] # "timeout",
                      NEW f, f \in Files(i), f \in Files(j)
               PROVE  FALSE
    BY DEF SameFileSerialized
  <2>1. PlanOf(i) \cap PlanOf(j) = {}
    <3>1. i < j \/ j < i
      BY NAssumption DEF Call
    <3>2. ~Conflict(i, j) \/ ~Conflict(j, i)
      BY <3>1 DEF IInv, OverlapOnlyByTimeout
    <3> QED
      BY <3>2 DEF Conflict
  <2>2. PICK p \in calls[i].paths : KeyOf[p] # NoKey /\ f = FileOf[p]
    BY DEF Files
  <2>3. PICK q \in calls[j].paths : KeyOf[q] # NoKey /\ f = FileOf[q]
    BY DEF Files
  <2>4. p \in Paths /\ KeyOf[p] \in PlanOf(i)
    BY <2>2, PlanHasKeys DEF IInv
  <2>5. q \in Paths /\ KeyOf[q] \in PlanOf(j)
    BY <2>3, PlanHasKeys DEF IInv
  <2>6. KeyOf[p] = KeyOf[q]
    BY <2>2, <2>3, <2>4, <2>5 DEF KeysTellFiles
  <2> QED
    BY <2>1, <2>4, <2>5, <2>6
<1> QED
  BY <1>1, Invariance, PTL

\* What runOrchestratedBatch returns is a prefix of the calls, all of them
\* unless the run was aborted.
THEOREM PrefixReturned == Spec => []OutcomesAreAPrefix
<1>1. IInv => OutcomesAreAPrefix
  <2> SUFFICES ASSUME IInv, pc = "done" PROVE
        /\ \A i, j \in Call : i < j /\ Settled(j) => Settled(i)
        /\ ~aborted => \A i \in Call : Settled(i)
        /\ \A i \in Call : Settled(i) <=> outcome[i] # "none"
    BY DEF OutcomesAreAPrefix
  <2>1. /\ \A i \in Call : IF i < next THEN Settled(i) ELSE st[i] = "idle"
        /\ aborted \/ next = N + 1
    BY DEF IInv, GroupInv
  <2>2. \A i, j \in Call : i < j /\ Settled(j) => Settled(i)
    <3> SUFFICES ASSUME NEW i \in Call, NEW j \in Call, i < j, Settled(j)
                 PROVE  Settled(i)
      OBVIOUS
    <3>1. j < next
      BY <2>1 DEF Settled
    <3>2. i < next
      BY <3>1, NAssumption DEF IInv, TypeOK, Call
    <3> QED
      BY <2>1, <3>2
  <2>3. ~aborted => \A i \in Call : Settled(i)
    BY <2>1, NAssumption DEF Call
  <2>4. \A i \in Call : Settled(i) <=> outcome[i] # "none"
    BY DEF IInv, BodyInv
  <2> QED
    BY <2>2, <2>3, <2>4
<1> QED
  BY <1>1, Invariance, PTL

\* After the abort or the steering signal no tool starts, in any group.
THEOREM CutStopsStarts == Spec => NoStartAfterCut
<1>1. IInv /\ [Next]_vars =>
        [aborted \/ steered =>
           \A i \in Call : body[i] = "unborn" => body'[i] = "unborn"]_vars
  <2> SUFFICES ASSUME IInv, Next, aborted \/ steered
               PROVE  \A i \in Call : body[i] = "unborn" => body'[i] = "unborn"
    BY DEF vars
  <2>1. CASE Orchestrate
    <3>1. body' = body
      BY <2>1 DEF Orchestrate, Start, LoopTop, PlaceSafe, PlaceUnsafe,
                  GroupSettled, Drain, FlushSafe, FlushScoped, Launch, pipeline
    <3> QED
      BY <3>1
  <2>2. ASSUME NEW j \in Call, Pipeline(j)
        PROVE  \A i \in Call : body[i] = "unborn" => body'[i] = "unborn"
    <3>1. \/ body' = body
          \/ body[j] = "running" /\ body' = [body EXCEPT ![j] = "done"]
          \/ st[j] = "running" /\ body' = [body EXCEPT ![j] = "done"]
      BY <2>2 DEF Pipeline, TakeSlot, Blocked, RefuseCut, RefuseArguments,
                  StartBody, BodyReturns, LateReturn, HardTimeout,
                  PostHooksDone
    <3>2. st[j] = "running" => body[j] # "unborn"
      BY DEF IInv, BodyInv
    <3> QED
      BY <3>1, <3>2 DEF IInv, TypeOK
  <2>3. CASE Abort \/ Steer \/ Terminated
    BY <2>3 DEF Abort, Steer, CutRunning, Terminated, vars, pipeline
  <2> QED
    BY <2>1, <2>2, <2>3 DEF Next
<1> QED
  BY <1>1, Invariance, PTL DEF Spec, NoStartAfterCut

\* An outcome is recorded once; a late result, a second signal or a later
\* group does not touch it, and its call does not run again.
THEOREM OutcomesAreFinal == Spec => OutcomeIsFinal
<1>1. IInv /\ [Next]_vars =>
        [\A i \in Call : outcome[i] # "none" =>
            /\ outcome'[i] = outcome[i]
            /\ st'[i] = "settled"
            /\ body'[i] = "running" => body[i] = "running"]_vars
  <2> SUFFICES ASSUME IInv, Next, NEW i \in Call, outcome[i] # "none"
               PROVE  /\ outcome'[i] = outcome[i]
                      /\ st'[i] = "settled"
                      /\ body'[i] = "running" => body[i] = "running"
    BY DEF vars
  <2>1. st[i] = "settled"
    BY DEF IInv, BodyInv, Settled
  <2>2. CASE Orchestrate
    <3>1. /\ UNCHANGED <<outcome, body>>
      BY <2>2 DEF Orchestrate, Start, LoopTop, PlaceSafe, PlaceUnsafe,
                  GroupSettled, Drain, FlushSafe, FlushScoped, Launch, pipeline
    <3>2. GroupInv' /\ BodyInv' /\ TypeOK'
      BY InvNext DEF IInv
    <3>3. st'[i] = "settled"
      BY <3>1, <3>2 DEF BodyInv, Settled
    <3> QED
      BY <3>1, <3>3
  <2>3. ASSUME NEW j \in Call, Pipeline(j)
        PROVE  /\ outcome'[i] = outcome[i]
               /\ st'[i] = "settled"
               /\ body'[i] = "running" => body[i] = "running"
    <3>1. CASE Blocked(j) \/ PostHooksDone(j)
      <4>1. PICK result \in Results : Record(j, result)
        BY <3>1 DEF Blocked, PostHooksDone, Results, IInv, TypeOK
      <4>2. j # i /\ UNCHANGED body
        BY <2>1, <3>1 DEF Blocked, PostHooksDone
      <4>3. /\ outcome' = [outcome EXCEPT ![j] = result]
            /\ \A k \in Call \ {j} : \/ st'[k] = st[k]
                                     \/ st[k] = "waiting" /\ st'[k] = "woken"
        BY <4>1, RecordFacts DEF IInv
      <4> QED
        BY <2>1, <4>2, <4>3 DEF IInv, TypeOK
    <3>2. CASE \/ TakeSlot(j) \/ RefuseCut(j) \/ RefuseArguments(j)
               \/ StartBody(j) \/ BodyReturns(j) \/ HardTimeout(j)
      <4>1. j # i
        BY <2>1, <3>2 DEF TakeSlot, RefuseCut, RefuseArguments, StartBody,
                          BodyReturns, HardTimeout
      <4> QED
        BY <2>1, <3>2, <4>1
           DEF TakeSlot, RefuseCut, RefuseArguments, StartBody, BodyReturns,
               HardTimeout, Decide, IInv, TypeOK
    <3>3. CASE LateReturn(j)
      BY <2>1, <3>3 DEF LateReturn, IInv, TypeOK
    <3> QED
      BY <2>3, <3>1, <3>2, <3>3 DEF Pipeline
  <2>4. CASE Abort \/ Steer
    BY <2>1, <2>4 DEF Abort, Steer, CutRunning
  <2>5. CASE Terminated
    BY <2>1, <2>5 DEF Terminated, vars, pipeline
  <2> QED
    BY <2>2, <2>3, <2>4, <2>5 DEF Next
<1> QED
  BY <1>1, Invariance, PTL DEF Spec, OutcomeIsFinal

-----------------------------------------------------------------------------
(* The scheduling implements OrderedBatch.                                 *)

\* Every launched or woken call is free: what it conflicts with is resolved.
LEMMA BegunIsFree ==
    ASSUME IInv, NEW j \in Call, Begun(j)', ConflictOrder', calls' = calls,
           pc # "done",
           \A i \in Call : st'[i] = "settled" => st[i] = "settled"
    PROVE  Ordered!Free(j)
<1>1. \A i \in Call : Conflict(i, j)' <=> Conflict(i, j)
  BY DEF Conflict, Safe, Barrier, PlanOf
<1>2. \A i \in Call : i < j /\ Conflict(i, j) => st[i] = "settled"
  BY <1>1 DEF ConflictOrder, Settled
<1>3. \A i \in Call : i < j /\ <<i, j>> \in abstractConflict
                        => abstractStatus[i] = "resolved"
  BY <1>2 DEF abstractConflict, abstractStatus, AbstractStatus
<1> QED
  BY <1>3 DEF Ordered!Free, Ordered!Call, Call

\* Calls that enter the pipeline together, nothing else changing, are one
\* Begin step.
LEMMA BeginStep ==
    ASSUME IInv, NEW s \in SUBSET Call, ConflictOrder', calls' = calls,
           aborted' = aborted, pc # "done", pc' # "done",
           \A i \in Call \ s : abstractStatus'[i] = abstractStatus[i],
           \A i \in s : /\ st[i] \in {"idle", "waiting", "woken"}
                        /\ st'[i] = "gating",
           \A i \in Call : st'[i] = "settled" => st[i] = "settled"
    PROVE  Ordered!Begin
<1>1. abstractConflict' = abstractConflict
  BY DEF abstractConflict, Conflict, Safe, Barrier, PlanOf
<1>2. \A j \in s : abstractStatus[j] = "pending" /\ Ordered!Free(j)
  <2> TAKE j \in s
  <2>1. abstractStatus[j] = "pending"
    BY DEF abstractStatus, AbstractStatus
  <2>2. Ordered!Free(j)
    BY BegunIsFree DEF Begun
  <2> QED
    BY <2>1, <2>2
<1>3. abstractStatus' = [i \in Call |-> IF i \in s THEN "active"
                                         ELSE abstractStatus[i]]
  <2>1. \A i \in s : AbstractStatus(i)' = "active"
    BY DEF AbstractStatus
  <2>2. abstractStatus' = [i \in Call |-> AbstractStatus(i)']
    BY DEF abstractStatus
  <2> QED
    BY <2>1, <2>2
<1> QED
  BY <1>1, <1>2, <1>3 DEF Ordered!Begin, Ordered!Call, Call

LEMMA StutterStep ==
    ASSUME calls' = calls, aborted' = aborted, pc' = "done" <=> pc = "done",
           TypeOK, TypeOK',
           \A i \in Call :
              \/ st'[i] = st[i]
              \/ {st[i], st'[i]} \subseteq {"gating", "running", "posting"}
              \/ {st[i], st'[i]} \subseteq {"idle", "waiting", "woken"}
    PROVE  UNCHANGED Ordered!vars
<1>1. abstractConflict' = abstractConflict
  BY DEF abstractConflict, Conflict, Safe, Barrier, PlanOf
<1>2. \A i \in Call : AbstractStatus(i)' = AbstractStatus(i)
  BY DEF AbstractStatus
<1>3. abstractStatus' = abstractStatus
  BY <1>2 DEF abstractStatus
<1> QED
  BY <1>1, <1>3 DEF Ordered!vars

LEMMA OrchestrateRefines ==
    ASSUME IInv, IInv', Orchestrate
    PROVE  [Ordered!Next]_Ordered!vars
<1> USE DEF IInv
<1>1. pc # "done"
  BY DEF Orchestrate, Start, LoopTop, PlaceSafe, PlaceUnsafe, GroupSettled,
         Drain
<1>2. /\ UNCHANGED <<calls, verdict, outcome, body, aborted, steered>>
      /\ \/ st' = st
         \/ \E g \in SUBSET Call, lim \in BOOLEAN,
               r \in {"top", "place", "drain"} :
               /\ Launch(g, lim, r)
               /\ \A i \in g : st[i] = "idle"
  BY OrchestrateShape
<1>3. CASE pc' = "done"
  <2>1. st' = st
    BY <1>2, <1>3 DEF Launch
  <2>2. /\ \A i \in Call : IF i < next' THEN Settled(i)' ELSE st'[i] = "idle"
        /\ aborted' \/ next' = N + 1
    BY <1>3 DEF GroupInv
  <2>3. /\ \A i \in Call : IF i < next' THEN st[i] = "settled"
                           ELSE st[i] = "idle"
        /\ aborted \/ next' = N + 1
    BY <1>2, <2>1, <2>2 DEF Settled
  <2>4. next' \in 1..(N + 1)
    BY DEF TypeOK
  <2>5. CASE aborted
    <3> DEFINE k == next' - 1
    <3>1. k \in 0..N /\ \A i \in Call : i < next' <=> i <= k
      <4>1. ASSUME NEW n \in 1..(N + 1)
            PROVE  n - 1 \in 0..N /\ \A i \in Call : i < n <=> i <= n - 1
        BY NAssumption DEF Call
      <4> QED
        BY <2>4, <4>1
    <3> HIDE DEF k
    <3>2. \A i \in Call :
             abstractStatus[i] = IF i <= k THEN "resolved" ELSE "pending"
      BY <1>1, <2>3, <3>1 DEF abstractStatus, AbstractStatus
    <3>3. abstractStatus' = [i \in Call |-> IF i <= k THEN "resolved"
                                            ELSE "skipped"]
      <4>1. \A i \in Call : AbstractStatus(i)' = IF i <= k THEN "resolved"
                                                 ELSE "skipped"
        BY <1>3, <2>1, <2>3, <3>1 DEF AbstractStatus
      <4> QED
        BY <4>1 DEF abstractStatus
    <3>4. abstractConflict' = abstractConflict
      BY <1>2 DEF abstractConflict, Conflict, Safe, Barrier, PlanOf
    <3> QED
      BY <1>2, <2>5, <3>1, <3>2, <3>3, <3>4
         DEF Ordered!Next, Ordered!Close, Ordered!Call, Call
  <2>6. CASE ~aborted
    <3>1. \A i \in Call : st[i] = "settled"
      BY <2>3, <2>4, <2>6, NAssumption DEF Call
    <3>2. \A i \in Call : AbstractStatus(i)' = AbstractStatus(i)
      BY <2>1, <3>1 DEF AbstractStatus
    <3>3. abstractStatus' = abstractStatus
      BY <3>2 DEF abstractStatus
    <3>4. abstractConflict' = abstractConflict
      BY <1>2 DEF abstractConflict, Conflict, Safe, Barrier, PlanOf
    <3> QED
      BY <1>2, <3>3, <3>4 DEF Ordered!vars
  <2> QED
    BY <2>5, <2>6
<1>4. CASE pc' # "done" /\ st' = st
  BY <1>1, <1>2, <1>4, StutterStep
<1>5. CASE pc' # "done" /\ st' # st
  <2>1. PICK g \in SUBSET Call, lim \in BOOLEAN,
             r \in {"top", "place", "drain"} :
               Launch(g, lim, r) /\ \A i \in g : st[i] = "idle"
    BY <1>2, <1>5
  <2>2. /\ Admitted(g, lim) \in SUBSET Call /\ Admitted(g, lim) \subseteq g
        /\ \A i \in Call : st'[i] = IF i \notin g THEN st[i]
                                    ELSE IF i \in Admitted(g, lim)
                                         THEN "gating" ELSE "waiting"
    BY <2>1 DEF Launch, Admitted
  <2>3. \A i \in Call \ Admitted(g, lim) :
           abstractStatus'[i] = abstractStatus[i]
    BY <1>1, <1>5, <2>1, <2>2 DEF abstractStatus, AbstractStatus
  <2>4. \A i \in Call : st'[i] = "settled" => st[i] = "settled"
    BY <2>2
  <2>5. \A i \in Admitted(g, lim) :
           st[i] \in {"idle", "waiting", "woken"} /\ st'[i] = "gating"
    BY <2>1, <2>2
  <2>6. Ordered!Begin
    BY <1>1, <1>2, <1>5, <2>2, <2>3, <2>4, <2>5, BeginStep
  <2> QED
    BY <2>6 DEF Ordered!Next
<1> QED
  BY <1>3, <1>4, <1>5

\* The abstract step of each pipeline step: a woken call begins, a recorded
\* one resolves, and the rest is internal.
LEMMA PipelineRefines ==
    ASSUME IInv, IInv', NEW i \in Call, Pipeline(i)
    PROVE  [Ordered!Next]_Ordered!vars
<1> USE DEF IInv
<1>1. UNCHANGED <<calls, pc, aborted>>
  BY DEF Pipeline, TakeSlot, Blocked, RefuseCut, RefuseArguments, StartBody,
         BodyReturns, LateReturn, HardTimeout, PostHooksDone, Record, Decide,
         orchestrator, signals
<1>2. \A j \in Call : st[j] \notin {"idle", "settled"} => pc # "done"
  BY DEF GroupInv, Settled
<1>3. CASE TakeSlot(i)
  <2>1. st[i] = "woken" /\ st' = [st EXCEPT ![i] = "gating"]
    BY <1>3 DEF TakeSlot
  <2>2. pc # "done" /\ pc' # "done"
    BY <1>1, <1>2, <2>1
  <2>3. /\ {i} \in SUBSET Call
        /\ \A j \in {i} : /\ st[j] \in {"idle", "waiting", "woken"}
                          /\ st'[j] = "gating"
        /\ \A j \in Call \ {i} : st'[j] = st[j]
        /\ \A j \in Call : st'[j] = "settled" => st[j] = "settled"
    BY <2>1 DEF TypeOK
  <2>4. \A j \in Call \ {i} : abstractStatus'[j] = abstractStatus[j]
    BY <1>1, <2>3 DEF abstractStatus, AbstractStatus
  <2>5. Ordered!Begin
    BY <1>1, <2>2, <2>3, <2>4, BeginStep
  <2> QED
    BY <2>5 DEF Ordered!Next
<1>4. CASE Blocked(i) \/ PostHooksDone(i)
  <2>1. PICK result \in Results : Record(i, result)
    BY <1>4 DEF Blocked, PostHooksDone, Results, TypeOK
  <2>2. st[i] \in {"gating", "posting"}
    BY <1>4 DEF Blocked, PostHooksDone
  <2>3. /\ st'[i] = "settled"
        /\ \A j \in Call \ {i} : \/ st'[j] = st[j]
                                 \/ st[j] = "waiting" /\ st'[j] = "woken"
    BY <2>1, RecordFacts
  <2>4. pc # "done" /\ pc' # "done"
    BY <1>1, <1>2, <2>2
  <2>5. abstractStatus[i] = "active"
    BY <2>2 DEF abstractStatus, AbstractStatus
  <2>6. abstractStatus' = [abstractStatus EXCEPT ![i] = "resolved"]
    <3>1. \A j \in Call : AbstractStatus(j)' = IF j = i THEN "resolved"
                                               ELSE AbstractStatus(j)
      BY <2>3, <2>4 DEF AbstractStatus
    <3> QED
      BY <3>1 DEF abstractStatus
  <2>7. abstractConflict' = abstractConflict
    BY <1>1 DEF abstractConflict, Conflict, Safe, Barrier, PlanOf
  <2> QED
    BY <1>1, <2>5, <2>6, <2>7
       DEF Ordered!Next, Ordered!Resolve, Ordered!Call, Call
<1>5. CASE \/ RefuseCut(i) \/ RefuseArguments(i) \/ StartBody(i)
           \/ BodyReturns(i) \/ LateReturn(i) \/ HardTimeout(i)
  <2>1. \A j \in Call :
           \/ st'[j] = st[j]
           \/ {st[j], st'[j]} \subseteq {"gating", "running", "posting"}
    BY <1>5 DEF RefuseCut, RefuseArguments, StartBody, BodyReturns,
                LateReturn, HardTimeout, Decide, TypeOK
  <2> QED
    BY <1>1, <2>1, StutterStep
<1> QED
  BY <1>3, <1>4, <1>5 DEF Pipeline

LEMMA SignalsRefine ==
    ASSUME IInv, IInv', Abort \/ Steer
    PROVE  [Ordered!Next]_Ordered!vars
<1> USE DEF IInv
<1>1. /\ UNCHANGED <<calls, pc>>
      /\ \A i \in Call :
            \/ st'[i] = st[i]
            \/ {st[i], st'[i]} \subseteq {"gating", "running", "posting"}
      /\ aborted' = aborted \/ aborted' = TRUE
  BY DEF Abort, Steer, CutRunning, orchestrator, TypeOK
<1>2. CASE aborted' = aborted
  BY <1>1, <1>2, StutterStep
<1>3. CASE aborted' = TRUE
  <2>1. abstractConflict' = abstractConflict
    BY <1>1 DEF abstractConflict, Conflict, Safe, Barrier, PlanOf
  <2>2. \A i \in Call : AbstractStatus(i)' = AbstractStatus(i)
    BY <1>1 DEF AbstractStatus
  <2>3. abstractStatus' = abstractStatus
    BY <2>2 DEF abstractStatus
  <2> QED
    BY <1>3, <2>1, <2>3 DEF Ordered!Next, Ordered!Cut
<1> QED
  BY <1>1, <1>2, <1>3

\* runOrchestratedBatch implements the order the runner relies on.
THEOREM Refinement == Spec => ImplementsOrder
<1>1. Init => Ordered!Init
  <2> SUFFICES ASSUME Init PROVE Ordered!Init
    OBVIOUS
  <2>1. abstractConflict \in SUBSET (Ordered!Call \X Ordered!Call)
    BY DEF abstractConflict, Ordered!Call, Call
  <2>2. \A i \in Call : AbstractStatus(i) = "pending"
    BY DEF Init, AbstractStatus
  <2>3. abstractStatus = [i \in Ordered!Call |-> "pending"]
    BY <2>2 DEF abstractStatus, Ordered!Call, Call
  <2> QED
    BY <2>1, <2>3 DEF Init, Ordered!Init
<1>2. IInv /\ IInv' /\ [Next]_vars => [Ordered!Next]_Ordered!vars
  <2> SUFFICES ASSUME IInv, IInv', [Next]_vars
               PROVE  [Ordered!Next]_Ordered!vars
    OBVIOUS
  <2>1. CASE Orchestrate
    BY <2>1, OrchestrateRefines
  <2>2. ASSUME NEW i \in Call, Pipeline(i) PROVE [Ordered!Next]_Ordered!vars
    BY <2>2, PipelineRefines
  <2>3. CASE Abort \/ Steer
    BY <2>3, SignalsRefine
  <2>4. CASE Terminated \/ UNCHANGED vars
    <3>1. UNCHANGED <<calls, pc, st, aborted>>
      BY <2>4 DEF Terminated, vars, orchestrator, pipeline, signals
    <3> QED
      BY <3>1, StutterStep DEF IInv
  <2> QED
    BY <2>1, <2>2, <2>3, <2>4 DEF Next
<1> QED
  BY <1>1, <1>2, Invariance, PTL DEF Spec, ImplementsOrder, Ordered!Spec
=============================================================================
