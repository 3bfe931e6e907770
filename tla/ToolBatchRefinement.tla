------------------------ MODULE ToolBatchRefinement ------------------------
(* The scheduling of ToolBatch seen as OrderedBatch.                       *)
EXTENDS ToolBatch

AbstractStatus(i) ==
    IF st[i] = "settled" THEN "resolved"
    ELSE IF st[i] \in {"gating", "running", "posting"} THEN "active"
    ELSE IF pc = "done" THEN "skipped" ELSE "pending"

abstractConflict == {p \in Call \X Call : Conflict(p[1], p[2])}
abstractStatus == [i \in Call |-> AbstractStatus(i)]

Ordered == INSTANCE OrderedBatch WITH
    conflict <- abstractConflict,
    status <- abstractStatus,
    cut <- aborted

\* runOrchestratedBatch implements the order the runner relies on: conflicting
\* calls one after the other, one result each, a missing suffix only after an
\* abort.
ImplementsOrder == Ordered!Spec
=============================================================================
