---------------------------- MODULE OrderedBatch ----------------------------
(***************************************************************************)
(* What the runner may rely on when it hands a response's tool calls to    *)
(* runOrchestratedBatch, whatever the grouping, the limiter, the gates and *)
(* the timeouts do: a call becomes active only when every earlier call it  *)
(* conflicts with is resolved, each call is resolved at most once, and     *)
(* only an abort may leave calls out, a suffix of the response.            *)
(***************************************************************************)
EXTENDS Integers

CONSTANT N

VARIABLES
    conflict,   \* the pairs of calls that may not be active together
    status,     \* what has become of each call
    cut         \* the run was aborted

Call == 1..N

Init ==
    /\ conflict \in SUBSET (Call \X Call)
    /\ status = [i \in Call |-> "pending"]
    /\ cut = FALSE

Free(j) == \A i \in Call : i < j /\ <<i, j>> \in conflict
                             => status[i] = "resolved"

Begin ==
    \E s \in SUBSET Call :
        /\ \A j \in s : status[j] = "pending" /\ Free(j)
        /\ status' = [i \in Call |-> IF i \in s THEN "active" ELSE status[i]]
        /\ UNCHANGED <<conflict, cut>>

Resolve ==
    \E i \in Call :
        /\ status[i] = "active"
        /\ status' = [status EXCEPT ![i] = "resolved"]
        /\ UNCHANGED <<conflict, cut>>

Cut ==
    /\ cut' = TRUE
    /\ UNCHANGED <<conflict, status>>

Close ==
    /\ cut
    /\ \E k \in 0..N :
        /\ \A i \in Call : status[i] = IF i <= k THEN "resolved" ELSE "pending"
        /\ status' = [i \in Call |-> IF i <= k THEN "resolved" ELSE "skipped"]
    /\ UNCHANGED <<conflict, cut>>

Next == Begin \/ Resolve \/ Cut \/ Close

vars == <<conflict, status, cut>>

Spec == Init /\ [][Next]_vars
=============================================================================
