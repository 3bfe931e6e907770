---------------------------- MODULE MCAutoTurns ----------------------------
(***************************************************************************)
(* AutoTurns for TLC: a task, a scheduled job and a note that meet in a    *)
(* queue of two, a wakeup, two turns and two runs of the notifier at once. *)
(***************************************************************************)
EXTENDS AutoTurns

CONSTANTS t1, j1, n1, w1, s1, s2, r1, r2
MCTasks == {t1}
MCScheduled == {j1}
MCNotes == {n1}
MCWakeups == {w1}
MCSlots == {s1, s2}
MCRuns == {r1, r2}
=============================================================================
