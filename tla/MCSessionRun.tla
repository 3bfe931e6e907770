---------------------------- MODULE MCSessionRun ----------------------------
(***************************************************************************)
(* SessionRun for TLC: a turn, one that may overlap it, two approvals and  *)
(* a question.                                                             *)
(***************************************************************************)
EXTENDS SessionRun

CONSTANTS a1, a2, q1
MCTurns == 1..2
MCApprovals == {a1, a2}
MCQuestions == {q1}
=============================================================================
