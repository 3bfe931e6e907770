---------------------------- MODULE MCAgentTurn ----------------------------
(***************************************************************************)
(* AgentTurn for TLC.  The messages are model values; they are not made    *)
(* symmetric, because the run checks liveness.                             *)
(***************************************************************************)
EXTENDS AgentTurnRefinement
=============================================================================
