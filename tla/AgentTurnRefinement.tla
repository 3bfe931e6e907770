------------------------ MODULE AgentTurnRefinement ------------------------
(* The injected messages of AgentTurn seen as MessageBox.                  *)
EXTENDS AgentTurn

boxTurn == IF ~isRunning THEN "none"
           ELSE IF interrupted \/ crashed THEN "cut" ELSE "whole"
boxBack == {m \in Msgs : fate[m] \in {"withdrawn", "returned"}}

Box == INSTANCE MessageBox WITH
    turn <- boxTurn,
    waiting <- queue,
    said <- memory,
    back <- boxBack

\* Host, runner and InjectedMessageQueue together keep what the user is
\* promised: every message accepted once, said in its place or given back, and
\* given back by a turn only if it was interrupted or has crashed.
ImplementsBox == Box!Spec
=============================================================================
