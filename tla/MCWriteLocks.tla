---------------------------- MODULE MCWriteLocks ----------------------------
(***************************************************************************)
(* WriteLocks for TLC: three calls on two files.  Three calls are needed   *)
(* for one to release another's lock while the third waits for it.         *)
(***************************************************************************)
EXTENDS WriteLocks, TLC

CONSTANTS w1, w2, w3
MCWriters == {w1, w2, w3}
\* Every call of an assembled tool has the same agent id; a tool wrapped for
\* an agent of its own has another.
OneAgent == [w \in MCWriters |-> "main"]
TwoAgents == w3 :> "sub" @@ OneAgent

MCFiles == {1, 2}
Kind(t, c) == [targets |-> t, chained |-> c]
\* edit or write_file, delete_file, and a rename.
MCKinds == {Kind({1}, TRUE), Kind({2}, FALSE), Kind({1, 2}, FALSE)}
=============================================================================
