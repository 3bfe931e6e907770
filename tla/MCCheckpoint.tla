---------------------------- MODULE MCCheckpoint ----------------------------
(* Checkpoint on small instances.                                           *)
EXTENDS Checkpoint, TLC

(* All files lie beneath every directory.                                   *)
Everything == [d \in Dirs |-> Files]

(* Nothing tells sessions, or files, or contents apart.                     *)
Symmetric ==
  Permutations(Sessions) \cup Permutations(Files) \cup Permutations(Contents)
=============================================================================
