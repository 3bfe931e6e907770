---------------------------- MODULE ArrayFilter ----------------------------
(***************************************************************************)
(* Arrays as the program filters them: what a sequence holds, and what     *)
(* Array.prototype.filter keeps of it when its predicate is membership of  *)
(* a set.  A recursive function rather than SelectSeq, so that it can be   *)
(* reasoned about.                                                         *)
(***************************************************************************)
EXTENDS Integers, Sequences

Elements(s) == {s[i] : i \in 1..Len(s)}

Kept(s, S) ==
    LET upTo[i \in 0..Len(s)] ==
            IF i = 0 THEN <<>>
            ELSE IF s[i] \in S THEN Append(upTo[i - 1], s[i]) ELSE upTo[i - 1]
    IN  upTo[Len(s)]
=============================================================================
