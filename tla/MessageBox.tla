----------------------------- MODULE MessageBox -----------------------------
(***************************************************************************)
(* What the user may rely on when he types while a turn is running,        *)
(* whatever the model streams, the tools do, and steering and interrupts   *)
(* cut: a message is accepted by a running turn only, and once; it may be  *)
(* taken back until it is said; what is said is said in the order of       *)
(* typing, the hurried before the patient; a turn that nothing cuts ends   *)
(* with nothing left unsaid, and any other hands back what is left.        *)
(***************************************************************************)
EXTENDS ArrayFilter

CONSTANT Msgs

VARIABLES
    turn,       \* "none", "whole" or "cut"
    waiting,    \* the messages accepted and not yet said, in order
    said,       \* the messages in the conversation, in order
    back        \* the messages the user has back

vars == <<turn, waiting, said, back>>

Entry   == [id : Msgs, when : {"next-step", "turn-end"}]
Hurried == [id : Msgs, when : {"next-step"}]
Ids(q)  == [i \in 1..Len(q) |-> q[i].id]

Init == turn = "none" /\ waiting = <<>> /\ said = <<>> /\ back = {}

Begin ==
    /\ turn = "none"
    /\ turn' \in {"whole", "cut"}
    /\ UNCHANGED <<waiting, said, back>>

Cut ==
    /\ turn = "whole" /\ turn' = "cut"
    /\ UNCHANGED <<waiting, said, back>>

Accept(m) ==
    /\ turn # "none"
    /\ m \notin Elements(Ids(waiting)) \cup Elements(said) \cup back
    /\ \E w \in {"next-step", "turn-end"} :
          waiting' = Append(waiting, [id |-> m, when |-> w])
    /\ UNCHANGED <<turn, said, back>>

TakeBack ==
    \E i \in 1..Len(waiting) :
        /\ waiting' = SubSeq(waiting, 1, i - 1) \o SubSeq(waiting, i + 1, Len(waiting))
        /\ back' = back \cup {waiting[i].id}
        /\ UNCHANGED <<turn, said>>

Hurry ==
    /\ waiting' = [i \in 1..Len(waiting) |-> [waiting[i] EXCEPT !.when = "next-step"]]
    /\ UNCHANGED <<turn, said, back>>

\* Between two steps of a turn.
SayHurried ==
    /\ turn # "none"
    /\ said' = said \o Ids(Kept(waiting, Hurried))
    /\ waiting' = Kept(waiting, Entry \ Hurried)
    /\ UNCHANGED <<turn, back>>

\* The turn would end here, and goes on.
SayAll ==
    /\ turn = "whole"
    /\ said' = said \o Ids(waiting)
    /\ waiting' = <<>>
    /\ UNCHANGED <<turn, back>>

End ==
    /\ turn # "none"
    /\ turn = "whole" => waiting = <<>>
    /\ turn' = "none" /\ waiting' = <<>>
    /\ back' = back \cup Elements(Ids(waiting))
    /\ UNCHANGED said

Next ==
    \/ Begin \/ Cut \/ TakeBack \/ Hurry \/ SayHurried \/ SayAll \/ End
    \/ \E m \in Msgs : Accept(m)

Spec == Init /\ [][Next]_vars
=============================================================================
