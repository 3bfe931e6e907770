----------------------------- MODULE EventFeed -----------------------------
(***************************************************************************)
(* What a client of the event stream may rely on, whatever becomes of its  *)
(* connections: it is given the server's events in the order of their      *)
(* numbers, the cached run_result at most once and before everything else, *)
(* and each event only when it has all the earlier ones, from the first it *)
(* was given on, but for those forgotten while it was away.  A new server  *)
(* counts from one again, and what lies up to the position reached under   *)
(* the old one is not promised.                                            *)
(***************************************************************************)
EXTENDS Integers, Sequences

CONSTANT MaxSeq   \* bound: events of one incarnation of the server

VARIABLES
    last,     \* the number of the event published last
    given,    \* what the client was given: events with an id, and the cached result
    gone,     \* events forgotten before the client could ask for them
    since,    \* the position at which this server found the client
    sound     \* no message was split, no response ended, no cache came late

vars == <<last, given, gone, since, sound>>

Given    == {given[i].seq : i \in 1..Len(given)}
Streamed == {given[i].seq : i \in {j \in 1..Len(given) : given[j].id}}
Behind(s) == since < s /\ \A g \in Given : g < s

Init == last = 0 /\ given = <<>> /\ gone = {} /\ since = 0 /\ sound = TRUE

Publish ==
    /\ last < MaxSeq /\ last' = last + 1
    /\ UNCHANGED <<given, gone, since, sound>>

Forget ==
    /\ \E S \in SUBSET {s \in 1..last : Behind(s)} : gone' = gone \cup S
    /\ UNCHANGED <<last, given, since, sound>>

Give(s) ==
    /\ \A d \in Streamed : d < s
    /\ sound => \A d \in Streamed : \A e \in d..s :
                    d < e /\ since < e /\ e < s => e \in Given \cup gone
    /\ given' = Append(given, [seq |-> s, id |-> TRUE])
    /\ UNCHANGED <<last, gone, since, sound>>

GiveResult(s) ==
    /\ given = <<>> /\ since = 0
    /\ given' = Append(given, [seq |-> s, id |-> FALSE])
    /\ UNCHANGED <<last, gone, since, sound>>

Harm ==
    /\ sound' = FALSE
    /\ UNCHANGED <<last, given, gone, since>>

Restart ==
    /\ last' = 0 /\ given' = <<>> /\ gone' = {}
    /\ since' \in Given \cup {since}
    /\ \A p \in Given \cup {since} : p <= since'
    /\ UNCHANGED sound

Next ==
    \/ Publish \/ Forget \/ Harm \/ Restart
    \/ \E s \in 1..last : Give(s) \/ GiveResult(s)

Spec == Init /\ [][Next]_vars
=============================================================================
