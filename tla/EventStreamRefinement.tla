----------------------- MODULE EventStreamRefinement -----------------------
(* The event stream of EventStream seen as an EventFeed.                   *)
EXTENDS EventStream

feedSound == faults \subseteq {"restart"}

Feed == INSTANCE EventFeed WITH
    last <- globalSeq,
    given <- got,
    gone <- evicted,
    since <- stale,
    sound <- feedSound

\* Bus, responses and subscribeSSE together keep what a client is promised: no
\* event twice, out of order or after a gap the ring could have filled, and the
\* cached run_result only before everything else.
ImplementsFeed == Feed!Spec
=============================================================================
