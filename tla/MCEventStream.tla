--------------------------- MODULE MCEventStream ---------------------------
(***************************************************************************)
(* EventStream for TLC.  With a ring of two events and four publications   *)
(* the ring overflows while the client is away, and two interruptions let  *)
(* a resumed stream be resumed again.                                      *)
(***************************************************************************)
EXTENDS EventStreamRefinement
=============================================================================
