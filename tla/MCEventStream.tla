--------------------------- MODULE MCEventStream ---------------------------
(* EventStream on a small instance. *)
EXTENDS EventStream
=============================================================================
