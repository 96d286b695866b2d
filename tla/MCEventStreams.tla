--------------------------- MODULE MCEventStreams ---------------------------
(* Model-checking instance of EventStreams and the browser sessions under it. *)
EXTENDS EventStreams
=============================================================================
