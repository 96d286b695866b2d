------------------------- MODULE MCRefreshSchedule -------------------------
(* Model-checking instance of RefreshSchedule.                              *)
EXTENDS RefreshSchedule
============================================================================
