--------------------------- MODULE MCSocksTunnel ---------------------------
(* Model-checking instance of SocksTunnel: short acknowledgement and IV that  *)
(* can still be split, and coalesced with what follows.                       *)
EXTENDS SocksTunnel
=============================================================================
