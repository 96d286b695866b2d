--------------------------- MODULE MCSocksServer ---------------------------
(* Model-checking instance of SocksServer: three connections for two slots. *)
EXTENDS SocksServer
=============================================================================
