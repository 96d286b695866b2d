------------------------- MODULE MCProviderRefresh -------------------------
(* Model-checking instance of ProviderRefresh over the store.                 *)
EXTENDS ProviderRefresh
=============================================================================
