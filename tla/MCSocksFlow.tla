---------------------------- MODULE MCSocksFlow ----------------------------
(* Model-checking instance of SocksFlow over Runtime: one flow against the   *)
(* operations of two interchangeable accounts.                              *)
EXTENDS SocksFlow, TLC

Symmetry == Permutations(Users)
============================================================================
