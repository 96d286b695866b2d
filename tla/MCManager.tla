----------------------------- MODULE MCManager -----------------------------
(* Model-checking instance of Manager: two accounts, two snapshot and        *)
(* subscription generations, three leases, a short clock.                   *)
EXTENDS Manager
============================================================================
