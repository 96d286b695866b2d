------------------------- MODULE MCAccessAdmission -------------------------
EXTENDS AccessAdmission, TLC

Symmetry == Permutations(Requests) \cup Permutations(Clients)
=============================================================================
