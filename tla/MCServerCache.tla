---------------------------- MODULE MCServerCache ----------------------------
EXTENDS ServerCache, TLC
CONSTANTS u1, u2, v1, v2
Symmetry == Permutations(Users) \cup Permutations(Values)
=============================================================================
