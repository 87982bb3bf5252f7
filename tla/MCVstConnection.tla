--------------------------- MODULE MCVstConnection ---------------------------
EXTENDS VstConnection, TLC
CONSTANTS u1, u2
Symmetry == Permutations(Users)
=============================================================================
