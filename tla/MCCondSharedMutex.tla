------------------------- MODULE MCCondSharedMutex -------------------------
EXTENDS CondSharedMutex, TLC

Symmetry == Permutations(Threads)
=============================================================================
