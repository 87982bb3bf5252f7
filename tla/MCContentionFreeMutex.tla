----------------------- MODULE MCContentionFreeMutex -----------------------
EXTENDS ContentionFreeMutex, TLC

Symmetry == Permutations(Threads)
=============================================================================
