----------------------- MODULE MCSharedRecursiveMutex -----------------------
EXTENDS SharedRecursiveMutex, TLC

Symmetry == Permutations(Threads)
=============================================================================
