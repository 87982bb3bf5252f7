----------------------- MODULE MCRecursiveSharedMutex -----------------------
EXTENDS RecursiveSharedMutex, TLC

Symmetry == Permutations(Threads)
=============================================================================
