---------------------------- MODULE MCSqliteCache ----------------------------
\* SqliteCache for TLC: users and values are interchangeable.
EXTENDS SqliteCache

Symmetry == Permutations(Users) \cup Permutations(Values)
=============================================================================
