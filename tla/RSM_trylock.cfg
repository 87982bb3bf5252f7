CONSTANTS
  t1 = t1  t2 = t2  t3 = t3
  Threads = {t1, t2, t3}
  None = None
  MaxReaders = 3
  MaxRecursion = 2
  Operations = {"lock", "try_lock", "lock_shared", "try_lock_shared", "unlock_unlocked"}
SPECIFICATION Spec
SYMMETRY Symmetry
INVARIANTS HoldsAreCounted
