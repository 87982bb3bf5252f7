\* Three threads compete for one slot: two of them share through the flag.
CONSTANTS
  t1 = t1  t2 = t2  t3 = t3
  Threads = {t1, t2, t3}
  None = None
  N = 1
  MaxHold = 2
  Nesting = {"XX", "XS", "SS"}
SPECIFICATION FairSpec
INVARIANTS MutualExclusion SlotsAreNotShared AssertionsHold
PROPERTIES ImplementsRWLock WriterIsNotStarvedByReaders NestedLockReturns
\* A thread that nests lock_shared() in lock() may wait for itself.
CHECK_DEADLOCK FALSE
