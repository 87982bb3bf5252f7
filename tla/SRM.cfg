CONSTANTS
  t1 = t1  t2 = t2  t3 = t3  t4 = t4
  Threads = {t1, t2, t3, t4}
  None = None
  MaxHold = 2
  Nesting = {"XX", "SS"}
SPECIFICATION FairSpec
INVARIANTS HoldsAreBacked
PROPERTIES ImplementsRWLock NestedCallReturns 
