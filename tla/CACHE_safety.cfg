CONSTANTS
  Keys = {k1, k2}
  Values = {v1, v2}
  Users = {u1, u2}
  Ops = {"get", "set", "dispose"}
  StoredKeys = {k1, k2}
  Faults = {"open"}
  External = FALSE
  Empty = Empty
  Absent = Absent
  None = None
SPECIFICATION Spec
INVARIANT CacheMatchesDb
PROPERTIES SetIsSaved DisposeReturns
