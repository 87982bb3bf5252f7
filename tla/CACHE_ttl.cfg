CONSTANTS
  Keys = {k1, k2}
  Values = {v1, v2}
  Users = {u1}
  Ops = {"get", "set", "remove", "transaction"}
  StoredKeys = {k1}
  Faults = {"update", "commit", "read", "open"}
  External = TRUE
  Empty = Empty
  Absent = Absent
  None = None
SPECIFICATION Spec
INVARIANTS NoTransactionLeftOpen
PROPERTY TtlHealsStaleEntries
