CONSTANTS
    u1 = u1
    u2 = u2
    v1 = v1
    v2 = v2
    Keys = {k1}
    Values = {v1, v2}
    Users = {u1, u2}
    Backends = {"cassandra", "arango"}
    Troubles = {"select", "write", "load", "connection", "other", "crash", "empty"}
    MaxRows = 2
    Empty = Empty
    NoKey = NoKey
    Absent = Absent
    None = None

SPECIFICATION Spec
SYMMETRY Symmetry
INVARIANTS OneRowPerKey CacheMatchesTable
PROPERTY CallIsStored
