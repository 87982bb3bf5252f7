CONSTANTS
  Symbols = {"a", "b", "*", "?"}
  Arguments <- MCArguments
  PastEnd = PastEnd
  Pending = Pending
  MaxMask = 4
  MaxText = 4
SPECIFICATION MatchSpec
INVARIANTS NoFalseMatch MatchingTextIsFound
\* The function is called once.
CHECK_DEADLOCK FALSE
