CONSTANTS
  Numbers <- MCNumbers
  Inputs <- MCInputs
  Printed <- MCPrinted
  Blank = Blank
  Garbage = Garbage
  MaxSize = 1
  MaxLines = 3
  MaxNumber = 3
  MaxRuns = 2
  OpenFails = TRUE
SPECIFICATION Spec
INVARIANTS OutputIsSorted OutputIsComplete
PROPERTY RunEnds
\* A program that has ended does nothing more.
CHECK_DEADLOCK FALSE
