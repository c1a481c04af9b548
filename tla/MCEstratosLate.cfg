CONSTANTS
  Total = 7
  FormatHead = 3
  Costs <- MCCosts
  Faults <- LateFaults
  MaxTx = 3
SPECIFICATION Spec
INVARIANT
  NeverOverwritten
CHECK_DEADLOCK FALSE
