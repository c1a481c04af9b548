CONSTANTS
  Total = 8
  FormatHead = 3
  Costs <- MCCosts
  Faults <- EveryFault
  MaxTx = 3
SPECIFICATION Spec
INVARIANTS
  TypeOK
  TheVersionIsWhole
  ConfirmedSurvives
  AlwaysMountable
CHECK_DEADLOCK FALSE
