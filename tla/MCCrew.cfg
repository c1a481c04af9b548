CONSTANTS
  NumAps = 2
  MaxObreros = 3
  Totals <- MCTotals
  MinPorAtril = 1
  MaxOrders = 2
  MaxWakes = 2
SPECIFICATION FairSpec
INVARIANTS
  TypeOK
  TrueMeansWrittenIfCaughtUp
  NobodyWorksOn
PROPERTIES
  TheBarrierOpens
CHECK_DEADLOCK FALSE
