CONSTANTS
  NProcs = 4
  MaxTasks = 4
  MaxEndpoints = 1
  Queue = 2
  RowSlots = 2
  GenMod = 4
  CallBound = 2
  Servers <- TwoServers
  Clients <- TheOthers
SPECIFICATION FairSpec
INVARIANTS
  TypeOK
  OneAnswerPerCall
  NoProvisionalResult
  NoSleepOnWork
PROPERTIES
  ImplementsRpc
  EveryCallReturns
CHECK_DEADLOCK FALSE
