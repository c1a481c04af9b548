CONSTANTS
  NProcs = 3
  MaxTasks = 3
  MaxEndpoints = 1
  Queue = 2
  RowSlots = 2
  GenMod = 4
  CallBound = 2
  Servers <- OneServer
  Clients <- TheOthers
SPECIFICATION Spec
INVARIANT
  ServerDeathWakesCallers
CHECK_DEADLOCK FALSE
