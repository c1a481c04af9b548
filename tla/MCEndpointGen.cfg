CONSTANTS
  NProcs = 3
  MaxTasks = 3
  MaxEndpoints = 1
  Queue = 2
  RowSlots = 2
  GenMod = 2
  CallBound = 2
  Servers <- OneServer
  Clients <- TheOthers
SPECIFICATION Spec
PROPERTY
  AnsweringUnblocks
CHECK_DEADLOCK FALSE
