CONSTANTS
  canal = canal
  endpoint = endpoint
  escribir = escribir
  objeto = objeto
  None = None
  MaxProcs = 1
  SlotsPerProc = 2
  GenMax = 2
  GrantBound = 3
  Kinds <- MCKinds
  ActiveKinds <- MCActiveKinds
  Rights <- MCRights
  Objects <- MCObjects
SPECIFICATION Spec
INVARIANTS
  TypeOK
  StaleHandlesNeverResolve
  OnlyIssuedHandlesResolve
CHECK_DEADLOCK FALSE
