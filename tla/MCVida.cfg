CONSTANTS
  MaxPid = 3
  MaxProcs = 3
  SlotsPerProc = 2
  MaxCuentas = 2
  MaxPeticiones = 2
  MaxOfertas = 2
  MaxPaginas = 2
  NumMarcos = 2
  MaxLlamadas = 5
  Aparatos <- PantallaEntrada
SPECIFICATION MCSpec
INVARIANTS
  TypeOK
  NoOneElsesMemory
  EveryFrameOnce
  TheDeadLeaveNothing
  OnlyTheOwnerDraws
CHECK_DEADLOCK FALSE
