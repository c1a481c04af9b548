CONSTANTS
  RingSize = 2
  Budget = 1
  Usuarios <- DosUsuarios
  Servidor = 1
  MaxPedidos = 3
  MaxLlamadas = 2
SPECIFICATION FairSpec
INVARIANTS
  TypeOK
  ReadOnceInOrder
  PayloadsMatchHandles
PROPERTIES
  ImplementsBuzon
  RungIsServed
CHECK_DEADLOCK FALSE
