CONSTANTS
  canal = canal
  latido = latido
  nada = nada
  MaxTasks = 4
  DefaultQuantum = 1
  QuantumDelante = 2
  MaxPriority = 1
  KernelPriorities <- MCKernelPriorities
  SeqKeys <- MCSeqKeys
  Estuarios <- MCSeqKeys
  Latido = latido
  NoKey = nada
  MaxTid = 4
  MaxWait = 2
  MaxSeq = 2
SPECIFICATION FairSpec
INVARIANTS
  TypeOK
  ExecIsCurrent
  ContextsAreLive
  HardwareFollowsTable
  NoLostWakeup
PROPERTIES
  TheDeadStayDead
  SleepersWake
  RoundRobin
  ExitedAreReaped
