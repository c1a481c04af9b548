CONSTANTS
  canal = canal
  latido = latido
  nada = nada
  MaxTasks = 5
  DefaultQuantum = 1
  QuantumDelante = 2
  MaxPriority = 1
  KernelPriorities <- MCKernelPriorities
  SeqKeys <- MCSeqKeys
  Estuarios <- MCSeqKeys
  Latido = latido
  NoKey = nada
  MaxTid = 5
  MaxWait = 1
  MaxSeq = 1
  VueltasMax = 2
SPECIFICATION PurgaSpec
INVARIANT
  ExecIsCurrent
