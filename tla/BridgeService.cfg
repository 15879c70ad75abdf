SPECIFICATION FairSpec
CONSTANTS
  Chunks = 2
  StageSize = 3
  SeqMod = 4
  RingSize = 3
  MaxOps = 2
  MaxConnects = 2
  MaxFaults = 2
INVARIANTS
  TypeOK
  WholeOnBus
  
  InStep
PROPERTIES
  ImplementsTransfer
  Returns
CHECK_DEADLOCK FALSE
