CONSTANTS
  Blocks = 5
  NumberSpace = 4
  MaxRetries = 3
  LateAnswers = FALSE
  QueuedPrompts = FALSE
  MaxNoise = 2
  MaxPrompts = 4
SPECIFICATION Spec
INVARIANTS
  TypeOK
  Complete
  IInv
PROPERTIES
  ImplementsTransfer
CHECK_DEADLOCK FALSE
