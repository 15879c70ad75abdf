CONSTANTS
  Blocks = 3
  NumberSpace = 4
  MaxRetries = 3
  LateAnswers = TRUE
  QueuedPrompts = TRUE
  MaxNoise = 1
  MaxPrompts = 4
SPECIFICATION FairSpec
INVARIANTS
  InOrder
  OrderInv
PROPERTIES
  Delivered
  Terminates
CHECK_DEADLOCK FALSE
