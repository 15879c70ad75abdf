CONSTANTS
  Blocks = 2
  NumberSpace = 4
  MaxRetries = 3
  LateAnswers = FALSE
  QueuedPrompts = TRUE
  MaxNoise = 1
  MaxPrompts = 3
SPECIFICATION Spec
INVARIANTS
  Complete
CHECK_DEADLOCK FALSE
