CONSTANTS
  Bits <- MCBits
  PageSize = 4
  FlashSize = 12
  DataFlashAddr = 8
  FirstLen = 1
  DataLen = 2
  DataSum <- MCDataSum
  AppIsValid <- MCAppIsValid
  TwoK = FALSE
  Image <- MCImage
  ImageLen = 6
  RetryCount = 3
  ConnectTries = 2
  MaxNoise = 2
  MaxOps = 2
  NoisyCommand = FALSE
SPECIFICATION Spec
INVARIANTS
  TypeOK
  ProgramVerified
  IInv
  AckedKept
PROPERTIES
  DataFlashKept
  ImplementsUpdate
CHECK_DEADLOCK FALSE
