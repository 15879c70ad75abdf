CONSTANTS
  Bits <- MCBit
  PageSize = 4
  FlashSize = 12
  DataFlashAddr = 8
  FirstLen = 1
  DataLen = 2
  DataSum <- MCDataSum
  AppIsValid <- MCAppIsValid
  TwoK = FALSE
  Image <- MCStreamImage
  ImageLen = 5
  RetryCount = 2
  ConnectTries = 2
  MaxNoise = 2
  MaxOps = 2
  NoisyCommand = FALSE
  Transports <- MCTransports
SPECIFICATION StreamSpec
INVARIANTS
  StreamTypeOK
  ProgramVerified
  AckedKept
PROPERTIES
  ImplementsUpdate
  Returns
CHECK_DEADLOCK FALSE
