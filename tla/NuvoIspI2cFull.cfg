CONSTANTS
  Bits <- MCBits
  PageSize = 4
  FlashSize = 12
  DataFlashAddr = 8
  FirstLen = 1
  DataLen = 2
  DataSum <- MCDataSum
  AppIsValid <- MCAppIsValid
  TwoK = FALSE
  Image <- MCFullImage
  ImageLen = 8
  RetryCount = 3
  ConnectTries = 2
  MaxNoise = 1
  MaxOps = 1
  NoisyCommand = FALSE
SPECIFICATION Spec
PROPERTIES
  DataFlashKept
CHECK_DEADLOCK FALSE
