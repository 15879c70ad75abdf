SPECIFICATION FairSpec
CONSTANTS
  Images <- ImagesOfTwoSizes
  Beyond = "beyond"
  ConnectTries = 2
  MaxPolls = 1
  MaxClicks = 6
INVARIANTS
  TypeOK
  StopReachable
  ReadyEarned
  CompleteIsImage
  IInv
PROPERTIES
  StoppedIsSilent
  OperationsEnd
CHECK_DEADLOCK FALSE
