CONSTANTS
  PacketLen = 3
  MaskIrq = FALSE
  MaxPackets = 3
SPECIFICATION Spec
INVARIANTS
  AnswerWhole
CHECK_DEADLOCK FALSE
