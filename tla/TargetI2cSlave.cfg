CONSTANTS
  PacketLen = 4
  MaskIrq = TRUE
  MaxPackets = 4
SPECIFICATION FairSpec
INVARIANTS
  TypeOK
  WholePacket
  AnswerFresh
  IInv
PROPERTIES
  ImplementsMailbox
  Answered
