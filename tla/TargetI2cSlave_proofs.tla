----------------------- MODULE TargetI2cSlave_proofs -----------------------
(* Proofs about TargetI2cSlave: what the slave that masks its interrupt    *)
(* promises, for every length of a packet and any number of packets.       *)
EXTENDS TargetI2cSlave, TLAPS

LEMMA Wrapped ==
  ASSUME NEW n \in 1..PacketLen
  PROVE  n % PacketLen \in Bytes /\ (n < PacketLen => n % PacketLen = n)
BY SlaveAssumption DEF Bytes

LEMMA InitInv == Init => IInv
<1> SUFFICES ASSUME Init PROVE IInv
  OBVIOUS
<1> QED
  BY SlaveAssumption DEF Init, IInv, TypeOK, WriteInv, PacketInv, CopyInv, ParseInv, AnswerInv,
     ReadInv, AnswerFresh, Blanks, Blank, Bytes, Busy

-----------------------------------------------------------------------------
(* The interrupt handler. *)

LEMMA AddressedWriteInv ==
  ASSUME IInv, MaskIrq, AddressedWrite
  PROVE  IInv'
<1>1. TypeOK'
  <2>1. (/\ rcvbuf \in [Bytes -> 0..MaxPackets] /\ cmdbuf \in [Bytes -> 0..MaxPackets]
         /\ response \in [Bytes -> 0..MaxPackets])'
    BY SlaveAssumption DEF IInv, TypeOK, Enabled, AddressedWrite, mainVars
  <2>2. (slvLen \in Bytes /\ copied \in 0..PacketLen)'
    BY SlaveAssumption DEF IInv, TypeOK, CopyInv, ReadInv, Enabled, AddressedWrite, mainVars, Bytes
  <2>3. (/\ i2cReady \in BOOLEAN /\ ispReady \in BOOLEAN /\ latched \in BOOLEAN
         /\ main \in {"wait", "copy", "clear", "parse", "out", "release"}
         /\ bus \in {"idle", "write", "read"})'
    BY DEF IInv, TypeOK, Enabled, AddressedWrite, mainVars
  <2>5. sent' \in 0..MaxPackets
    BY SlaveAssumption DEF IInv, TypeOK, AddressedWrite
  <2>4. (Len(got) <= PacketLen /\ \A i \in 1..Len(got) : got[i] \in Busy..MaxPackets)'
    BY SlaveAssumption DEF IInv, TypeOK, ReadInv, Enabled, AddressedWrite, mainVars, Bytes, Busy
  <2> QED BY <2>1, <2>2, <2>3, <2>4, <2>5 DEF TypeOK
<1>2. WriteInv' /\ PacketInv'
  BY SlaveAssumption DEF IInv, TypeOK, WriteInv, PacketInv, CopyInv, Holds, Packets, Enabled, AddressedWrite, mainVars, Bytes
<1>3. CopyInv' /\ ParseInv'
  BY SlaveAssumption DEF IInv, TypeOK, PacketInv, CopyInv, ParseInv, Holds, Packets, Enabled, AddressedWrite, mainVars, Bytes
<1>4. AnswerInv'
  BY SlaveAssumption DEF IInv, TypeOK, AnswerInv, CopyInv, PacketInv, Holds, Packets, Enabled, AddressedWrite, mainVars, Bytes
<1>5. ReadInv'
  BY SlaveAssumption DEF IInv, TypeOK, AnswerInv, ReadInv, Holds, Packets, Enabled, AddressedWrite, mainVars, Bytes, Busy
<1>6. got' \in Seq(Busy..MaxPackets) /\ AnswerFresh'
  BY SlaveAssumption DEF IInv, TypeOK, WriteInv, AnswerInv, ReadInv, AnswerFresh, Holds, Packets, Enabled, AddressedWrite, mainVars, Bytes, Busy
<1> QED BY <1>1, <1>2, <1>3, <1>4, <1>5, <1>6 DEF IInv

LEMMA ByteReceivedInv ==
  ASSUME IInv, MaskIrq, ByteReceived
  PROVE  IInv'
<1>1. TypeOK'
  <2>1. (/\ rcvbuf \in [Bytes -> 0..MaxPackets] /\ cmdbuf \in [Bytes -> 0..MaxPackets]
         /\ response \in [Bytes -> 0..MaxPackets])'
    BY SlaveAssumption DEF IInv, TypeOK, Enabled, ByteReceived, mainVars, busVars
  <2>2. (slvLen \in Bytes /\ copied \in 0..PacketLen)'
    BY SlaveAssumption DEF IInv, TypeOK, CopyInv, ReadInv, Enabled, ByteReceived, mainVars, busVars, Bytes
  <2>3. (/\ i2cReady \in BOOLEAN /\ ispReady \in BOOLEAN /\ latched \in BOOLEAN
         /\ main \in {"wait", "copy", "clear", "parse", "out", "release"}
         /\ bus \in {"idle", "write", "read"} /\ sent \in 0..MaxPackets)'
    BY SlaveAssumption DEF IInv, TypeOK, Enabled, ByteReceived, mainVars, busVars
  <2>4. (Len(got) <= PacketLen /\ \A i \in 1..Len(got) : got[i] \in Busy..MaxPackets)'
    BY SlaveAssumption DEF IInv, TypeOK, ReadInv, Enabled, ByteReceived, mainVars, busVars, Bytes, Busy
  <2> QED BY <2>1, <2>2, <2>3, <2>4 DEF TypeOK
<1>2. WriteInv' /\ PacketInv'
  BY SlaveAssumption DEF IInv, TypeOK, WriteInv, PacketInv, CopyInv, Holds, Packets, Enabled, ByteReceived, mainVars, busVars, Bytes
<1>3. CopyInv' /\ ParseInv'
  BY SlaveAssumption DEF IInv, TypeOK, PacketInv, CopyInv, ParseInv, Holds, Packets, Enabled, ByteReceived, mainVars, busVars, Bytes
<1>4. AnswerInv'
  BY SlaveAssumption DEF IInv, TypeOK, AnswerInv, CopyInv, PacketInv, Holds, Packets, Enabled, ByteReceived, mainVars, busVars, Bytes
<1>5. ReadInv'
  BY SlaveAssumption DEF IInv, TypeOK, AnswerInv, ReadInv, Holds, Packets, Enabled, ByteReceived, mainVars, busVars, Bytes, Busy
<1>6. got' \in Seq(Busy..MaxPackets) /\ AnswerFresh'
  BY SlaveAssumption DEF IInv, TypeOK, WriteInv, AnswerInv, ReadInv, AnswerFresh, Holds, Packets, Enabled, ByteReceived, mainVars, busVars, Bytes, Busy
<1> QED BY <1>1, <1>2, <1>3, <1>4, <1>5, <1>6 DEF IInv

LEMMA LastByteReceivedInv ==
  ASSUME IInv, MaskIrq, LastByteReceived
  PROVE  IInv'
BY SlaveAssumption DEF IInv, TypeOK, WriteInv, PacketInv, CopyInv, ParseInv, AnswerInv, ReadInv,
   AnswerFresh, Holds, Packets, Enabled, LastByteReceived, mainVars, Bytes, Busy

LEMMA WriteStoppedInv ==
  ASSUME IInv, MaskIrq, WriteStopped
  PROVE  IInv'
<1>1. TypeOK'
  <2>1. (/\ rcvbuf \in [Bytes -> 0..MaxPackets] /\ cmdbuf \in [Bytes -> 0..MaxPackets]
         /\ response \in [Bytes -> 0..MaxPackets])'
    BY SlaveAssumption DEF IInv, TypeOK, Enabled, WriteStopped, mainVars
  <2>2. (slvLen \in Bytes /\ copied \in 0..PacketLen)'
    BY SlaveAssumption DEF IInv, TypeOK, CopyInv, ReadInv, Enabled, WriteStopped, mainVars, Bytes
  <2>3. (/\ i2cReady \in BOOLEAN /\ ispReady \in BOOLEAN /\ latched \in BOOLEAN
         /\ main \in {"wait", "copy", "clear", "parse", "out", "release"}
         /\ bus \in {"idle", "write", "read"} /\ sent \in 0..MaxPackets)'
    BY SlaveAssumption DEF IInv, TypeOK, Enabled, WriteStopped, mainVars
  <2>4. (Len(got) <= PacketLen /\ \A i \in 1..Len(got) : got[i] \in Busy..MaxPackets)'
    BY SlaveAssumption DEF IInv, TypeOK, ReadInv, Enabled, WriteStopped, mainVars, Bytes, Busy
  <2> QED BY <2>1, <2>2, <2>3, <2>4 DEF TypeOK
<1>2. WriteInv' /\ PacketInv'
  BY SlaveAssumption DEF IInv, TypeOK, WriteInv, PacketInv, CopyInv, Holds, Packets, Enabled, WriteStopped, mainVars, Bytes
<1>3. CopyInv' /\ ParseInv'
  BY SlaveAssumption DEF IInv, TypeOK, PacketInv, CopyInv, ParseInv, Holds, Packets, Enabled, WriteStopped, mainVars, Bytes
<1>4. AnswerInv'
  BY SlaveAssumption DEF IInv, TypeOK, AnswerInv, CopyInv, PacketInv, Holds, Packets, Enabled, WriteStopped, mainVars, Bytes
<1>5. ReadInv'
  BY SlaveAssumption DEF IInv, TypeOK, AnswerInv, ReadInv, Holds, Packets, Enabled, WriteStopped, mainVars, Bytes, Busy
<1>6. got' \in Seq(Busy..MaxPackets) /\ AnswerFresh'
  BY SlaveAssumption DEF IInv, TypeOK, WriteInv, AnswerInv, ReadInv, AnswerFresh, Holds, Packets, Enabled, WriteStopped, mainVars, Bytes, Busy
<1> QED BY <1>1, <1>2, <1>3, <1>4, <1>5, <1>6 DEF IInv

LEMMA AddressedReadInv ==
  ASSUME IInv, MaskIrq, AddressedRead
  PROVE  IInv'
<1>1. TypeOK'
  <2>1. (/\ rcvbuf \in [Bytes -> 0..MaxPackets] /\ cmdbuf \in [Bytes -> 0..MaxPackets]
         /\ response \in [Bytes -> 0..MaxPackets])'
    BY SlaveAssumption DEF IInv, TypeOK, Enabled, AddressedRead, mainVars
  <2>2. (slvLen \in Bytes /\ copied \in 0..PacketLen)'
    BY SlaveAssumption, Wrapped DEF IInv, TypeOK, CopyInv, ReadInv, Enabled, AddressedRead, mainVars, Bytes
  <2>3. (/\ i2cReady \in BOOLEAN /\ ispReady \in BOOLEAN /\ latched \in BOOLEAN
         /\ main \in {"wait", "copy", "clear", "parse", "out", "release"}
         /\ bus \in {"idle", "write", "read"} /\ sent \in 0..MaxPackets)'
    BY SlaveAssumption DEF IInv, TypeOK, Enabled, AddressedRead, mainVars
  <2>4. (Len(got) <= PacketLen /\ \A i \in 1..Len(got) : got[i] \in Busy..MaxPackets)'
    BY SlaveAssumption DEF IInv, TypeOK, ReadInv, Enabled, AddressedRead, mainVars, Bytes, Busy
  <2> QED BY <2>1, <2>2, <2>3, <2>4 DEF TypeOK
<1>2. WriteInv' /\ PacketInv'
  BY SlaveAssumption, Wrapped DEF IInv, TypeOK, WriteInv, PacketInv, CopyInv, Holds, Packets, Enabled, AddressedRead, mainVars, Bytes
<1>3. CopyInv' /\ ParseInv'
  BY SlaveAssumption, Wrapped DEF IInv, TypeOK, PacketInv, CopyInv, ParseInv, Holds, Packets, Enabled, AddressedRead, mainVars, Bytes
<1>4. AnswerInv'
  BY SlaveAssumption, Wrapped DEF IInv, TypeOK, AnswerInv, CopyInv, PacketInv, Holds, Packets, Enabled, AddressedRead, mainVars, Bytes
<1>5. ReadInv'
  BY SlaveAssumption, Wrapped DEF IInv, TypeOK, AnswerInv, ReadInv, Holds, Packets, Enabled, AddressedRead, mainVars, Bytes, Busy
<1>6. got' \in Seq(Busy..MaxPackets) /\ AnswerFresh'
  BY SlaveAssumption, Wrapped DEF IInv, TypeOK, WriteInv, AnswerInv, ReadInv, AnswerFresh, Holds, Packets, Enabled, AddressedRead, mainVars, Bytes, Busy
<1> QED BY <1>1, <1>2, <1>3, <1>4, <1>5, <1>6 DEF IInv

LEMMA ByteSentInv ==
  ASSUME IInv, MaskIrq, ByteSent
  PROVE  IInv'
<1>a. /\ Len(got) + 1 \in 1..PacketLen /\ Len(got) > 0 /\ slvLen = Len(got)
  <2>1. Len(got) \in 1..(PacketLen - 1)
    BY SlaveAssumption DEF IInv, TypeOK, ReadInv, ByteSent
  <2> QED BY <2>1, Wrapped, SlaveAssumption DEF IInv, ReadInv, ByteSent
<1>b. got' = Append(got, got[1])
  BY <1>a, SlaveAssumption DEF IInv, TypeOK, ReadInv, AnswerInv, Holds, ByteSent
<1>c. got' \in Seq(Busy..MaxPackets) /\ Len(got') = Len(got) + 1 /\ got'[1] = got[1]
      /\ \A i \in 1..Len(got') : got'[i] = IF i <= Len(got) THEN got[i] ELSE got[1]
  BY <1>a, <1>b DEF IInv, TypeOK
<1>1. TypeOK'
  <2>1. (/\ rcvbuf \in [Bytes -> 0..MaxPackets] /\ cmdbuf \in [Bytes -> 0..MaxPackets]
         /\ response \in [Bytes -> 0..MaxPackets])'
    BY SlaveAssumption DEF IInv, TypeOK, Enabled, ByteSent, mainVars
  <2>2. (slvLen \in Bytes /\ copied \in 0..PacketLen)'
    BY <1>a, SlaveAssumption, Wrapped DEF IInv, TypeOK, ByteSent, mainVars
  <2>3. (/\ i2cReady \in BOOLEAN /\ ispReady \in BOOLEAN /\ latched \in BOOLEAN
         /\ main \in {"wait", "copy", "clear", "parse", "out", "release"}
         /\ bus \in {"idle", "write", "read"} /\ sent \in 0..MaxPackets)'
    BY SlaveAssumption DEF IInv, TypeOK, Enabled, ByteSent, mainVars
  <2>4. (Len(got) <= PacketLen /\ \A i \in 1..Len(got) : got[i] \in Busy..MaxPackets)'
    BY <1>a, <1>c DEF IInv, TypeOK
  <2> QED BY <2>1, <2>2, <2>3, <2>4 DEF TypeOK
<1>2. WriteInv' /\ PacketInv'
  BY SlaveAssumption, Wrapped DEF IInv, TypeOK, WriteInv, PacketInv, CopyInv, Holds, Packets, Enabled, ByteSent, mainVars, Bytes
<1>3. CopyInv' /\ ParseInv'
  BY SlaveAssumption, Wrapped DEF IInv, TypeOK, PacketInv, CopyInv, ParseInv, Holds, Packets, Enabled, ByteSent, mainVars, Bytes
<1>4. AnswerInv'
  BY SlaveAssumption, Wrapped DEF IInv, TypeOK, AnswerInv, CopyInv, PacketInv, Holds, Packets, Enabled, ByteSent, mainVars, Bytes
<1>5. ReadInv'
  BY <1>a, <1>c, SlaveAssumption DEF IInv, TypeOK, ReadInv, ByteSent
<1>6. got' \in Seq(Busy..MaxPackets) /\ AnswerFresh'
  BY <1>a, <1>c DEF IInv, TypeOK, AnswerFresh, ByteSent
<1> QED BY <1>1, <1>2, <1>3, <1>4, <1>5, <1>6 DEF IInv

LEMMA ReadRefusedInv ==
  ASSUME IInv, MaskIrq, ReadRefused
  PROVE  IInv'
BY SlaveAssumption DEF IInv, TypeOK, WriteInv, PacketInv, CopyInv, ParseInv, AnswerInv, ReadInv,
   AnswerFresh, Holds, Packets, Enabled, ReadRefused, isrVars, mainVars, Bytes, Busy

-----------------------------------------------------------------------------
(* The main loop, and the chip's reset. *)

LEMMA SeePacketInv ==
  ASSUME IInv, SeePacket
  PROVE  IInv'
BY SlaveAssumption DEF IInv, TypeOK, WriteInv, PacketInv, CopyInv, ParseInv, AnswerInv, ReadInv,
   AnswerFresh, Holds, Packets, SeePacket, isrVars, busVars, Bytes, Busy

LEMMA CopyByteInv ==
  ASSUME IInv, CopyByte
  PROVE  IInv'
<1>1. TypeOK'
  <2>1. (/\ rcvbuf \in [Bytes -> 0..MaxPackets] /\ cmdbuf \in [Bytes -> 0..MaxPackets]
         /\ response \in [Bytes -> 0..MaxPackets])'
    BY SlaveAssumption DEF IInv, TypeOK, CopyByte, isrVars, busVars
  <2>2. (slvLen \in Bytes /\ copied \in 0..PacketLen)'
    BY SlaveAssumption DEF IInv, TypeOK, CopyInv, ReadInv, CopyByte, isrVars, busVars, Bytes
  <2>3. (/\ i2cReady \in BOOLEAN /\ ispReady \in BOOLEAN /\ latched \in BOOLEAN
         /\ main \in {"wait", "copy", "clear", "parse", "out", "release"}
         /\ bus \in {"idle", "write", "read"} /\ sent \in 0..MaxPackets)'
    BY SlaveAssumption DEF IInv, TypeOK, CopyByte, isrVars, busVars
  <2>4. (Len(got) <= PacketLen /\ \A i \in 1..Len(got) : got[i] \in Busy..MaxPackets)'
    BY SlaveAssumption DEF IInv, TypeOK, ReadInv, CopyByte, isrVars, busVars, Bytes, Busy
  <2> QED BY <2>1, <2>2, <2>3, <2>4 DEF TypeOK
<1>2. WriteInv' /\ PacketInv'
  BY SlaveAssumption DEF IInv, TypeOK, WriteInv, PacketInv, CopyInv, Holds, Packets, CopyByte, isrVars, busVars, Bytes
<1>3. CopyInv' /\ ParseInv'
  BY SlaveAssumption DEF IInv, TypeOK, PacketInv, CopyInv, ParseInv, Holds, Packets, CopyByte, isrVars, busVars, Bytes
<1>4. AnswerInv'
  BY SlaveAssumption DEF IInv, TypeOK, AnswerInv, CopyInv, PacketInv, Holds, Packets, CopyByte, isrVars, busVars, Bytes
<1>5. ReadInv'
  BY SlaveAssumption DEF IInv, TypeOK, AnswerInv, ReadInv, Holds, Packets, CopyByte, isrVars, busVars, Bytes, Busy
<1>6. got' \in Seq(Busy..MaxPackets) /\ AnswerFresh'
  BY SlaveAssumption DEF IInv, TypeOK, WriteInv, AnswerInv, ReadInv, AnswerFresh, Holds, Packets, CopyByte, isrVars, busVars, Bytes, Busy
<1> QED BY <1>1, <1>2, <1>3, <1>4, <1>5, <1>6 DEF IInv

LEMMA ClearReadyInv ==
  ASSUME IInv, ClearReady
  PROVE  IInv'
BY SlaveAssumption DEF IInv, TypeOK, WriteInv, PacketInv, CopyInv, ParseInv, AnswerInv, ReadInv,
   AnswerFresh, Holds, Packets, ClearReady, busVars, Bytes, Busy

LEMMA ParseBeginInv ==
  ASSUME IInv, ParseBegin
  PROVE  IInv'
BY SlaveAssumption DEF IInv, TypeOK, WriteInv, PacketInv, CopyInv, ParseInv, AnswerInv, ReadInv,
   AnswerFresh, Holds, Packets, ParseBegin, isrVars, busVars, Bytes, Busy, Blank

LEMMA ParseEndInv ==
  ASSUME IInv, ParseEnd
  PROVE  IInv'
BY SlaveAssumption DEF IInv, TypeOK, WriteInv, PacketInv, CopyInv, ParseInv, AnswerInv, ReadInv,
   AnswerFresh, Holds, Packets, ParseEnd, isrVars, busVars, Bytes, Busy

LEMMA ReleaseInv ==
  ASSUME IInv, Release
  PROVE  IInv'
BY SlaveAssumption DEF IInv, TypeOK, WriteInv, PacketInv, CopyInv, ParseInv, AnswerInv, ReadInv,
   AnswerFresh, Holds, Packets, Release, busVars, Bytes, Busy

LEMMA ResetInv ==
  ASSUME IInv, Reset
  PROVE  IInv'
<1>1. TypeOK'
  <2>1. (/\ rcvbuf \in [Bytes -> 0..MaxPackets] /\ cmdbuf \in [Bytes -> 0..MaxPackets]
         /\ response \in [Bytes -> 0..MaxPackets])'
    BY SlaveAssumption DEF IInv, TypeOK, Reset, Blanks, Blank
  <2>2. (slvLen \in Bytes /\ copied \in 0..PacketLen)'
    BY SlaveAssumption DEF IInv, TypeOK, CopyInv, ReadInv, Reset, Blanks, Blank, Bytes
  <2>3. (/\ i2cReady \in BOOLEAN /\ ispReady \in BOOLEAN /\ latched \in BOOLEAN
         /\ main \in {"wait", "copy", "clear", "parse", "out", "release"}
         /\ bus \in {"idle", "write", "read"} /\ sent \in 0..MaxPackets)'
    BY SlaveAssumption DEF IInv, TypeOK, Reset, Blanks, Blank
  <2>4. (Len(got) <= PacketLen /\ \A i \in 1..Len(got) : got[i] \in Busy..MaxPackets)'
    BY SlaveAssumption DEF IInv, TypeOK, ReadInv, Reset, Blanks, Blank, Bytes, Busy
  <2> QED BY <2>1, <2>2, <2>3, <2>4 DEF TypeOK
<1>2. WriteInv' /\ PacketInv'
  BY SlaveAssumption DEF IInv, TypeOK, WriteInv, PacketInv, CopyInv, Holds, Packets, Reset, Blanks, Blank, Bytes
<1>3. CopyInv' /\ ParseInv'
  BY SlaveAssumption DEF IInv, TypeOK, PacketInv, CopyInv, ParseInv, Holds, Packets, Reset, Blanks, Blank, Bytes
<1>4. AnswerInv'
  BY SlaveAssumption DEF IInv, TypeOK, AnswerInv, CopyInv, PacketInv, Holds, Packets, Reset, Blanks, Blank, Bytes
<1>5. ReadInv'
  BY SlaveAssumption DEF IInv, TypeOK, AnswerInv, ReadInv, Holds, Packets, Reset, Blanks, Blank, Bytes, Busy
<1>6. got' \in Seq(Busy..MaxPackets) /\ AnswerFresh'
  BY SlaveAssumption DEF IInv, TypeOK, WriteInv, AnswerInv, ReadInv, AnswerFresh, Holds, Packets, Reset, Blanks, Blank, Bytes, Busy
<1> QED BY <1>1, <1>2, <1>3, <1>4, <1>5, <1>6 DEF IInv

LEMMA StepInv == MaskIrq /\ IInv /\ [Next]_vars => IInv'
<1> SUFFICES ASSUME MaskIrq, IInv, [Next]_vars PROVE IInv'
  OBVIOUS
<1>1. CASE Isr
  BY <1>1, AddressedWriteInv, ByteReceivedInv, LastByteReceivedInv, WriteStoppedInv,
     AddressedReadInv, ByteSentInv, ReadRefusedInv DEF Isr
<1>2. CASE Main
  BY <1>2, SeePacketInv, CopyByteInv, ClearReadyInv, ParseBeginInv, ParseEndInv, ReleaseInv DEF Main
<1>3. CASE Reset
  BY <1>3, ResetInv
<1>4. CASE UNCHANGED vars
  BY <1>4 DEF vars, IInv, TypeOK, WriteInv, PacketInv, CopyInv, ParseInv, AnswerInv, ReadInv,
     AnswerFresh, Holds
<1> QED BY <1>1, <1>2, <1>3, <1>4 DEF Next

\* The inductive invariant of interrupt handler and main loop, with the mask of the 4 KB sample.
THEOREM Invariance == ASSUME MaskIrq PROVE Spec => []IInv
<1>1. IInv /\ [Next]_vars => IInv'
  BY StepInv
<1> QED BY InitInv, <1>1, PTL DEF Spec

\* Buffers, flags and counters of the masked slave keep their ranges.
THEOREM TypeCorrect == ASSUME MaskIrq PROVE Spec => []TypeOK
<1>1. IInv => TypeOK
  BY DEF IInv
<1> QED BY <1>1, Invariance, PTL

\* ParseCmd works on one packet, never on parts of two.
THEOREM ParsesWholePackets == ASSUME MaskIrq PROVE Spec => []WholePacket
<1>1. IInv => WholePacket
  <2> SUFFICES ASSUME IInv, main = "parse"
               PROVE  \E p \in Packets : cmdbuf = [i \in Bytes |-> p]
    BY DEF WholePacket
  <2>1. Holds(cmdbuf, PacketLen) /\ cmdbuf \in [Bytes -> 0..MaxPackets]
    BY DEF IInv, ParseInv, TypeOK
  <2>2. cmdbuf = [i \in Bytes |-> sent]
    BY <2>1 DEF Holds, Bytes
  <2> QED BY <2>1, <2>2 DEF Holds
<1> QED BY <1>1, Invariance, PTL

\* A read returns the busy pattern or the answer to the last packet, whole.
THEOREM ReadsFreshAnswers == ASSUME MaskIrq PROVE Spec => []AnswerFresh
<1>1. IInv => AnswerFresh
  BY DEF IInv
<1> QED BY <1>1, Invariance, PTL

-----------------------------------------------------------------------------
(* The masked slave is the mailbox: each event is a step of it or none. *)

inbox == IF i2cReady THEN rcvbuf[0]
         ELSE IF main \in {"parse", "out", "release"} THEN cmdbuf[0] ELSE Blank
outbox == IF ispReady THEN response[0] ELSE Blank
seen == IF Len(got) = PacketLen /\ got[1] # Busy THEN got[PacketLen] ELSE Blank

LEMMA MailboxStep ==
  ASSUME \/ inbox' = Blank /\ outbox' = Blank /\ seen' = Blank
         \/ inbox' \in Packets /\ outbox' = Blank /\ seen' = Blank
         \/ inbox # Blank /\ outbox' = inbox /\ inbox' = Blank /\ seen' = seen
         \/ outbox # Blank /\ seen' = outbox /\ inbox' = inbox /\ outbox' = outbox
         \/ seen' = Blank /\ inbox' = inbox /\ outbox' = outbox
         \/ inbox' = inbox /\ outbox' = outbox /\ seen' = seen
  PROVE  [Mailbox!Next]_Mailbox!vars
BY DEF inbox, outbox, seen, Mailbox!Next, Mailbox!Begin, Mailbox!Deliver, Mailbox!Answer,
   Mailbox!Read, Mailbox!StartRead, Mailbox!vars

LEMMA ZeroByte == 0 \in Bytes /\ 0 \in 0..(PacketLen - 1)
BY SlaveAssumption DEF Bytes

LEMMA WriteRefines ==
  ASSUME IInv, MaskIrq, AddressedWrite \/ ByteReceived \/ LastByteReceived \/ WriteStopped
  PROVE  [Mailbox!Next]_Mailbox!vars
<1>1. CASE AddressedWrite
  <2>1. inbox' = Blank /\ outbox' = Blank /\ seen' = Blank
    BY <1>1, SlaveAssumption DEF inbox, outbox, seen, Enabled, AddressedWrite, mainVars
  <2> QED BY <2>1, MailboxStep
<1>2. CASE ByteReceived
  <2>1. inbox' = inbox /\ outbox' = outbox /\ seen' = seen
    BY <1>2 DEF IInv, WriteInv, inbox, outbox, seen, Enabled, ByteReceived, mainVars, busVars
  <2> QED BY <2>1, MailboxStep
<1>3. CASE LastByteReceived
  <2>1. Holds(rcvbuf, PacketLen)'
    BY <1>3, LastByteReceivedInv DEF IInv, PacketInv, LastByteReceived
  <2>2. inbox' \in Packets /\ outbox' = Blank /\ seen' = Blank
    BY <1>3, <2>1, ZeroByte, SlaveAssumption
    DEF IInv, WriteInv, Holds, inbox, outbox, seen, LastByteReceived, mainVars
  <2> QED BY <2>2, MailboxStep
<1>4. CASE WriteStopped
  <2>1. inbox' = inbox /\ outbox' = outbox /\ seen' = seen
    BY <1>4 DEF inbox, outbox, seen, WriteStopped, mainVars
  <2> QED BY <2>1, MailboxStep
<1> QED BY <1>1, <1>2, <1>3, <1>4

LEMMA ReadRefines ==
  ASSUME IInv, MaskIrq, AddressedRead \/ ByteSent \/ ReadRefused
  PROVE  [Mailbox!Next]_Mailbox!vars
<1>1. CASE AddressedRead
  <2>1. seen' = Blank /\ inbox' = inbox /\ outbox' = outbox
    BY <1>1, SlaveAssumption DEF inbox, outbox, seen, AddressedRead, mainVars
  <2> QED BY <2>1, MailboxStep
<1>2. CASE ByteSent
  <2>1. inbox' = inbox /\ outbox' = outbox
    BY <1>2 DEF inbox, outbox, ByteSent, mainVars
  <2>2. got' = Append(got, IF latched THEN response[slvLen] ELSE Busy) /\ Len(got) < PacketLen
    BY <1>2 DEF ByteSent
  <2>3. CASE Len(got') = PacketLen /\ got'[1] # Busy
    <3>1. IInv'
      BY <1>2, ByteSentInv
    <3>2. PacketLen \in 1..Len(got') /\ bus' = "read" /\ sent' = sent /\ latched' = latched
      BY <1>2, <2>3, SlaveAssumption DEF ByteSent
    <3>3. got'[1] = sent /\ got'[PacketLen] = sent /\ latched
      BY <2>3, <3>1, <3>2 DEF IInv, AnswerFresh, ReadInv
    <3>4. ispReady /\ response[0] = sent /\ sent # Blank
      BY <1>2, <3>3, ZeroByte DEF IInv, ReadInv, AnswerInv, Holds, Packets, Blank, ByteSent
    <3>5. outbox # Blank /\ seen' = outbox
      BY <2>3, <3>3, <3>4 DEF outbox, seen
    <3> QED BY <2>1, <3>5, MailboxStep
  <2>4. CASE ~(Len(got') = PacketLen /\ got'[1] # Busy)
    <3>1. seen' = Blank
      BY <2>4 DEF seen
    <3> QED BY <2>1, <3>1, MailboxStep
  <2> QED BY <2>3, <2>4
<1>3. CASE ReadRefused
  <2>1. inbox' = inbox /\ outbox' = outbox /\ seen' = seen
    BY <1>3 DEF inbox, outbox, seen, ReadRefused, isrVars, mainVars
  <2> QED BY <2>1, MailboxStep
<1> QED BY <1>1, <1>2, <1>3

LEMMA MainRefines ==
  ASSUME IInv, Main
  PROVE  [Mailbox!Next]_Mailbox!vars
<1>1. CASE SeePacket
  <2>1. inbox' = inbox /\ outbox' = outbox /\ seen' = seen
    BY <1>1 DEF inbox, outbox, seen, SeePacket, isrVars, busVars
  <2> QED BY <2>1, MailboxStep
<1>2. CASE CopyByte
  <2>1. inbox' = inbox /\ outbox' = outbox /\ seen' = seen
    BY <1>2 DEF IInv, CopyInv, inbox, outbox, seen, CopyByte, isrVars, busVars
  <2> QED BY <2>1, MailboxStep
<1>3. CASE ClearReady
  <2>1. rcvbuf[0] = sent /\ cmdbuf[0] = sent /\ i2cReady
    BY <1>3, ZeroByte DEF IInv, CopyInv, PacketInv, Holds, ClearReady
  <2>2. inbox' = inbox /\ outbox' = outbox /\ seen' = seen
    BY <1>3, <2>1 DEF inbox, outbox, seen, ClearReady, busVars
  <2> QED BY <2>2, MailboxStep
<1>4. CASE ParseBegin \/ ParseEnd
  <2>1. inbox' = inbox /\ outbox' = outbox /\ seen' = seen
    BY <1>4 DEF IInv, ParseInv, inbox, outbox, seen, ParseBegin, ParseEnd, isrVars, busVars
  <2> QED BY <2>1, MailboxStep
<1>5. CASE Release
  <2>1. ~i2cReady /\ cmdbuf[0] = sent /\ response[0] = sent /\ sent # Blank
    BY <1>5, ZeroByte DEF IInv, ParseInv, Holds, Packets, Blank, Release
  <2>2. inbox # Blank /\ outbox' = inbox /\ inbox' = Blank /\ seen' = seen
    BY <1>5, <2>1 DEF inbox, outbox, seen, Release, busVars
  <2> QED BY <2>2, MailboxStep
<1> QED BY <1>1, <1>2, <1>3, <1>4, <1>5 DEF Main

LEMMA ResetRefines ==
  ASSUME Reset
  PROVE  [Mailbox!Next]_Mailbox!vars
<1>1. inbox' = Blank /\ outbox' = Blank /\ seen' = Blank
  BY SlaveAssumption DEF inbox, outbox, seen, Reset
<1> QED BY <1>1, MailboxStep

\* Handler and main loop together are the mailbox NuvoIspI2c takes them for.
THEOREM IsMailbox == ASSUME MaskIrq PROVE Spec => ImplementsMailbox
<1>1. Init => Mailbox!Init
  BY SlaveAssumption DEF Init, Mailbox!Init
<1>2. IInv /\ [Next]_vars => [Mailbox!Next]_Mailbox!vars
  <2> SUFFICES ASSUME IInv, [Next]_vars PROVE [Mailbox!Next]_Mailbox!vars
    OBVIOUS
  <2>1. CASE Isr
    BY <2>1, WriteRefines, ReadRefines DEF Isr
  <2>2. CASE Main
    BY <2>2, MainRefines
  <2>3. CASE Reset
    BY <2>3, ResetRefines
  <2>4. CASE UNCHANGED vars
    BY <2>4 DEF vars, Mailbox!vars
  <2> QED BY <2>1, <2>2, <2>3, <2>4 DEF Next
<1> QED BY <1>1, <1>2, Invariance, PTL DEF Spec, ImplementsMailbox, Mailbox!Spec
=============================================================================
