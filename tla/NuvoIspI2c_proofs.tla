------------------------- MODULE NuvoIspI2c_proofs -------------------------
(***************************************************************************)
(* Theorems about NuvoIspI2c for every image, page size, packet size and   *)
(* every number of retries, disturbances and operations.                   *)
(***************************************************************************)
EXTENDS NuvoIspI2c, TLAPS

-----------------------------------------------------------------------------
(* Packets *)

\* A checksum is a number.
LEMMA ByteSumType == \A n \in Nat : ByteSum(n) \in Nat
  BY DEF ByteSum

LEMMA CommandsType == Commands \subseteq Nat
  BY DEF Commands, Continue, UpdateAprom, SyncPackno, GetFwVer, RunAprom, Reset,
         Connect, GetDeviceId, ResendPacket, Unknown,
         ReadConfig

LEMMA ChecksumType == \A p \in Packet : Checksum(p) \in Nat
  <1> SUFFICES ASSUME NEW p \in Packet PROVE Checksum(p) \in Nat
    OBVIOUS
  <1>1. p.cmd \in Nat /\ p.idx \in Nat /\ p.arg \in Nat /\ p.data \in Payload
    BY CommandsType DEF Packet
  <1>2. DataSum(p.data) \in Nat
    BY <1>1, DataSumAssumption
  <1>3. ByteSum(p.cmd) \in Nat /\ ByteSum(p.idx) \in Nat /\ ByteSum(p.arg) \in Nat
    BY <1>1, ByteSumType
  <1> QED
    BY <1>2, <1>3 DEF Checksum

\* A block is not empty, fits a packet and does not pass the end of the image.
LEMMA BlockLenType ==
  \A o \in 0..(ImageLen - 1) :
    /\ BlockLen(o) \in 1..DataLen
    /\ o + BlockLen(o) <= ImageLen
    /\ Block(o) \in Payload
  <1> SUFFICES ASSUME NEW o \in 0..(ImageLen - 1)
               PROVE /\ BlockLen(o) \in 1..DataLen
                     /\ o + BlockLen(o) <= ImageLen
                     /\ Block(o) \in Payload
    OBVIOUS
  <1>1. BlockLen(o) \in 1..DataLen /\ o + BlockLen(o) <= ImageLen
    BY ClientAssumption, GeometryAssumption DEF BlockLen
  <1>2. ASSUME NEW i \in 1..DataLen
        PROVE (IF i <= BlockLen(o) THEN Image[o + i] ELSE Zero) \in Word
    <2>1. CASE i <= BlockLen(o)
      <3>1. o + i \in 1..ImageLen
        BY <1>1, <2>1, ClientAssumption, GeometryAssumption
      <3> QED
        BY <2>1, <3>1, ClientAssumption
    <2>2. CASE ~(i <= BlockLen(o))
      BY <2>2 DEF Zero, Word
    <2> QED
      BY <2>1, <2>2
  <1> QED
    BY <1>1, <1>2 DEF Block, Payload

LEMMA NoDataType == NoData \in Payload
  BY DEF NoData, Payload, Zero, Word

\* Whatever transaction it is in, the client sends a packet.
LEMMA PacketType == TypeOK => \A n \in Nat : PacketAt(n) \in Packet
  <1> SUFFICES ASSUME TypeOK, NEW n \in Nat PROVE PacketAt(n) \in Packet
    OBVIOUS
  <1>1. offset \in 0..(ImageLen - 1) /\ ImageLen \in Nat
    BY ClientAssumption DEF TypeOK
  <1>2. Block(0) \in Payload /\ Block(offset) \in Payload
    BY <1>1, BlockLenType
  <1>3. ASSUME NEW c \in Commands, NEW i \in Nat, NEW a \in Nat, NEW d \in Payload
        PROVE BuildPacket(c, i, a, d) \in Packet
    BY DEF BuildPacket, Packet
  <1>4. {Continue, UpdateAprom, SyncPackno, GetFwVer, RunAprom, Reset,
             Connect, GetDeviceId, ResendPacket} \subseteq Commands
    BY DEF Commands
  <1> QED
    BY <1>1, <1>2, <1>3, <1>4, NoDataType DEF PacketAt

\* A disturbed packet is a packet with another checksum, for the same command.
LEMMA DisturbedType ==
  \A p \in Packet : \A q \in Disturbed(p) :
    /\ q \in Packet
    /\ ~NoisyCommand => q.cmd = p.cmd /\ Checksum(q) # Checksum(p)
  <1> SUFFICES ASSUME NEW p \in Packet, NEW q \in Disturbed(p)
               PROVE /\ q \in Packet
                     /\ ~NoisyCommand => q.cmd = p.cmd /\ Checksum(q) # Checksum(p)
    OBVIOUS
  <1>0. /\ p.cmd \in Nat /\ p.idx \in Nat /\ p.arg \in Nat /\ p.data \in Payload
        /\ p.cmd \in Commands
        /\ p = [cmd |-> p.cmd, idx |-> p.idx, arg |-> p.arg, data |-> p.data]
    BY CommandsType DEF Packet
  <1>1. CASE \E i \in 1..DataLen, w \in Word : q = [p EXCEPT !.data[i] = w] /\ q # p
    <2> PICK i \in 1..DataLen, w \in Word : q = [p EXCEPT !.data[i] = w] /\ q # p
      BY <1>1
    <2> DEFINE d == [p.data EXCEPT ![i] = w]
    <2>1. q = [p EXCEPT !.data = d]
      BY <1>0
    <2>2. d \in Payload
      BY <1>0 DEF Payload
    <2>3. w # p.data[i]
      <3> SUFFICES ASSUME w = p.data[i] PROVE FALSE
        OBVIOUS
      <3>1. d = p.data
        BY <1>0 DEF Payload
      <3> QED
        BY <2>1, <3>1, <1>0
    <2>4. DataSum(d) # DataSum(p.data) /\ DataSum(d) \in Nat /\ DataSum(p.data) \in Nat
      BY <1>0, <2>2, <2>3, DataSumAssumption
    <2>5. q.cmd = p.cmd /\ q.idx = p.idx /\ q.arg = p.arg /\ q.data = d
      BY <1>0, <2>1
    <2>6. q \in Packet
      BY <1>0, <2>1, <2>2 DEF Packet
    <2>7. ByteSum(p.cmd) \in Nat /\ ByteSum(p.idx) \in Nat /\ ByteSum(p.arg) \in Nat
      BY <1>0, ByteSumType
    <2>8. Checksum(q) # Checksum(p)
      BY <2>4, <2>5, <2>7 DEF Checksum
    <2> QED
      BY <2>5, <2>6, <2>8
  <1>2. CASE q = [p EXCEPT !.arg = p.arg + 1] /\ ByteSum(q.arg) # ByteSum(p.arg)
    <2>1. q.cmd = p.cmd /\ q.idx = p.idx /\ q.arg = p.arg + 1 /\ q.data = p.data
      BY <1>0, <1>2
    <2>2. q \in Packet
      BY <1>0, <1>2 DEF Packet
    <2>3. /\ ByteSum(p.cmd) \in Nat /\ ByteSum(p.idx) \in Nat
          /\ ByteSum(p.arg) \in Nat /\ ByteSum(q.arg) \in Nat
      BY <1>0, <2>1, ByteSumType
    <2>4. DataSum(p.data) \in Nat
      BY <1>0, DataSumAssumption
    <2>5. Checksum(q) # Checksum(p)
      BY <2>1, <2>3, <2>4, <1>2 DEF Checksum
    <2> QED
      BY <2>1, <2>2, <2>5
  <1>3. CASE q = [p EXCEPT !.cmd = Unknown] /\ NoisyCommand
    <2>1. Unknown \in Commands
      BY DEF Commands
    <2> QED
      BY <1>0, <1>3, <2>1 DEF Packet
  <1> QED
    BY <1>1, <1>2, <1>3 DEF Disturbed

-----------------------------------------------------------------------------
(* Flash operations *)

LEMMA EraseType ==
  ASSUME NEW f \in [Addr -> Word], NEW from \in Int, NEW to \in Int
  PROVE  Erase(f, from, to) \in [Addr -> Word]
  BY DEF Erase, Erased, Word

LEMMA WriteType ==
  ASSUME NEW f \in [Addr -> Word], NEW s \in Int, NEW n \in 0..DataLen, NEW d \in Payload
  PROVE  Write(f, s, n, d) \in [Addr -> Word]
  <1>1. ASSUME NEW a \in Addr
        PROVE (IF 0 <= s /\ s <= a /\ a < s + n THEN f[a] \cap d[a - s + 1] ELSE f[a]) \in Word
    BY DEF Word
  <1> QED
    BY <1>1 DEF Write

LEMMA ReadBackType ==
  ASSUME NEW f \in [Addr -> Word], NEW s \in Int, NEW n \in 0..DataLen, NEW d \in Payload
  PROVE  ReadBack(f, s, n, d) \in Payload
  <1>1. ASSUME NEW i \in 1..DataLen
        PROVE (IF i > n THEN d[i]
               ELSE IF 0 <= s /\ s + i - 1 < FlashSize THEN f[s + i - 1] ELSE Zero) \in Word
    <2>1. CASE i <= n /\ 0 <= s /\ s + i - 1 < FlashSize
      <3>1. s + i - 1 \in Addr
        BY <2>1, GeometryAssumption DEF Addr
      <3> QED
        BY <2>1, <3>1
    <2>2. CASE i > n
      BY <2>2 DEF Payload
    <2> QED
      BY <2>1, <2>2, GeometryAssumption DEF Zero, Word
  <1> QED
    BY <1>1 DEF ReadBack, Payload

LEMMA RollBackType ==
  ASSUME NEW f \in [Addr -> Word], NEW s \in Int, NEW n \in 0..DataLen
  PROVE  RollBack(f, s, n) \in [Addr -> Word]
  <1>1. CASE s < 0
    BY <1>1 DEF RollBack
  <1>2. CASE ~(s < 0)
    <2>1. RollBack(f, s, n) \in [Addr -> Word]
      BY <1>2 DEF RollBack, Erase, Erased, Word
    <2> QED
      BY <2>1
  <1> QED
    BY <1>1, <1>2

-----------------------------------------------------------------------------
(* Type correctness *)

\* Every command leaves the target well typed.
LEMMA AnswerType ==
  ASSUME NEW b \in Packet, NEW n \in Nat, Answer(b, n)
  PROVE  mode' = "isp" /\ outbox' \in Response /\ packno' \in Nat \ {0}
  BY ChecksumType DEF Answer, Response

LEMMA TakeType ==
  ASSUME TargetTypeOK, NEW p, Take(p)
  PROVE  p \in Packet /\ inbox' \in Packet \cup {NoPacket}
  BY DEF TargetTypeOK, Take

LEMMA ProgramType ==
  ASSUME NEW p \in Packet, NEW f \in [Addr -> Word], NEW s \in Int, NEW t \in Nat,
         NEW room \in 0..DataLen, packno \in Nat, Program(p, f, s, t, room)
  PROVE  /\ flash' \in [Addr -> Word] /\ startAddr' \in Int /\ totalLen' \in Nat
         /\ lastLen' \in 0..DataLen
         /\ mode' = "isp" /\ outbox' \in Response /\ packno' \in Nat \ {0}
  <1> DEFINE n == IF t < room THEN t ELSE room
             g == Write(f, s, n, p.data)
             echo == [p EXCEPT !.data = ReadBack(g, s, n, p.data)]
  <1>1. n \in 0..DataLen /\ n \in Nat /\ n <= t
    BY GeometryAssumption
  <1>2. p.data \in Payload
    BY DEF Packet
  <1>3. g \in [Addr -> Word]
    BY <1>1, <1>2, WriteType
  <1>4. ReadBack(g, s, n, p.data) \in Payload
    BY <1>1, <1>2, <1>3, ReadBackType
  <1>5. echo \in Packet
    BY <1>4 DEF Packet
  <1>6. /\ flash' = g /\ startAddr' = s + n /\ totalLen' = t - n /\ lastLen' = n
        /\ Answer(echo, packno)
    BY DEF Program
  <1>7. startAddr' \in Int /\ totalLen' \in Nat /\ lastLen' \in 0..DataLen
    <2> HIDE DEF n
    <2> QED
      BY <1>1, <1>6
  <1>8. mode' = "isp" /\ outbox' \in Response /\ packno' \in Nat \ {0}
    <2> HIDE DEF echo
    <2> QED
      BY <1>5, <1>6, AnswerType
  <1> QED
    <2> HIDE DEF g
    <2> QED
      BY <1>3, <1>6, <1>7, <1>8

LEMMA RestartType ==
  ASSUME TargetTypeOK, NEW m \in {"boot", "isp", "app"}, Restart(m)
  PROVE  TargetTypeOK'
  BY GeometryAssumption DEF TargetTypeOK, Restart, Commands, NoResponse, Response

LEMMA TargetTypeInit == TargetInit => TargetTypeOK
  BY GeometryAssumption DEF TargetInit, TargetTypeOK, Commands, NoResponse, Response,
     Erased, Zero, Word

LEMMA ParseType ==
  ASSUME TargetTypeOK, ParseCmd
  PROVE  TargetTypeOK'
  <1> USE GeometryAssumption
  <1>0. /\ flash \in [Addr -> Word] /\ mode \in {"boot", "isp", "app"}
        /\ gcmd \in Commands /\ startAddr \in Int /\ totalLen \in Nat
        /\ lastLen \in 0..DataLen /\ packno \in Nat
    BY DEF TargetTypeOK
  <1>1. CASE ParseSync(inbox) \/ ParseConnect(inbox) \/ ParseQuery(inbox)
             \/ ParseRunRefused(inbox) \/ ParseStrayData(inbox)
    <2>1. inbox \in Packet /\ inbox' \in Packet \cup {NoPacket}
      BY <1>1, TakeType DEF ParseSync, ParseConnect, ParseQuery, ParseRunRefused, ParseStrayData
    <2>2. inbox.arg \in Nat
      BY <2>1 DEF Packet
    <2>3. Answer(inbox, inbox.arg) \/ Answer(inbox, 1) \/ Answer(inbox, packno)
      BY <1>1 DEF ParseSync, ParseConnect, ParseQuery, ParseRunRefused, ParseStrayData
    <2>4. mode' = "isp" /\ outbox' \in Response /\ packno' \in Nat \ {0}
      BY <1>0, <2>1, <2>2, <2>3, AnswerType
    <2>5. gcmd' \in Commands /\ flash' = flash /\ cursor' = cursor
      BY <1>0, <1>1 DEF ParseSync, ParseConnect, ParseQuery, ParseRunRefused, ParseStrayData,
         Commands
    <2> QED
      BY <1>0, <2>1, <2>4, <2>5 DEF TargetTypeOK, cursor
  <1>2. CASE ParseRun(inbox) \/ ParseReset(inbox)
    BY <1>2, RestartType DEF ParseRun, ParseReset
  <1>3. CASE ParseUpdate(inbox)
    <2>1. inbox \in Packet /\ inbox' \in Packet \cup {NoPacket}
      BY <1>3, TakeType DEF ParseUpdate
    <2>2. inbox.arg \in Nat
      BY <2>1 DEF Packet
    <2>3. Erase(flash, 0, DataFlashAddr) \in [Addr -> Word]
      BY <1>0, EraseType
    <2>4. Program(inbox, Erase(flash, 0, DataFlashAddr), 0, inbox.arg, FirstLen)
      BY <1>3 DEF ParseUpdate
    <2>5. gcmd' \in Commands
      BY <1>3 DEF ParseUpdate, Commands
    <2> QED
      BY <1>0, <2>1, <2>2, <2>3, <2>4, <2>5, ProgramType DEF TargetTypeOK
  <1>4. CASE ParseData(inbox)
    <2>1. inbox \in Packet /\ inbox' \in Packet \cup {NoPacket}
      BY <1>4, TakeType DEF ParseData
    <2>2. Program(inbox, flash, startAddr, totalLen, DataLen) /\ gcmd' = gcmd
      BY <1>4 DEF ParseData
    <2> QED
      BY <1>0, <2>1, <2>2, ProgramType DEF TargetTypeOK
  <1>5. CASE ParseResend(inbox)
    <2>1. inbox \in Packet /\ inbox' \in Packet \cup {NoPacket}
      BY <1>5, TakeType DEF ParseResend
    <2>2. /\ startAddr' = startAddr - lastLen /\ totalLen' = totalLen + lastLen
          /\ flash' = RollBack(flash, startAddr - lastLen, lastLen)
          /\ Answer(inbox, packno) /\ gcmd' = gcmd /\ lastLen' = lastLen
      BY <1>5 DEF ParseResend
    <2>3. startAddr - lastLen \in Int /\ totalLen + lastLen \in Nat
      BY <1>0
    <2>4. flash' \in [Addr -> Word]
      BY <1>0, <2>2, <2>3, RollBackType
    <2> QED
      BY <1>0, <2>1, <2>2, <2>3, <2>4, AnswerType DEF TargetTypeOK
  <1> QED
    BY <1>1, <1>2, <1>3, <1>4, <1>5 DEF ParseCmd

LEMMA TargetType ==
  ASSUME TypeOK, Target
  PROVE  TypeOK'
  <1>0. TargetTypeOK
    BY DEF TypeOK
  <1>1. TargetTypeOK'
    <2>1. CASE ParseCmd
      BY <1>0, <2>1, ParseType
    <2>2. CASE BootTimeout
      <3>1. CASE Restart("app")
        BY <1>0, <3>1, RestartType
      <3>2. CASE mode' = "isp" /\ UNCHANGED <<flash, gcmd, cursor, packno, inbox, outbox>>
        BY <1>0, <3>2 DEF TargetTypeOK, cursor
      <3> QED
        BY <2>2, <3>1, <3>2 DEF BootTimeout
    <2>3. CASE PowerCycle
      BY <1>0, <2>3, RestartType DEF PowerCycle
    <2> QED
      BY <2>1, <2>2, <2>3 DEF Target
  <1>2. UNCHANGED hostVars
    BY DEF Target
  <1> QED
    BY <1>1, <1>2 DEF TypeOK, hostVars

LEMMA FinishType ==
  ASSUME TypeOK, NEW result \in {"none", "busy", "done", "failed"}, Finish(result)
  PROVE  /\ op' \in Ops \cup {"none"} /\ pc' \in Stages /\ awaiting' \in BOOLEAN
         /\ hostIdx' \in Nat \ {0} /\ offset' \in 0..(ImageLen - 1) /\ attempt' \in Nat
         /\ expect' \in Response /\ outcome' \in {"none", "busy", "done", "failed"}
         /\ ops' = ops
  <1>1. 0 \in 0..(ImageLen - 1) /\ 18 \in Nat \ {0} /\ NoResponse \in Response
    BY ClientAssumption DEF NoResponse, Response
  <1>2. outcome \in {"none", "busy", "done", "failed"}
    BY DEF TypeOK
  <1> QED
    BY <1>1, <1>2 DEF Finish, Stages

LEMMA ThrowType ==
  ASSUME TypeOK, Throw
  PROVE  /\ op' \in Ops \cup {"none"} /\ pc' \in Stages /\ awaiting' \in BOOLEAN
         /\ hostIdx' \in Nat \ {0} /\ offset' \in 0..(ImageLen - 1) /\ attempt' \in Nat
         /\ expect' \in Response /\ outcome' \in {"none", "busy", "done", "failed"}
         /\ ops' = ops
  <1>1. CASE Finish("failed")
    BY <1>1, FinishType
  <1>2. CASE Reconnect
    <2>1. pc' = "connect" /\ awaiting' = FALSE /\ attempt' = attempt + 1
          /\ UNCHANGED <<op, hostIdx, offset, expect, outcome, ops>>
      BY <1>2 DEF Reconnect
    <2>2. attempt' \in Nat
      BY <2>1 DEF TypeOK
    <2> QED
      BY <2>1, <2>2 DEF TypeOK, Stages
  <1> QED
    BY <1>1, <1>2 DEF Throw

LEMMA OutPacketType == TypeOK => OutPacket \in Packet
  BY PacketType DEF OutPacket, TypeOK

\* Reading an answer disturbs nothing but the budget of noise.
LEMMA ReceiveType ==
  ASSUME TypeOK, NEW r, Receive(r)
  PROVE  TypeOK'
  <1>1. UNCHANGED targetVars /\ noise' \in 0..MaxNoise
    <2>1. Read(r)
      BY DEF Receive, ConnectAnswered, SyncAnswered, PrepareAnswered, VersionAnswered,
         DeviceAnswered, BlockAccepted, LastBlockAccepted, BlockRejected, ResendAnswered,
         AnswerInvalid
    <2> QED
      BY <2>1, ClientAssumption DEF Read, TypeOK
  <1>2. TargetTypeOK'
    BY <1>1 DEF TypeOK, TargetTypeOK, targetVars
  <1>3. CASE ConnectAnswered(r) \/ SyncAnswered(r) \/ VersionAnswered(r)
             \/ PrepareAnswered(r) \/ BlockRejected(r) \/ ResendAnswered(r)
    <2>1. pc' \in Stages /\ awaiting' = FALSE /\ UNCHANGED <<op, hostIdx, expect, outcome, ops>>
      BY <1>3 DEF ConnectAnswered, SyncAnswered, VersionAnswered, PrepareAnswered,
         BlockRejected, ResendAnswered, Goto, Stages
    <2>2. offset' \in 0..(ImageLen - 1) /\ attempt' \in Nat
      BY <1>3, ClientAssumption DEF TypeOK, ConnectAnswered, SyncAnswered, VersionAnswered,
         PrepareAnswered, BlockRejected, ResendAnswered
    <2> QED
      BY <1>1, <1>2, <2>1, <2>2 DEF TypeOK
  <1>4. CASE BlockAccepted(r)
    <2>1. offset' \in 0..(ImageLen - 1)
      BY <1>4, BlockLenType, ClientAssumption DEF TypeOK, BlockAccepted
    <2> QED
      BY <1>1, <1>2, <1>4, <2>1 DEF TypeOK, BlockAccepted, Goto, Stages
  <1>5. CASE DeviceAnswered(r) \/ LastBlockAccepted(r)
    <2>1. Finish("done")
      BY <1>5 DEF DeviceAnswered, LastBlockAccepted
    <2> QED
      BY <1>1, <1>2, <2>1, FinishType DEF TypeOK
  <1>6. CASE AnswerInvalid(r)
    <2>1. Throw
      BY <1>6 DEF AnswerInvalid
    <2> QED
      BY <1>1, <1>2, <2>1, ThrowType DEF TypeOK
  <1> QED
    BY <1>3, <1>4, <1>5, <1>6 DEF Receive

LEMMA SendType ==
  ASSUME TypeOK, Send
  PROVE  TypeOK'
  <1>1. OutPacket \in Packet
    BY OutPacketType
  <1>2. OutPacket.idx \in Nat /\ Checksum(OutPacket) \in Nat
    BY <1>1, ChecksumType DEF Packet
  <1>3. inbox' \in Packet /\ noise' \in 0..MaxNoise
    <2>1. CASE inbox' = OutPacket /\ UNCHANGED noise
      BY <1>1, <2>1 DEF TypeOK
    <2>2. CASE noise < MaxNoise /\ noise' = noise + 1 /\ inbox' \in Disturbed(OutPacket)
      BY <1>1, <2>2, DisturbedType, ClientAssumption DEF TypeOK
    <2> QED
      BY <2>1, <2>2 DEF Send
  <1>4. hostIdx' \in Nat \ {0} /\ expect' \in Response /\ outbox' \in Response
        /\ awaiting' \in BOOLEAN
    BY <1>2 DEF Send, Response, NoResponse
  <1>5. UNCHANGED <<flash, mode, gcmd, cursor, packno, op, pc, offset, attempt, outcome, ops>>
    BY DEF Send
  <1> QED
    BY <1>3, <1>4, <1>5 DEF TypeOK, TargetTypeOK, cursor

LEMMA StepType ==
  ASSUME TypeOK, [Next]_vars
  PROVE  TypeOK'
  <1>1. CASE Send
    BY <1>1, SendType
  <1>2. CASE SendLast
    <2>1. OutPacket \in Packet
      BY OutPacketType
    <2> QED
      BY <1>2, <2>1, FinishType DEF SendLast, TypeOK, TargetTypeOK, cursor,
         NoResponse, Response
  <1>3. CASE SendFails
    <2>1. OutPacket \in Packet
      BY OutPacketType
    <2>2. Throw /\ UNCHANGED <<flash, mode, gcmd, cursor, packno, noise>>
      BY <1>3 DEF SendFails
    <2>3. inbox' \in Packet \cup {NoPacket} /\ outbox' \in Response
      BY <1>3, <2>1 DEF SendFails, TypeOK, TargetTypeOK, NoResponse, Response
    <2> QED
      BY <2>2, <2>3, ThrowType DEF TypeOK, TargetTypeOK, cursor
  <1>4. CASE Timeout
    BY <1>4, ThrowType DEF Timeout, TypeOK, TargetTypeOK, targetVars
  <1>5. CASE Cancel
    BY <1>5, FinishType DEF Cancel, TypeOK, TargetTypeOK, targetVars
  <1>6. CASE ReceiveAny
    BY <1>6, ReceiveType DEF ReceiveAny
  <1>7. CASE Target
    BY <1>7, TargetType
  <1>8. CASE \E o \in Ops : Start(o)
    BY <1>8, ClientAssumption DEF Start, TypeOK, TargetTypeOK, targetVars, Stages
  <1>9. CASE UNCHANGED vars
    BY <1>9 DEF vars, hostVars, targetVars, TypeOK, TargetTypeOK
  <1> QED
    BY <1>1, <1>2, <1>3, <1>4, <1>5, <1>6, <1>7, <1>8, <1>9 DEF Next, Host

LEMMA InitType == Init => TypeOK
  <1> SUFFICES ASSUME Init PROVE TypeOK
    OBVIOUS
  <1>1. /\ 0 \in 0..(ImageLen - 1) /\ 18 \in Nat \ {0} /\ NoResponse \in Response
        /\ 0 \in 0..MaxNoise /\ 0 \in 0..MaxOps
    BY ClientAssumption DEF NoResponse, Response
  <1>2. TargetTypeOK
    BY TargetTypeInit DEF Init
  <1> QED
    BY <1>1, <1>2 DEF Init, TypeOK, Stages

\* TypeOK: flash, packets, cursor, indices and counters keep their ranges
\* through every interleaving of client, target, failure and restart.
THEOREM TypeInvariant == Spec => []TypeOK
  BY InitType, StepType, PTL DEF Spec

-----------------------------------------------------------------------------
(* What programming and taking back a block do *)

\* A block written over erased words is read back as it was sent.
LEMMA WriteErased ==
  ASSUME NEW f \in [Addr -> Word], NEW s \in Nat, NEW n \in 0..DataLen, NEW d \in Payload,
         s + n <= FlashSize,
         \A a \in Addr : s <= a /\ a < s + n => f[a] = Erased
  PROVE  /\ \A a \in Addr : s <= a /\ a < s + n => Write(f, s, n, d)[a] = d[a - s + 1]
         /\ \A a \in Addr : ~(s <= a /\ a < s + n) => Write(f, s, n, d)[a] = f[a]
         /\ ReadBack(Write(f, s, n, d), s, n, d) = d
  <1>0. FlashSize \in Nat /\ DataLen \in Nat
    BY GeometryAssumption
  <1>1. ASSUME NEW a \in Addr, s <= a, a < s + n
        PROVE  Write(f, s, n, d)[a] = d[a - s + 1]
    <2>1. a - s + 1 \in 1..DataLen
      BY <1>0, <1>1 DEF Addr
    <2>2. d[a - s + 1] \subseteq Bits
      BY <2>1 DEF Payload, Word
    <2>3. Write(f, s, n, d)[a] = Bits \cap d[a - s + 1]
      BY <1>1 DEF Write, Erased
    <2> QED
      BY <2>2, <2>3
  <1>2. ASSUME NEW a \in Addr, ~(s <= a /\ a < s + n)
        PROVE  Write(f, s, n, d)[a] = f[a]
    BY <1>2 DEF Write
  <1> DEFINE g == Write(f, s, n, d)
  <1>3. ASSUME NEW i \in 1..DataLen
        PROVE  (IF i > n THEN d[i]
                ELSE IF 0 <= s /\ s + i - 1 < FlashSize THEN g[s + i - 1] ELSE Zero) = d[i]
    <2>1. CASE i > n
      BY <2>1
    <2>2. CASE ~(i > n)
      <3>1. s + i - 1 \in Addr /\ s <= s + i - 1 /\ s + i - 1 < s + n /\ s + i - 1 < FlashSize
        BY <1>0, <2>2 DEF Addr
      <3>2. g[s + i - 1] = d[(s + i - 1) - s + 1]
        BY <1>1, <3>1
      <3>3. (s + i - 1) - s + 1 = i
        BY <1>0
      <3> HIDE DEF g
      <3> QED
        BY <2>2, <3>1, <3>2, <3>3
    <2> QED
      BY <2>1, <2>2
  <1>4. ReadBack(g, s, n, d) = d
    <2> HIDE DEF g
    <2>1. ReadBack(g, s, n, d) = [i \in 1..DataLen |-> d[i]]
      BY <1>3 DEF ReadBack
    <2>2. d = [i \in 1..DataLen |-> d[i]]
      BY DEF Payload
    <2> QED
      BY <2>1, <2>2
  <1> QED
    BY <1>1, <1>2, <1>4

LEMMA ModType == \A s \in Nat : s % PageSize \in 0..(PageSize - 1)
  BY GeometryAssumption

LEMMA OnePage == PageSize <= DataFlashAddr
  <1>1. SUFFICES ASSUME DataFlashAddr < PageSize PROVE FALSE
    BY GeometryAssumption
  <1>2. DataFlashAddr \in 1..(PageSize - 1)
    BY <1>1, ClientAssumption, GeometryAssumption
  <1>3. DataFlashAddr % PageSize = DataFlashAddr
    BY <1>2, GeometryAssumption
  <1> QED
    BY <1>2, <1>3, GeometryAssumption

\* Taking back the n words at s erases them and touches nothing before them.
LEMMA RollBackErases ==
  ASSUME NEW f \in [Addr -> Word], NEW s \in Nat, NEW n \in 0..DataLen, NEW top \in Nat,
         \A a \in Addr : s + n <= a /\ a < top => f[a] = Erased
  PROVE  /\ \A a \in Addr : a < s => RollBack(f, s, n)[a] = f[a]
         /\ \A a \in Addr : s <= a /\ a < top => RollBack(f, s, n)[a] = Erased
  <1> DEFINE m == s % PageSize
             end == PageOf(s) + IF m >= PageSize - n THEN 2 * PageSize ELSE PageSize
  <1>1. m \in 0..(PageSize - 1)
    BY ModType
  <1>2. end \in Int /\ s + n <= end
    <2> HIDE DEF m
    <2>1. PageOf(s) = s - m
      BY DEF PageOf, m
    <2> QED
      BY <1>1, <2>1, GeometryAssumption
  <1>3. RollBack(f, s, n) = Erase(f, s, end)
    BY DEF RollBack
  <1> HIDE DEF m, end
  <1>4. ASSUME NEW a \in Addr
        PROVE  /\ a < s => Erase(f, s, end)[a] = f[a]
               /\ s <= a /\ a < top => Erase(f, s, end)[a] = Erased
    BY <1>2, GeometryAssumption DEF Erase, Addr
  <1> QED
    BY <1>3, <1>4

-----------------------------------------------------------------------------
(* The inductive invariant *)

\* Only the transactions of an update send what the target may write.
LEMMA PacketShape ==
  ASSUME NEW n \in Nat
  PROVE  /\ pc \notin {"data", "resend"} => PacketAt(n).cmd \in Silent
         /\ pc = "resend" => PacketAt(n) = BuildPacket(ResendPacket, n, 0, NoData)
         /\ pc = "data" /\ offset = 0 =>
              PacketAt(n) = BuildPacket(UpdateAprom, n, ImageLen, Block(0))
         /\ pc = "data" /\ offset # 0 =>
              PacketAt(n) = BuildPacket(Continue, n, 0, Block(offset))
         /\ pc \in {"sync", "prepare"} =>
              PacketAt(n) = BuildPacket(SyncPackno, 1, 1, NoData)
         /\ pc \notin {"sync", "prepare"} => PacketAt(n).idx = n
  BY DEF PacketAt, BuildPacket, Silent

LEMMA InitInv == Init => IInv
  <1> SUFFICES ASSUME Init PROVE IInv
    OBVIOUS
  <1>1. TypeOK
    BY InitType
  <1>2. Shape /\ Quiet /\ Wire /\ Cursor /\ ProgramVerified
    BY DEF Init, TargetInit, Shape, Quiet, Wire, Cursor, ProgramVerified
  <1> QED
    BY <1>1, <1>2 DEF IInv

\* A transaction given up leaves at most a late packet behind.
LEMMA ThrowInv ==
  ASSUME IInv, TypeOK', Throw,
         UNCHANGED <<flash, packno>>,
         \/ UNCHANGED <<inbox, outbox>>
         \/ outbox' = NoResponse /\ inbox' \in {NoPacket, OutPacket}
  PROVE  IInv'
  <1>0. TypeOK /\ Shape /\ Quiet /\ ProgramVerified
    BY DEF IInv
  <1>1. /\ awaiting' = FALSE /\ pc' \in {"idle", "connect"}
        /\ outcome' \in {"none", "done"} => outcome' = outcome /\ op # "program"
        /\ outcome' = "busy" <=> op' = "program"
        /\ pc' = "idle" <=> op' = "none"
    BY <1>0 DEF Throw, Finish, Reconnect, Shape
  <1>2. op # "program" => OutPacket.cmd \in Silent
    <2>1. hostIdx \in Nat
      BY <1>0 DEF TypeOK
    <2> QED
      BY <1>0, <2>1, PacketShape DEF OutPacket, Shape
  <1>3. Shape'
    BY <1>0, <1>1 DEF Shape
  <1>4. Quiet'
    BY <1>0, <1>1, <1>2 DEF Quiet
  <1>5. Wire' /\ Cursor'
    BY <1>1 DEF Wire, Cursor
  <1>6. ProgramVerified'
    BY <1>0, <1>1 DEF ProgramVerified, Application, Binary
  <1> QED
    BY <1>3, <1>4, <1>5, <1>6 DEF IInv

LEMMA StartInv ==
  ASSUME IInv, TypeOK', NEW o \in Ops, Start(o)
  PROVE  IInv'
  <1>0. Shape /\ Quiet /\ ProgramVerified /\ TypeOK
    BY DEF IInv
  <1>1. /\ op = "none" /\ awaiting = FALSE /\ awaiting' = FALSE /\ op' = o /\ pc' = "connect"
        /\ outcome' = (IF o = "program" THEN "busy" ELSE outcome)
        /\ outcome # "busy"
    BY <1>0 DEF Start, Shape, TypeOK
  <1>2. UNCHANGED targetVars /\ UNCHANGED hostIdx
    BY DEF Start
  <1>3. Shape'
    BY <1>0, <1>1, <1>2 DEF Shape, targetVars, Ops
  <1>4. Quiet'
    BY <1>0, <1>1, <1>2 DEF Quiet, targetVars
  <1>5. Wire' /\ Cursor'
    BY <1>1 DEF Wire, Cursor
  <1>6. ProgramVerified'
    BY <1>0, <1>1, <1>2 DEF ProgramVerified, Application, Binary, targetVars
  <1> QED
    BY <1>3, <1>4, <1>5, <1>6 DEF IInv

LEMMA SendInv ==
  ASSUME ~NoisyCommand, IInv, TypeOK', Send
  PROVE  IInv'
  <1>0. TypeOK /\ Shape /\ Quiet /\ Cursor /\ ProgramVerified
    BY DEF IInv
  <1>1. hostIdx \in Nat \ {0} /\ packno \in Nat
    BY <1>0 DEF TypeOK, TargetTypeOK
  <1>2. /\ ~awaiting /\ awaiting' /\ pc \notin {"idle", "leave"} /\ outbox' = NoResponse
        /\ hostIdx' = OutPacket.idx + 2
        /\ expect' = [ck |-> Checksum(OutPacket), idx |-> OutPacket.idx + 1]
        /\ inbox' \in {OutPacket} \cup Disturbed(OutPacket)
        /\ UNCHANGED <<flash, gcmd, startAddr, totalLen, lastLen, packno, op, pc, offset, outcome>>
    BY DEF Send, cursor
  <1>3. OutPacket \in Packet /\ OutPacket.idx \in Nat
    BY <1>0, OutPacketType DEF Packet
  <1>4. hostIdx' \in Nat /\ hostIdx' - 2 = OutPacket.idx /\ hostIdx' - 1 = OutPacket.idx + 1
    BY <1>2, <1>3
  <1>5. PacketAt(OutPacket.idx) = OutPacket /\ OutPacket.idx >= 1
    <2>1. CASE pc \in {"sync", "prepare"}
      <3>1. OutPacket = BuildPacket(SyncPackno, 1, 1, NoData)
        BY <1>1, <2>1, PacketShape DEF OutPacket
      <3>2. PacketAt(OutPacket.idx) = BuildPacket(SyncPackno, 1, 1, NoData)
        BY <1>3, <2>1, PacketShape
      <3>3. OutPacket.idx = 1
        BY <3>1 DEF BuildPacket
      <3> QED
        BY <3>1, <3>2, <3>3
    <2>2. CASE pc \notin {"sync", "prepare"}
      <3>1. OutPacket.idx = hostIdx
        BY <1>1, <2>2, PacketShape DEF OutPacket
      <3> QED
        BY <1>1, <3>1 DEF OutPacket
    <2> QED
      BY <2>1, <2>2
  <1>6. PacketAt(hostIdx - 2)' = OutPacket
    <2>1. PacketAt(hostIdx - 2)' = PacketAt(hostIdx' - 2)
      BY <1>2 DEF PacketAt
    <2> QED
      BY <1>4, <1>5, <2>1
  <1>7. /\ pc \in {"data", "resend"} => OutPacket.idx = hostIdx
        /\ pc = "prepare" => OutPacket.idx = 1
    BY <1>1, PacketShape DEF OutPacket, BuildPacket
  <1>8. Disturbed(PacketAt(hostIdx - 2))' = Disturbed(OutPacket)
    BY <1>6 DEF Disturbed
  <1>9. Shape'
    BY <1>0, <1>1, <1>2, <1>4, <1>7 DEF Shape
  <1>10. Wire'
    <2>1. hostIdx' >= 3
      BY <1>4, <1>5
    <2>2. Checksum(PacketAt(hostIdx - 2))' = Checksum(OutPacket)
      BY <1>6 DEF Checksum
    <2>3. pc \in {"data", "resend"} => packno <= hostIdx
      BY <1>0 DEF Shape
    <2> QED
      BY <1>1, <1>2, <1>4, <1>6, <1>7, <1>8, <2>1, <2>2, <2>3 DEF Wire
  <1>11. Cursor'
    <2>1. pc \in {"data", "resend"} => hostIdx' - 2 = hostIdx
      BY <1>4, <1>7
    <2>2. Before(offset)' = Before(offset) /\ After(offset)' = After(offset)
      BY <1>2 DEF Before, After, Prefix, Clear
    <2> QED
      BY <1>0, <1>2, <2>1, <2>2 DEF Cursor
  <1>12. Quiet'
    <2>1. outcome \in {"none", "done"} => inbox'.cmd \in Silent
      <3>1. outcome \in {"none", "done"} => pc \notin {"data", "resend"}
        BY <1>0 DEF Shape
      <3>2. pc \notin {"data", "resend"} => OutPacket.cmd \in Silent
        BY <1>1, PacketShape DEF OutPacket
      <3>3. inbox'.cmd = OutPacket.cmd
        BY <1>2, <1>3, DisturbedType
      <3> QED
        BY <3>1, <3>2, <3>3
    <2> QED
      BY <1>2, <2>1 DEF Quiet
  <1>13. ProgramVerified'
    BY <1>0, <1>2 DEF ProgramVerified, Application, Binary
  <1> QED
    BY <1>9, <1>10, <1>11, <1>12, <1>13 DEF IInv

LEMMA SendLastInv ==
  ASSUME IInv, TypeOK', SendLast
  PROVE  IInv'
  <1>0. TypeOK /\ Shape /\ Quiet /\ ProgramVerified
    BY DEF IInv
  <1>1. /\ pc = "leave" /\ op # "program" /\ awaiting' = FALSE /\ pc' = "idle" /\ op' = "none"
        /\ outcome' = outcome /\ outcome # "busy" /\ inbox' = OutPacket /\ outbox' = NoResponse
        /\ UNCHANGED <<flash, packno>>
    BY <1>0 DEF SendLast, Finish, Shape
  <1>2. OutPacket.cmd \in Silent
    BY <1>0, <1>1, PacketShape DEF OutPacket, TypeOK
  <1>3. Shape' /\ Quiet' /\ Wire' /\ Cursor'
    BY <1>1, <1>2 DEF Shape, Quiet, Wire, Cursor
  <1>4. ProgramVerified'
    BY <1>0, <1>1 DEF ProgramVerified, Application, Binary
  <1> QED
    BY <1>3, <1>4 DEF IInv

\* An answer that is accepted with its index is the answer to the packet sent.
LEMMA AcceptedAnswer ==
  ASSUME IInv, NEW r, r \in {outbox} \cup DisturbedAnswer(outbox), Read(r), r.ck = expect.ck
  PROVE  /\ outbox # NoResponse /\ inbox = NoPacket /\ packno = outbox.idx + 1
         /\ outbox.ck = expect.ck
         /\ r.idx = expect.idx => packno = hostIdx
  <1>0. TypeOK /\ Shape /\ Wire
    BY DEF IInv
  <1>1. awaiting /\ outbox # NoResponse
    BY DEF Read
  <1>2. inbox = NoPacket /\ packno = outbox.idx + 1
    BY <1>0, <1>1 DEF Shape
  <1>3. /\ outbox.ck \in Nat /\ outbox.idx \in Nat /\ outbox = [ck |-> outbox.ck, idx |-> outbox.idx]
        /\ expect.ck \in Nat /\ expect.idx \in Nat /\ hostIdx \in Nat
    BY <1>0 DEF TypeOK, TargetTypeOK, Response
  <1>4. expect.idx = hostIdx - 1
    BY <1>0, <1>1 DEF Wire
  <1>5. CASE r = outbox
    BY <1>1, <1>2, <1>3, <1>4, <1>5
  <1>6. CASE r = [outbox EXCEPT !.ck = BadField]
    <2>1. r.ck = -1
      BY <1>3, <1>6 DEF BadField
    <2> QED
      BY <1>3, <2>1
  <1>7. CASE r = [outbox EXCEPT !.idx = BadField]
    <2>1. r.ck = outbox.ck /\ r.idx = -1
      BY <1>3, <1>7 DEF BadField
    <2> QED
      BY <1>1, <1>2, <1>3, <2>1
  <1> QED
    BY <1>5, <1>6, <1>7 DEF DisturbedAnswer

LEMMA ReceiveInv ==
  ASSUME IInv, TypeOK', NEW r \in {outbox} \cup DisturbedAnswer(outbox), Receive(r)
  PROVE  IInv'
  <1>0. TypeOK /\ Shape /\ Quiet /\ Wire /\ Cursor /\ ProgramVerified
    BY DEF IInv
  <1>1. Read(r)
    BY DEF Receive, ConnectAnswered, SyncAnswered, PrepareAnswered, VersionAnswered,
       DeviceAnswered, BlockAccepted, LastBlockAccepted, BlockRejected, ResendAnswered,
       AnswerInvalid
  <1>2. awaiting /\ outbox # NoResponse /\ UNCHANGED targetVars
    BY <1>1 DEF Read
  <1>3. inbox = NoPacket /\ packno = outbox.idx + 1
    BY <1>0, <1>2 DEF Shape
  <1>4. flash' = flash /\ packno' = packno /\ inbox' = inbox /\ outbox' = outbox
        /\ gcmd' = gcmd /\ startAddr' = startAddr /\ totalLen' = totalLen /\ lastLen' = lastLen
    BY <1>2 DEF targetVars
  <1>5. Quiet'
    BY <1>3, <1>4 DEF Quiet
  <1>6. ASSUME outcome' = outcome PROVE ProgramVerified'
    BY <1>0, <1>4, <1>6 DEF ProgramVerified, Application, Binary
  <1>7. CASE ConnectAnswered(r) \/ SyncAnswered(r) \/ VersionAnswered(r)
    <2>1. /\ awaiting' = FALSE /\ UNCHANGED <<op, outcome>>
          /\ pc' \in {"sync", "prepare", "fwver", "leave", "devid"}
          /\ pc' = "prepare" => op = "program"
          /\ pc' \in {"fwver", "devid", "leave"} => op # "program"
          /\ op # "none"
      BY <1>0, <1>7 DEF ConnectAnswered, SyncAnswered, VersionAnswered, Goto, Shape
    <2>2. Shape'
      BY <1>0, <1>3, <1>4, <2>1 DEF Shape
    <2>3. Wire' /\ Cursor'
      BY <2>1 DEF Wire, Cursor
    <2> QED
      BY <1>5, <1>6, <2>1, <2>2, <2>3 DEF IInv
  <1>8. CASE PrepareAnswered(r)
    <2>1. /\ awaiting' = FALSE /\ UNCHANGED <<op, hostIdx, outcome>> /\ pc' = "data" /\ offset' = 0
          /\ pc = "prepare" /\ r.ck = expect.ck
      BY <1>8 DEF PrepareAnswered, Goto, Valid
    <2>2. hostIdx = 3 /\ packno = 3
      BY <1>0, <1>1, <1>2, <2>1, AcceptedAnswer DEF Wire
    <2>3. Shape'
      BY <1>0, <1>3, <1>4, <2>1, <2>2 DEF Shape
    <2>4. Wire' /\ Cursor'
      BY <2>1 DEF Wire, Cursor, Before
    <2> QED
      BY <1>5, <1>6, <2>1, <2>3, <2>4 DEF IInv
  <1>9. CASE DeviceAnswered(r)
    <2>1. /\ op # "program" /\ Finish("done")
      BY <1>0, <1>9 DEF DeviceAnswered, Shape
    <2>2. awaiting' = FALSE /\ pc' = "idle" /\ op' = "none" /\ outcome' = outcome /\ outcome # "busy"
      BY <1>0, <2>1 DEF Finish, Shape
    <2>3. Shape'
      BY <1>0, <1>3, <1>4, <2>2 DEF Shape
    <2>4. Wire' /\ Cursor'
      BY <2>2 DEF Wire, Cursor
    <2> QED
      BY <1>5, <1>6, <2>2, <2>3, <2>4 DEF IInv
  <1>10. CASE BlockAccepted(r) \/ LastBlockAccepted(r)
    <2> DEFINE next == offset + BlockLen(offset)
    <2>1. pc = "data" /\ r.ck = expect.ck /\ r.idx = expect.idx
      BY <1>10 DEF BlockAccepted, LastBlockAccepted, Valid
    <2>2. packno = hostIdx /\ outbox.ck = expect.ck
      BY <1>1, <2>1, AcceptedAnswer
    <2>3. After(offset) /\ Prefix(next)
      BY <1>0, <1>2, <2>1, <2>2 DEF Cursor
    <2>4. offset \in 0..(ImageLen - 1) /\ ImageLen \in Nat
      BY <1>0, ClientAssumption DEF TypeOK
    <2>5. BlockLen(offset) \in Nat /\ next \in Nat /\ ImageLen - offset - BlockLen(offset) = ImageLen - next
      BY <2>4, BlockLenType, GeometryAssumption
    <2>6. op = "program" /\ hostIdx >= 3
      BY <1>0, <2>1 DEF Shape
    <2>7. CASE BlockAccepted(r)
      <3>1. /\ awaiting' = FALSE /\ UNCHANGED <<op, hostIdx, outcome>> /\ pc' = "data"
            /\ offset' = next
        BY <2>7 DEF BlockAccepted, Goto
      <3>2. Shape'
        BY <1>0, <1>3, <1>4, <2>1, <3>1 DEF Shape
      <3>3. Before(offset)'
        <4>1. gcmd = UpdateAprom /\ startAddr = next /\ totalLen = ImageLen - next /\ Clear(next)
          BY <2>3, <2>5 DEF After
        <4>2. Prefix(next)
          BY <2>3
        <4> HIDE DEF next
        <4>3. Prefix(offset)' /\ Clear(offset)'
          BY <1>4, <3>1, <4>1, <4>2 DEF Prefix, Clear
        <4> QED
          BY <1>4, <3>1, <4>1, <4>3 DEF Before
      <3>4. Wire' /\ Cursor'
        BY <3>1, <3>3 DEF Wire, Cursor
      <3> QED
        BY <1>5, <1>6, <3>1, <3>2, <3>4 DEF IInv
    <2>8. CASE LastBlockAccepted(r)
      <3>1. /\ awaiting' = FALSE /\ pc' = "idle" /\ op' = "none" /\ outcome' = "done" /\ next = ImageLen
        BY <2>6, <2>8 DEF LastBlockAccepted, Finish
      <3>2. Shape'
        BY <1>0, <1>3, <1>4, <3>1 DEF Shape
      <3>3. Wire' /\ Cursor'
        BY <3>1 DEF Wire, Cursor
      <3>4. Prefix(ImageLen) /\ Clear(ImageLen)
        BY <2>3, <3>1 DEF After
      <3>5. ASSUME NEW a \in 0..(DataFlashAddr - 1)
            PROVE  flash'[a] = (IF a < ImageLen THEN Image[a + 1] ELSE Erased)
        <4>1. a \in Addr /\ a \in Int
          BY GeometryAssumption DEF Addr
        <4>2. CASE a < ImageLen
          BY <1>4, <3>4, <4>1, <4>2 DEF Prefix
        <4>3. CASE ~(a < ImageLen)
          <5>1. ImageLen <= a /\ a < DataFlashAddr
            BY <2>4, <4>3, GeometryAssumption
          <5> QED
            BY <1>4, <3>4, <4>1, <4>3, <5>1 DEF Clear
        <4> QED
          BY <4>2, <4>3
      <3>6. ProgramVerified'
        BY <3>5 DEF ProgramVerified, Application, Binary
      <3> QED
        BY <1>5, <3>2, <3>3, <3>6 DEF IInv
    <2> QED
      BY <1>10, <2>7, <2>8
  <1>11. CASE BlockRejected(r)
    <2>1. /\ awaiting' = FALSE /\ UNCHANGED <<op, hostIdx, outcome, offset>> /\ pc = "data"
          /\ pc' = "resend" /\ offset # 0
      BY <1>11 DEF BlockRejected, Goto
    <2>2. Shape'
      BY <1>0, <1>3, <1>4, <2>1 DEF Shape
    <2>3. packno = hostIdx => After(offset)
      BY <1>0, <1>2, <2>1 DEF Cursor
    <2>4. After(offset)' = After(offset)
      BY <1>4, <2>1 DEF After, Prefix, Clear
    <2>5. Wire' /\ Cursor'
      BY <1>4, <2>1, <2>3, <2>4 DEF Wire, Cursor
    <2> QED
      BY <1>5, <1>6, <2>1, <2>2, <2>5 DEF IInv
  <1>12. CASE ResendAnswered(r)
    <2>1. /\ awaiting' = FALSE /\ UNCHANGED <<op, hostIdx, outcome, offset>> /\ pc = "resend"
          /\ pc' = "data"
      BY <1>12 DEF ResendAnswered, Goto
    <2>2. Shape'
      BY <1>0, <1>3, <1>4, <2>1 DEF Shape
    <2>3. packno = hostIdx => Before(offset)
      BY <1>0, <1>2, <2>1 DEF Cursor
    <2>4. Before(offset)' = Before(offset)
      BY <1>4, <2>1 DEF Before, Prefix, Clear
    <2>5. Wire' /\ Cursor'
      BY <1>4, <2>1, <2>3, <2>4 DEF Wire, Cursor
    <2> QED
      BY <1>5, <1>6, <2>1, <2>2, <2>5 DEF IInv
  <1>13. CASE AnswerInvalid(r)
    <2>1. Throw
      BY <1>13 DEF AnswerInvalid
    <2> QED
      BY <1>4, <2>1, ThrowInv
  <1> QED
    BY <1>7, <1>8, <1>9, <1>10, <1>11, <1>12, <1>13 DEF Receive

\* A restarted target numbers its answers from 2 again: none of them fits.
LEMMA RestartInv ==
  ASSUME IInv, TypeOK', NEW m, Restart(m), UNCHANGED hostVars
  PROVE  IInv'
  <1>0. TypeOK /\ Shape /\ Quiet /\ Wire /\ Cursor /\ ProgramVerified
    BY DEF IInv
  <1>1. inbox' = NoPacket /\ outbox' = NoResponse /\ packno' = 1 /\ flash' = flash
    BY DEF Restart
  <1>2. /\ op' = op /\ pc' = pc /\ awaiting' = awaiting /\ hostIdx' = hostIdx /\ offset' = offset
        /\ expect' = expect /\ outcome' = outcome
    BY DEF hostVars
  <1>3. Shape'
    BY <1>0, <1>1, <1>2 DEF Shape, TypeOK
  <1>4. Quiet'
    BY <1>1 DEF Quiet
  <1>5. Wire'
    <2>1. PacketAt(hostIdx - 2)' = PacketAt(hostIdx - 2)
      BY <1>2 DEF PacketAt
    <2>2. Checksum(PacketAt(hostIdx - 2))' = Checksum(PacketAt(hostIdx - 2))
      BY <2>1 DEF Checksum
    <2> QED
      BY <1>0, <1>1, <1>2, <2>1, <2>2 DEF Wire
  <1>6. Cursor'
    <2>1. pc \in {"data", "resend"} => hostIdx >= 3
      BY <1>0 DEF Shape
    <2>2. hostIdx \in Nat
      BY <1>0 DEF TypeOK
    <2> QED
      BY <1>1, <1>2, <2>1, <2>2 DEF Cursor
  <1>7. ProgramVerified'
    BY <1>0, <1>1, <1>2 DEF ProgramVerified, Application, Binary
  <1> QED
    BY <1>3, <1>4, <1>5, <1>6, <1>7 DEF IInv

\* What ParseCmd does with a packet that belongs to no update.
LEMMA SilentParse ==
  ASSUME TypeOK, ParseCmd, inbox.cmd \in Silent
  PROVE  flash' = flash
  BY DEF ParseCmd, ParseSync, ParseConnect, ParseQuery, ParseRunRefused, ParseRun, ParseReset,
     ParseUpdate, ParseData, ParseStrayData, ParseResend, IsData, Restart, Silent,
     Continue, UpdateAprom, SyncPackno, GetFwVer, RunAprom, Reset, Connect, GetDeviceId,
     ResendPacket, Unknown, ReadConfig

\* A block programmed where the flash is clear is echoed as received, and is
\* in the flash afterwards.
LEMMA ProgramClear ==
  ASSUME NEW p \in Packet, NEW f \in [Addr -> Word], NEW s \in Nat, NEW t \in Nat,
         NEW room \in 1..DataLen, NEW n \in 0..DataLen,
         n = (IF t < room THEN t ELSE room), s + n <= DataFlashAddr,
         \A a \in Addr : s <= a /\ a < DataFlashAddr => f[a] = Erased,
         packno \in Nat, Program(p, f, s, t, room)
  PROVE  /\ \A a \in Addr : s <= a /\ a < s + n => flash'[a] = p.data[a - s + 1]
         /\ \A a \in Addr : a < s => flash'[a] = f[a]
         /\ \A a \in Addr : s + n <= a /\ a < DataFlashAddr => flash'[a] = Erased
         /\ startAddr' = s + n /\ totalLen' = t - n /\ lastLen' = n
         /\ Answer(p, packno)
  <1> DEFINE g == Write(f, s, n, p.data)
  <1>0. FlashSize \in Nat /\ DataFlashAddr \in Nat /\ DataFlashAddr <= FlashSize /\ n \in Nat
    BY GeometryAssumption
  <1>1. p.data \in Payload
    BY DEF Packet
  <1>2. s + n <= FlashSize
    BY <1>0
  <1>3. \A a \in Addr : s <= a /\ a < s + n => f[a] = Erased
    BY <1>0 DEF Addr
  <1>4. /\ \A a \in Addr : s <= a /\ a < s + n => g[a] = p.data[a - s + 1]
        /\ \A a \in Addr : ~(s <= a /\ a < s + n) => g[a] = f[a]
        /\ ReadBack(g, s, n, p.data) = p.data
    BY <1>1, <1>2, <1>3, WriteErased
  <1>5. [p EXCEPT !.data = ReadBack(g, s, n, p.data)] = p
    <2> HIDE DEF g
    <2> QED
      BY <1>4 DEF Packet
  <1>6. /\ flash' = g /\ startAddr' = s + n /\ totalLen' = t - n /\ lastLen' = n
        /\ Answer([p EXCEPT !.data = ReadBack(g, s, n, p.data)], packno)
    BY DEF Program
  <1> HIDE DEF g
  <1>7. \A a \in Addr : a < s => flash'[a] = f[a]
    BY <1>0, <1>4, <1>6 DEF Addr
  <1>8. \A a \in Addr : s + n <= a /\ a < DataFlashAddr => flash'[a] = Erased
    BY <1>0, <1>4, <1>6 DEF Addr
  <1> QED
    BY <1>4, <1>5, <1>6, <1>7, <1>8

\* The target takes a block where the client wants it: the block is there
\* when the checksum of the answer is the one expected.
LEMMA BlockParsed ==
  ASSUME ~NoisyCommand, IInv, ParseCmd, inbox # NoPacket, awaiting, pc = "data",
         packno = hostIdx - 2
  PROVE  /\ outbox'.ck = expect.ck \/ offset # 0 =>
              /\ gcmd' = UpdateAprom /\ startAddr' = offset + BlockLen(offset)
              /\ totalLen' = ImageLen - offset - BlockLen(offset) /\ lastLen' = BlockLen(offset)
              /\ \A a \in Addr : a < offset => flash'[a] = Image[a + 1]
              /\ \A a \in Addr : offset + BlockLen(offset) <= a /\ a < DataFlashAddr =>
                                  flash'[a] = Erased
         /\ outbox'.ck = expect.ck =>
              \A a \in Addr : a < offset + BlockLen(offset) => flash'[a] = Image[a + 1]
  <1> DEFINE sent == PacketAt(hostIdx - 2)
             n == BlockLen(offset)
  <1>0. TypeOK /\ Shape /\ Wire /\ Cursor
    BY DEF IInv
  <1>1. /\ hostIdx >= 3 /\ hostIdx \in Nat /\ hostIdx - 2 \in Nat /\ packno \in Nat
        /\ offset \in 0..(ImageLen - 1) /\ flash \in [Addr -> Word] /\ ImageLen \in Nat \ {0}
        /\ DataFlashAddr \in Nat /\ ImageLen <= DataFlashAddr /\ DataFlashAddr <= FlashSize
        /\ FirstLen \in 1..DataLen /\ DataLen \in Nat \ {0} /\ FlashSize \in Nat
    BY <1>0, ClientAssumption, GeometryAssumption DEF TypeOK, TargetTypeOK, Shape
  <1>2. sent \in Packet
    BY <1>0, <1>1, PacketType
  <1>3. expect.ck = Checksum(sent) /\ inbox \in {sent} \cup Disturbed(sent)
    BY <1>0 DEF Wire
  <1>4. inbox \in Packet /\ inbox.cmd = sent.cmd /\ (Checksum(inbox) = Checksum(sent) => inbox = sent)
    BY <1>2, <1>3, DisturbedType
  <1>5. n \in 1..DataLen /\ n \in Nat /\ offset + n <= ImageLen /\ Block(offset) \in Payload
    BY <1>1, BlockLenType
  <1>6. Before(offset)
    BY <1>0 DEF Cursor
  <1>7. CASE offset = 0
    <2>1. sent = BuildPacket(UpdateAprom, hostIdx - 2, ImageLen, Block(0))
      BY <1>1, <1>7, PacketShape
    <2>2. inbox.cmd = UpdateAprom
      BY <1>4, <2>1 DEF BuildPacket
    <2>3. ParseUpdate(inbox)
      BY <2>2 DEF ParseCmd, ParseSync, ParseConnect, ParseQuery, ParseRunRefused, ParseRun,
         ParseReset, ParseData, ParseStrayData, ParseResend, IsData, Continue, UpdateAprom,
         SyncPackno, GetFwVer, RunAprom, Reset, Connect, GetDeviceId, ResendPacket, Unknown,
         ReadConfig
    <2> DEFINE f == Erase(flash, 0, DataFlashAddr)
               k == IF inbox.arg < FirstLen THEN inbox.arg ELSE FirstLen
    <2>4. f \in [Addr -> Word] /\ \A a \in Addr : 0 <= a /\ a < DataFlashAddr => f[a] = Erased
      BY <1>1, EraseType DEF Erase
    <2>5. inbox.arg \in Nat /\ k \in 0..DataLen /\ k <= DataFlashAddr
      BY <1>1, <1>4, OnePage, GeometryAssumption DEF Packet
    <2>6. Program(inbox, f, 0, inbox.arg, FirstLen) /\ gcmd' = UpdateAprom
      BY <2>3 DEF ParseUpdate
    <2> DEFINE t == inbox.arg
    <2>7. /\ \A a \in Addr : 0 <= a /\ a < 0 + k => flash'[a] = inbox.data[a - 0 + 1]
          /\ \A a \in Addr : 0 + k <= a /\ a < DataFlashAddr => flash'[a] = Erased
          /\ startAddr' = 0 + k /\ totalLen' = t - k /\ lastLen' = k
          /\ Answer(inbox, packno)
      <3>1. t \in Nat /\ k \in 0..DataLen /\ k = (IF t < FirstLen THEN t ELSE FirstLen)
            /\ 0 \in Nat /\ 0 + k <= DataFlashAddr
            /\ Program(inbox, f, 0, t, FirstLen)
        BY <1>1, <2>5, <2>6
      <3>2. packno \in Nat /\ inbox \in Packet /\ FirstLen \in 1..DataLen
        BY <1>1, <1>4
      <3> HIDE DEF f, k, t
      <3>3. /\ \A a \in Addr : 0 <= a /\ a < 0 + k => flash'[a] = inbox.data[a - 0 + 1]
            /\ \A a \in Addr : a < 0 => flash'[a] = f[a]
            /\ \A a \in Addr : 0 + k <= a /\ a < DataFlashAddr => flash'[a] = Erased
            /\ startAddr' = 0 + k /\ totalLen' = t - k /\ lastLen' = k
            /\ Answer(inbox, packno)
        BY <2>4, <3>1, <3>2, ProgramClear
      <3> QED
        BY <3>3
    <2>8. ASSUME outbox'.ck = expect.ck
          PROVE  /\ gcmd' = UpdateAprom /\ startAddr' = offset + n
                 /\ totalLen' = ImageLen - offset - n /\ lastLen' = n
                 /\ \A a \in Addr : a < offset => flash'[a] = Image[a + 1]
                 /\ \A a \in Addr : offset + n <= a /\ a < DataFlashAddr => flash'[a] = Erased
                 /\ \A a \in Addr : a < offset + n => flash'[a] = Image[a + 1]
      <3>1. inbox = sent
        BY <1>3, <1>4, <2>7, <2>8 DEF Answer
      <3>2. inbox.arg = ImageLen /\ inbox.data = Block(0)
        BY <2>1, <3>1 DEF BuildPacket
      <3>3. k = n
        BY <1>1, <1>7, <3>2 DEF BlockLen
      <3> HIDE DEF k
      <3>4. ASSUME NEW a \in Addr, a < n
            PROVE  flash'[a] = Image[a + 1]
        <4>1. flash'[a] = Block(0)[a + 1] /\ a + 1 \in 1..DataLen /\ a + 1 <= BlockLen(0)
          BY <1>1, <1>5, <1>7, <2>7, <3>2, <3>3, <3>4 DEF Addr
        <4> QED
          BY <4>1 DEF Block
      <3> HIDE DEF n
      <3>5. 0 + n = n /\ offset + n = n /\ ImageLen - offset - n = ImageLen - n
        BY <1>1, <1>5, <1>7
      <3>6. startAddr' = n /\ totalLen' = ImageLen - n /\ lastLen' = n
        BY <2>7, <3>2, <3>3, <3>5
      <3>7. \A a \in Addr : n <= a /\ a < DataFlashAddr => flash'[a] = Erased
        BY <2>7, <3>3, <3>5
      <3>8. \A a \in Addr : ~(a < offset)
        BY <1>7 DEF Addr
      <3> QED
        BY <2>6, <3>4, <3>5, <3>6, <3>7, <3>8
    <2> QED
      BY <1>7, <2>8
  <1>8. CASE offset # 0
    <2>1. sent = BuildPacket(Continue, hostIdx - 2, 0, Block(offset))
      BY <1>1, <1>8, PacketShape
    <2>2. inbox.cmd = Continue
      BY <1>4, <2>1 DEF BuildPacket
    <2>3. /\ gcmd = UpdateAprom /\ startAddr = offset /\ totalLen = ImageLen - offset
          /\ Prefix(offset) /\ Clear(offset)
      BY <1>6, <1>8 DEF Before
    <2>4. ParseData(inbox)
      BY <2>2, <2>3 DEF ParseCmd, ParseSync, ParseConnect, ParseQuery, ParseRunRefused, ParseRun,
         ParseReset, ParseUpdate, ParseStrayData, ParseResend, IsData, Continue, UpdateAprom,
         SyncPackno, GetFwVer, RunAprom, Reset, Connect, GetDeviceId, ResendPacket, Unknown,
         ReadConfig
    <2>5. Program(inbox, flash, offset, ImageLen - offset, DataLen) /\ gcmd' = UpdateAprom
      BY <2>3, <2>4 DEF ParseData
    <2>6. /\ n = (IF ImageLen - offset < DataLen THEN ImageLen - offset ELSE DataLen)
          /\ offset \in Nat /\ ImageLen - offset \in Nat /\ offset + n <= DataFlashAddr
          /\ n \in 0..DataLen /\ DataLen \in 1..DataLen
      BY <1>1, <1>5, <1>8 DEF BlockLen
    <2> HIDE DEF n
    <2>7. /\ \A a \in Addr : offset <= a /\ a < offset + n => flash'[a] = inbox.data[a - offset + 1]
          /\ \A a \in Addr : a < offset => flash'[a] = flash[a]
          /\ \A a \in Addr : offset + n <= a /\ a < DataFlashAddr => flash'[a] = Erased
          /\ startAddr' = offset + n /\ totalLen' = ImageLen - offset - n /\ lastLen' = n
          /\ Answer(inbox, packno)
      <3>1. \A a \in Addr : offset <= a /\ a < DataFlashAddr => flash[a] = Erased
        BY <2>3 DEF Clear
      <3> DEFINE left == ImageLen - offset
      <3>2. left \in Nat /\ n = (IF left < DataLen THEN left ELSE DataLen)
            /\ Program(inbox, flash, offset, left, DataLen)
        BY <2>5, <2>6
      <3> HIDE DEF left
      <3>3. flash \in [Addr -> Word] /\ packno \in Nat /\ inbox \in Packet
        BY <1>1, <1>4
      <3>4. /\ \A a \in Addr : offset <= a /\ a < offset + n => flash'[a] = inbox.data[a - offset + 1]
            /\ \A a \in Addr : a < offset => flash'[a] = flash[a]
            /\ \A a \in Addr : offset + n <= a /\ a < DataFlashAddr => flash'[a] = Erased
            /\ startAddr' = offset + n /\ totalLen' = left - n /\ lastLen' = n
            /\ Answer(inbox, packno)
        BY <2>6, <3>1, <3>2, <3>3, ProgramClear
      <3> QED
        BY <3>4 DEF left
    <2>8. \A a \in Addr : a < offset => flash'[a] = Image[a + 1]
      BY <2>3, <2>7 DEF Prefix
    <2>9. ASSUME outbox'.ck = expect.ck, NEW a \in Addr, a < offset + n
          PROVE  flash'[a] = Image[a + 1]
      <3>1. inbox = sent
        BY <1>3, <1>4, <2>7, <2>9 DEF Answer
      <3>2. inbox.data = Block(offset)
        BY <2>1, <3>1 DEF BuildPacket
      <3>3. CASE a < offset
        BY <2>8, <3>3
      <3>4. CASE offset <= a
        <4>1. a - offset + 1 \in 1..DataLen /\ a - offset + 1 <= n /\ offset + (a - offset + 1) = a + 1
          BY <1>1, <2>6, <2>9, <3>4 DEF Addr
        <4>2. flash'[a] = Block(offset)[a - offset + 1]
          BY <2>7, <2>9, <3>2, <3>4
        <4>3. Block(offset)[a - offset + 1] = Image[offset + (a - offset + 1)]
          BY <4>1 DEF Block, n
        <4> QED
          BY <4>1, <4>2, <4>3
      <3> QED
        BY <2>6, <3>3, <3>4, GeometryAssumption DEF Addr
    <2> QED
      BY <2>5, <2>7, <2>8, <2>9 DEF n
  <1> QED
    BY <1>7, <1>8

\* CMD_RESEND_PACKET puts the target back before the block at offset.
LEMMA ResendParsed ==
  ASSUME ~TwoK, ~NoisyCommand, IInv, ParseCmd, inbox # NoPacket, awaiting, pc = "resend",
         packno = hostIdx - 2
  PROVE  /\ gcmd' = UpdateAprom /\ startAddr' = offset /\ totalLen' = ImageLen - offset
         /\ \A a \in Addr : a < offset => flash'[a] = Image[a + 1]
         /\ \A a \in Addr : offset <= a /\ a < DataFlashAddr => flash'[a] = Erased
  <1> DEFINE sent == PacketAt(hostIdx - 2)
             n == BlockLen(offset)
  <1>0. TypeOK /\ Shape /\ Wire /\ Cursor
    BY DEF IInv
  <1>1. /\ hostIdx - 2 \in Nat /\ offset \in 0..(ImageLen - 1) /\ offset \in Nat
        /\ flash \in [Addr -> Word] /\ ImageLen \in Nat /\ DataFlashAddr \in Nat
    BY <1>0, ClientAssumption, GeometryAssumption DEF TypeOK, TargetTypeOK, Shape
  <1>2. sent \in Packet /\ sent.cmd = ResendPacket
    BY <1>0, <1>1, PacketType, PacketShape DEF BuildPacket
  <1>3. inbox.cmd = ResendPacket
    BY <1>0, <1>2, DisturbedType DEF Wire
  <1>4. ParseResend(inbox)
    BY <1>3 DEF ParseCmd, ParseSync, ParseConnect, ParseQuery, ParseRunRefused, ParseRun,
       ParseReset, ParseUpdate, ParseData, ParseStrayData, IsData, Continue, UpdateAprom,
       SyncPackno, GetFwVer, RunAprom, Reset, Connect, GetDeviceId, ResendPacket, Unknown,
         ReadConfig
  <1>5. /\ gcmd = UpdateAprom /\ startAddr = offset + n /\ totalLen = ImageLen - offset - n
        /\ lastLen = n /\ Prefix(offset) /\ Clear(offset + n)
    BY <1>0 DEF Cursor, After
  <1>6. n \in 0..DataLen /\ n \in Nat
    BY <1>1, BlockLenType, GeometryAssumption
  <1> HIDE DEF n
  <1>7. startAddr - lastLen = offset /\ totalLen + lastLen = ImageLen - offset
    BY <1>1, <1>5, <1>6
  <1>8. /\ gcmd' = UpdateAprom /\ startAddr' = offset /\ totalLen' = ImageLen - offset
        /\ flash' = RollBack(flash, offset, n)
    BY <1>4, <1>5, <1>7 DEF ParseResend
  <1>9. \A a \in Addr : offset + n <= a /\ a < DataFlashAddr => flash[a] = Erased
    BY <1>5 DEF Clear
  <1>10. /\ \A a \in Addr : a < offset => flash'[a] = flash[a]
         /\ \A a \in Addr : offset <= a /\ a < DataFlashAddr => flash'[a] = Erased
    <2> DEFINE g == RollBack(flash, offset, n)
    <2>1. /\ \A a \in Addr : a < offset => g[a] = flash[a]
          /\ \A a \in Addr : offset <= a /\ a < DataFlashAddr => g[a] = Erased
      BY <1>1, <1>6, <1>9, RollBackErases
    <2> HIDE DEF g
    <2> QED
      BY <1>8, <2>1 DEF g
  <1> QED
    BY <1>5, <1>8, <1>10 DEF Prefix

\* Every command answers with the next index, or restarts the target.
LEMMA ParseAnswers ==
  ASSUME TypeOK, ParseCmd
  PROVE  \/ Restart("app") \/ Restart("boot")
         \/ /\ inbox # NoPacket /\ inbox' = NoPacket
            /\ outbox'.idx \in Nat /\ packno' = outbox'.idx + 1
            /\ inbox.cmd \notin {SyncPackno, Connect} => packno' = packno + 2
            /\ inbox.cmd = SyncPackno =>
                 outbox'.ck = Checksum(inbox) /\ packno' = inbox.arg + 2
  <1>0. packno \in Nat /\ (inbox # NoPacket => inbox \in Packet)
    BY DEF TypeOK, TargetTypeOK
  <1>1. ASSUME NEW b, NEW n \in Nat, Answer(b, n)
        PROVE  /\ outbox'.idx \in Nat /\ packno' = outbox'.idx + 1
               /\ outbox'.ck = Checksum(b) /\ packno' = n + 2
    BY <1>1 DEF Answer
  <1>2. ASSUME NEW f, NEW s, NEW t, NEW room, Program(inbox, f, s, t, room)
        PROVE  outbox'.idx \in Nat /\ packno' = outbox'.idx + 1 /\ packno' = packno + 2
    BY <1>0, <1>1, <1>2 DEF Program
  <1>3. CASE ParseSync(inbox)
    <2>1. inbox # NoPacket /\ inbox' = NoPacket /\ inbox.cmd = SyncPackno /\ Answer(inbox, inbox.arg)
      BY <1>3 DEF ParseSync, Take
    <2>2. inbox.arg \in Nat
      BY <1>0, <2>1 DEF Packet
    <2> QED
      BY <1>1, <2>1, <2>2
  <1>4. CASE ParseConnect(inbox)
    BY <1>1, <1>4 DEF ParseConnect, Take, Connect, SyncPackno
  <1>5. CASE ParseQuery(inbox) \/ ParseRunRefused(inbox) \/ ParseStrayData(inbox) \/ ParseResend(inbox)
    BY <1>0, <1>1, <1>5 DEF ParseQuery, ParseRunRefused, ParseStrayData, ParseResend, IsData, Take, Continue,
       UpdateAprom, SyncPackno, GetFwVer, RunAprom, Reset, Connect, GetDeviceId, ResendPacket, Unknown,
         ReadConfig
  <1>6. CASE ParseRun(inbox) \/ ParseReset(inbox)
    BY <1>6 DEF ParseRun, ParseReset
  <1>7. CASE ParseUpdate(inbox) \/ ParseData(inbox)
    BY <1>2, <1>7 DEF ParseUpdate, ParseData, IsData, Take, Continue, UpdateAprom, SyncPackno, Connect,
       ResendPacket
  <1> QED
    BY <1>3, <1>4, <1>5, <1>6, <1>7 DEF ParseCmd

LEMMA ParseInv ==
  ASSUME ~TwoK, ~NoisyCommand, IInv, TypeOK', ParseCmd, UNCHANGED hostVars
  PROVE  IInv'
  <1>0. TypeOK /\ Shape /\ Quiet /\ Wire /\ Cursor /\ ProgramVerified
    BY DEF IInv
  <1>1. CASE Restart("app") \/ Restart("boot")
    BY <1>1, RestartInv
  <1>2. CASE /\ inbox # NoPacket /\ inbox' = NoPacket
             /\ outbox'.idx \in Nat /\ packno' = outbox'.idx + 1
             /\ inbox.cmd \notin {SyncPackno, Connect} => packno' = packno + 2
             /\ inbox.cmd = SyncPackno =>
                  outbox'.ck = Checksum(inbox) /\ packno' = inbox.arg + 2
    <2>1. /\ op' = op /\ pc' = pc /\ awaiting' = awaiting /\ hostIdx' = hostIdx
          /\ offset' = offset /\ expect' = expect /\ outcome' = outcome
      BY DEF hostVars
    <2>2. packno \in Nat /\ hostIdx \in Nat /\ offset \in Nat /\ inbox \in Packet
      BY <1>0, <1>2 DEF TypeOK, TargetTypeOK
    <2>3. pc \in {"data", "resend"} =>
            awaiting /\ hostIdx >= 3 /\ packno <= hostIdx - 2 /\ packno' = packno + 2
      <3> SUFFICES ASSUME pc \in {"data", "resend"}
                   PROVE  awaiting /\ hostIdx >= 3 /\ packno <= hostIdx - 2 /\ packno' = packno + 2
        OBVIOUS
      <3>1. awaiting
        BY <1>0, <1>2 DEF Shape
      <3>2. hostIdx >= 3 /\ packno <= hostIdx - 2 /\ inbox \in {PacketAt(hostIdx - 2)} \cup Disturbed(PacketAt(hostIdx - 2))
        BY <1>0, <1>2, <3>1 DEF Wire
      <3>3. hostIdx - 2 \in Nat
        BY <2>2, <3>2
      <3>4. PacketAt(hostIdx - 2) \in Packet
        BY <1>0, <3>3, PacketType
      <3>5. PacketAt(hostIdx - 2).cmd \in {UpdateAprom, Continue, ResendPacket}
        BY <3>3, PacketShape DEF BuildPacket
      <3>6. inbox.cmd \in {UpdateAprom, Continue, ResendPacket}
        BY <3>2, <3>4, <3>5, DisturbedType
      <3> QED
        BY <1>2, <3>1, <3>2, <3>6 DEF UpdateAprom, Continue, ResendPacket, SyncPackno, Connect
    <2>4. Shape'
      <3>1. pc \in {"data", "resend"} => packno' <= hostIdx
        BY <2>2, <2>3
      <3> QED
        BY <1>0, <1>2, <2>1, <3>1 DEF Shape
    <2>5. Quiet'
      BY <1>2 DEF Quiet
    <2>6. outcome \in {"none", "done"} => flash' = flash
      BY <1>0, <1>2, SilentParse DEF Quiet
    <2>7. ProgramVerified'
      BY <1>0, <2>1, <2>6 DEF ProgramVerified, Application, Binary
    <2>8. Wire'
      <3>1. PacketAt(hostIdx - 2)' = PacketAt(hostIdx - 2)
        BY <2>1 DEF PacketAt
      <3>2. Checksum(PacketAt(hostIdx - 2))' = Checksum(PacketAt(hostIdx - 2))
        BY <3>1 DEF Checksum
      <3>3. ASSUME awaiting, pc = "prepare", outbox'.ck = expect.ck
            PROVE  packno' = 3
        <4> DEFINE sent == PacketAt(hostIdx - 2)
        <4>1. /\ hostIdx - 2 \in Nat /\ expect.ck = Checksum(sent)
              /\ inbox \in {sent} \cup Disturbed(sent)
          BY <1>0, <1>2, <2>2, <3>3 DEF Wire
        <4>2. sent \in Packet /\ sent = BuildPacket(SyncPackno, 1, 1, NoData)
          BY <1>0, <3>3, <4>1, PacketType, PacketShape
        <4>3. sent.cmd = SyncPackno /\ sent.arg = 1
          BY <4>2 DEF BuildPacket
        <4>4. inbox.cmd = SyncPackno
          BY <4>1, <4>2, <4>3, DisturbedType
        <4>5. Checksum(inbox) = Checksum(sent)
          BY <1>2, <3>3, <4>1, <4>4
        <4>6. inbox = sent
          BY <4>1, <4>2, <4>5, DisturbedType
        <4> QED
          BY <1>2, <4>3, <4>4, <4>6
      <3> QED
        BY <1>0, <1>2, <2>1, <3>1, <3>2, <3>3 DEF Wire
    <2>9. Cursor'
      <3>1. ASSUME pc = "data", awaiting, packno' = hostIdx
            PROVE  /\ offset # 0 => After(offset)'
                   /\ outbox'.ck = expect.ck => After(offset)' /\ Prefix(offset + BlockLen(offset))'
        <4>1. packno = hostIdx - 2
          BY <2>2, <2>3, <3>1
        <4>2. /\ outbox'.ck = expect.ck \/ offset # 0 =>
                 /\ gcmd' = UpdateAprom /\ startAddr' = offset + BlockLen(offset)
                 /\ totalLen' = ImageLen - offset - BlockLen(offset) /\ lastLen' = BlockLen(offset)
                 /\ \A a \in Addr : a < offset => flash'[a] = Image[a + 1]
                 /\ \A a \in Addr : offset + BlockLen(offset) <= a /\ a < DataFlashAddr =>
                                     flash'[a] = Erased
              /\ outbox'.ck = expect.ck =>
                   \A a \in Addr : a < offset + BlockLen(offset) => flash'[a] = Image[a + 1]
          BY <1>2, <3>1, <4>1, BlockParsed
        <4> QED
          BY <2>1, <4>2 DEF After, Prefix, Clear, BlockLen
      <3>2. ASSUME pc = "resend", awaiting, packno' = hostIdx
            PROVE  Before(offset)'
        <4>1. packno = hostIdx - 2
          BY <2>2, <2>3, <3>2
        <4>2. /\ gcmd' = UpdateAprom /\ startAddr' = offset /\ totalLen' = ImageLen - offset
              /\ \A a \in Addr : a < offset => flash'[a] = Image[a + 1]
              /\ \A a \in Addr : offset <= a /\ a < DataFlashAddr => flash'[a] = Erased
          BY <1>2, <3>2, <4>1, ResendParsed
        <4> QED
          BY <2>1, <4>2 DEF Before, Prefix, Clear
      <3> QED
        BY <1>2, <2>1, <2>3, <3>1, <3>2 DEF Cursor
    <2> QED
      BY <2>4, <2>5, <2>7, <2>8, <2>9 DEF IInv
  <1> QED
    BY <1>0, <1>1, <1>2, ParseAnswers

LEMMA StepInv ==
  ASSUME ~TwoK, ~NoisyCommand, IInv, [Next]_vars
  PROVE  IInv'
  <1>0. TypeOK /\ Shape /\ Quiet /\ Wire /\ Cursor /\ ProgramVerified
    BY DEF IInv
  <1>1. TypeOK'
    BY <1>0, StepType
  <1>2. CASE Send
    BY <1>1, <1>2, SendInv
  <1>3. CASE SendLast
    BY <1>1, <1>3, SendLastInv
  <1>4. CASE SendFails
    BY <1>1, <1>4, ThrowInv DEF SendFails
  <1>5. CASE Timeout
    BY <1>1, <1>5, ThrowInv DEF Timeout, targetVars
  <1>6. CASE Cancel
    BY <1>1, <1>6, ThrowInv DEF Cancel, Throw, targetVars
  <1>7. CASE ReceiveAny
    BY <1>1, <1>7, ReceiveInv DEF ReceiveAny
  <1>8. CASE \E o \in Ops : Start(o)
    BY <1>1, <1>8, StartInv
  <1>9. ASSUME UNCHANGED <<flash, gcmd, cursor, packno, inbox, outbox>>, UNCHANGED hostVars
        PROVE  IInv'
    <2>1. UNCHANGED <<flash, gcmd, startAddr, totalLen, lastLen, packno, inbox, outbox,
                      op, pc, awaiting, hostIdx, offset, expect, outcome>>
      BY <1>9 DEF cursor, hostVars
    <2>2. PacketAt(hostIdx - 2)' = PacketAt(hostIdx - 2)
      BY <2>1 DEF PacketAt
    <2>3. Wire'
      BY <1>0, <2>1, <2>2 DEF Wire, Checksum, Disturbed
    <2>4. Cursor'
      BY <1>0, <2>1 DEF Cursor, Before, After, Prefix, Clear, BlockLen
    <2>5. Shape' /\ Quiet' /\ ProgramVerified'
      BY <1>0, <2>1 DEF Shape, Quiet, ProgramVerified, Application, Binary
    <2> QED
      BY <1>1, <2>3, <2>4, <2>5 DEF IInv
  <1>10. CASE Target
    <2>1. UNCHANGED hostVars
      BY <1>10 DEF Target
    <2>2. CASE ParseCmd
      BY <1>1, <2>1, <2>2, ParseInv
    <2>3. CASE BootTimeout
      BY <1>1, <1>9, <2>1, <2>3, RestartInv DEF BootTimeout
    <2>4. CASE PowerCycle
      BY <1>1, <2>1, <2>4, RestartInv DEF PowerCycle
    <2> QED
      BY <1>10, <2>2, <2>3, <2>4 DEF Target
  <1>11. CASE UNCHANGED vars
    BY <1>9, <1>11 DEF vars, targetVars, cursor
  <1> QED
    BY <1>2, <1>3, <1>4, <1>5, <1>6, <1>7, <1>8, <1>10, <1>11 DEF Next, Host

\* The inductive invariant of the 4 KB target on a bus that spares commands.
THEOREM InductiveInvariant ==
  ASSUME ~TwoK, ~NoisyCommand
  PROVE  Spec => []IInv
  BY InitInv, StepInv, PTL DEF Spec

\* ProgramVerified: a success Program APROM reports is true, whatever was
\* lost, disturbed, cancelled or restarted on the way.
THEOREM Verified ==
  ASSUME ~TwoK, ~NoisyCommand
  PROVE  Spec => []ProgramVerified
  <1>1. IInv => ProgramVerified
    BY DEF IInv
  <1> QED
    BY <1>1, InductiveInvariant, PTL

-----------------------------------------------------------------------------
(* Acknowledged blocks stay *)

\* After the first block the client sends data or asks for a resend.
LEMMA UpdateGoesOn ==
  ASSUME ~NoisyCommand, IInv, pc \in {"data", "resend"}, offset # 0, inbox # NoPacket
  PROVE  awaiting /\ inbox.cmd \in {Continue, ResendPacket}
  <1>0. TypeOK /\ Shape /\ Wire
    BY DEF IInv
  <1>1. awaiting
    BY <1>0 DEF Shape
  <1>2. hostIdx - 2 \in Nat /\ inbox \in {PacketAt(hostIdx - 2)} \cup Disturbed(PacketAt(hostIdx - 2))
    BY <1>0, <1>1 DEF Wire, TypeOK
  <1>3. PacketAt(hostIdx - 2) \in Packet
    BY <1>0, <1>2, PacketType
  <1>4. PacketAt(hostIdx - 2).cmd \in {Continue, ResendPacket}
    BY <1>2, PacketShape DEF BuildPacket
  <1> QED
    BY <1>1, <1>2, <1>3, <1>4, DisturbedType

LEMMA ParseAcked ==
  ASSUME ~TwoK, ~NoisyCommand, IInv, IInv', AckInv, ParseCmd, UNCHANGED hostVars
  PROVE  AckInv'
  <1> SUFFICES ASSUME pc \in {"data", "resend"}, offset # 0, gcmd' = UpdateAprom
               PROVE  Prefix(offset)' /\ packno' = hostIdx /\ inbox' = NoPacket
    BY DEF AckInv, hostVars
  <1>0. TypeOK /\ Cursor'
    BY DEF IInv
  <1>1. ~Restart("app") /\ ~Restart("boot")
    BY DEF Restart, UpdateAprom, Continue
  <1>2. /\ inbox # NoPacket /\ inbox' = NoPacket
        /\ outbox'.idx \in Nat /\ packno' = outbox'.idx + 1
        /\ inbox.cmd \notin {SyncPackno, Connect} => packno' = packno + 2
    BY <1>0, <1>1, ParseAnswers
  <1>3. awaiting /\ inbox.cmd \in {Continue, ResendPacket}
    BY <1>2, UpdateGoesOn
  <1>4. gcmd = UpdateAprom
    BY <1>1, <1>3 DEF ParseCmd, ParseSync, ParseConnect, ParseQuery, ParseRunRefused, ParseRun,
       ParseReset, ParseUpdate, ParseData, ParseStrayData, ParseResend, Continue, UpdateAprom,
       SyncPackno, GetFwVer, RunAprom, Reset, Connect, GetDeviceId, ResendPacket, Unknown, ReadConfig
  <1>5. packno = hostIdx - 2 /\ Prefix(offset)
    BY <1>2, <1>3, <1>4 DEF AckInv
  <1>6. packno' = hostIdx
    BY <1>0, <1>2, <1>3, <1>5 DEF TypeOK, Continue, ResendPacket, SyncPackno, Connect
  <1>7. /\ pc' = pc /\ awaiting' /\ offset' = offset /\ packno' = hostIdx'
        /\ outbox' # NoResponse
    <2>1. outbox' # NoResponse
      BY <1>0, <1>2, <1>3 DEF NoResponse, TypeOK, TargetTypeOK, Continue, ResendPacket,
         SyncPackno, Connect
    <2> QED
      BY <1>3, <1>6, <2>1 DEF hostVars
  <1>8. Prefix(offset)'
    BY <1>0, <1>7 DEF Cursor, Before, After
  <1> QED
    BY <1>2, <1>6, <1>8

LEMMA ReceiveAcked ==
  ASSUME IInv, AckInv, NEW r \in {outbox} \cup DisturbedAnswer(outbox), Receive(r)
  PROVE  AckInv'
  <1>0. TypeOK /\ Shape /\ Cursor
    BY DEF IInv
  <1>1. Read(r)
    BY DEF Receive, ConnectAnswered, SyncAnswered, PrepareAnswered, VersionAnswered,
       DeviceAnswered, BlockAccepted, LastBlockAccepted, BlockRejected, ResendAnswered,
       AnswerInvalid
  <1>2. /\ awaiting /\ outbox # NoResponse /\ inbox = NoPacket
        /\ UNCHANGED <<flash, gcmd, packno, inbox, outbox>>
    BY <1>0, <1>1 DEF Read, Shape, targetVars
  <1>3. CASE BlockAccepted(r)
    <2>1. pc = "data" /\ r.ck = expect.ck /\ r.idx = expect.idx
      BY <1>3 DEF BlockAccepted, Valid
    <2>2. packno = hostIdx /\ outbox.ck = expect.ck
      BY <1>1, <2>1, AcceptedAnswer
    <2>3. Prefix(offset + BlockLen(offset))
      BY <1>0, <1>2, <2>1, <2>2 DEF Cursor
    <2>4. hostIdx' = hostIdx /\ offset' = offset + BlockLen(offset)
      BY <1>3 DEF BlockAccepted, Goto
    <2>5. Prefix(offset)'
      BY <1>2, <2>3, <2>4 DEF Prefix
    <2> QED
      BY <1>2, <2>2, <2>4, <2>5 DEF AckInv
  <1>4. CASE BlockRejected(r) \/ ResendAnswered(r)
    <2>1. pc \in {"data", "resend"} /\ offset' = offset /\ hostIdx' = hostIdx
      BY <1>4 DEF BlockRejected, ResendAnswered, Goto
    <2>2. Prefix(offset)' = Prefix(offset)
      BY <1>2, <2>1 DEF Prefix
    <2> QED
      BY <1>2, <2>1, <2>2 DEF AckInv
  <1>5. CASE ConnectAnswered(r) \/ SyncAnswered(r) \/ VersionAnswered(r) \/ PrepareAnswered(r)
    BY <1>5 DEF ConnectAnswered, SyncAnswered, VersionAnswered, PrepareAnswered, Goto, AckInv
  <1>6. CASE DeviceAnswered(r) \/ LastBlockAccepted(r) \/ AnswerInvalid(r)
    BY <1>6 DEF DeviceAnswered, LastBlockAccepted, AnswerInvalid, Throw, Finish, Reconnect, AckInv
  <1> QED
    BY <1>3, <1>4, <1>5, <1>6 DEF Receive

LEMMA StepAcked ==
  ASSUME ~TwoK, ~NoisyCommand, IInv, IInv', AckInv, [Next]_vars
  PROVE  AckInv'
  <1>0. TypeOK /\ Shape
    BY DEF IInv
  <1>1. CASE Send
    <2>1. /\ ~awaiting /\ awaiting' = TRUE /\ hostIdx' = OutPacket.idx + 2 /\ outbox' = NoResponse
          /\ UNCHANGED <<flash, gcmd, packno, pc, offset>>
      BY <1>1 DEF Send
    <2>2. ASSUME pc \in {"data", "resend"} PROVE hostIdx' - 2 = hostIdx
      <3>1. OutPacket.idx = hostIdx
        BY <2>2 DEF OutPacket, PacketAt, BuildPacket
      <3> QED
        BY <1>0, <2>1, <3>1 DEF TypeOK
    <2>3. Prefix(offset)' = Prefix(offset)
      BY <2>1 DEF Prefix
    <2> QED
      BY <2>1, <2>2, <2>3 DEF AckInv
  <1>2. CASE SendLast \/ SendFails \/ Timeout \/ Cancel \/ \E o \in Ops : Start(o)
    BY <1>2 DEF SendLast, SendFails, Timeout, Cancel, Start, Throw, Finish, Reconnect, AckInv
  <1>3. CASE ReceiveAny
    BY <1>3, ReceiveAcked DEF ReceiveAny
  <1>4. ASSUME UNCHANGED <<flash, gcmd, packno, inbox, outbox>>, UNCHANGED hostVars
        PROVE  AckInv'
    BY <1>4 DEF hostVars, AckInv, Prefix
  <1>5. CASE Target
    <2>1. UNCHANGED hostVars
      BY <1>5 DEF Target
    <2>2. ASSUME NEW m, Restart(m) PROVE AckInv'
      BY <2>2 DEF Restart, AckInv, Continue, UpdateAprom
    <2>3. CASE ParseCmd
      BY <2>1, <2>3, ParseAcked
    <2>4. CASE BootTimeout \/ PowerCycle
      BY <1>4, <2>1, <2>2, <2>4 DEF BootTimeout, PowerCycle
    <2> QED
      BY <1>5, <2>3, <2>4 DEF Target
  <1>6. CASE UNCHANGED vars
    BY <1>4, <1>6 DEF vars, targetVars
  <1> QED
    BY <1>1, <1>2, <1>3, <1>5, <1>6 DEF Next, Host

LEMMA AckImplies == TypeOK /\ AckInv => AckedKept
  <1> SUFFICES ASSUME TypeOK, AckInv, pc \in {"data", "resend"}, gcmd = UpdateAprom,
                      NEW i \in 1..offset
               PROVE  flash[i - 1] = Image[i]
    BY DEF AckedKept
  <1>1. offset \in Nat /\ offset < ImageLen /\ offset # 0
    BY ClientAssumption DEF TypeOK
  <1>2. Prefix(offset)
    BY <1>1 DEF AckInv
  <1>3. i - 1 \in Addr /\ i - 1 < offset /\ (i - 1) + 1 = i
    BY <1>1, ClientAssumption, GeometryAssumption DEF Addr
  <1> QED
    BY <1>2, <1>3 DEF Prefix

\* AckedKept: no retry, loss or disturbance takes an acknowledged word from
\* the flash of a target that is still in the update.
THEOREM AckedBlocksKept ==
  ASSUME ~TwoK, ~NoisyCommand
  PROVE  Spec => []AckedKept
  <1>1. Init => AckInv
    BY DEF Init, AckInv
  <1>2. IInv /\ AckInv => AckedKept
    BY AckImplies DEF IInv
  <1> QED
    BY <1>1, <1>2, StepAcked, InductiveInvariant, PTL DEF Spec

-----------------------------------------------------------------------------
(* The data flash *)

LEMMA MultipleBelow ==
  ASSUME NEW a \in Int, NEW b \in Int, PageSize * a < PageSize * b
  PROVE  PageSize * a + PageSize <= PageSize * b
  <1> USE GeometryAssumption
  <1>1. a < b
    <2>1. CASE a >= b
      <3>1. PageSize * (a - b) >= 0
        BY <2>1
      <3>2. PageSize * (a - b) = PageSize * a - PageSize * b
        OBVIOUS
      <3> QED
        BY <3>1, <3>2
    <2> QED
      BY <2>1
  <1>2. PageSize * (b - a - 1) >= 0
    BY <1>1
  <1>3. PageSize * (b - a - 1) = PageSize * b - PageSize * a - PageSize
    OBVIOUS
  <1> QED
    BY <1>2, <1>3

\* Unless the block ends the APROM, the pages a resend erases lie in it.
LEMMA RollBackPages ==
  ASSUME NEW s \in Nat, NEW n \in Nat, s + n < DataFlashAddr
  PROVE  PageOf(s) + (IF s % PageSize >= PageSize - n THEN 2 * PageSize ELSE PageSize)
           <= DataFlashAddr
  <1> DEFINE a == s \div PageSize
             b == DataFlashAddr \div PageSize
             r == s % PageSize
  <1>1. DataFlashAddr = PageSize * b /\ b \in Nat
    BY GeometryAssumption
  <1>2. s - r = PageSize * a /\ a \in Nat /\ r \in 0..(PageSize - 1)
    BY GeometryAssumption
  <1>3. PageOf(s) = s - r
    BY DEF PageOf
  <1>4. SUFFICES (s - r) + (IF r >= PageSize - n THEN 2 * PageSize ELSE PageSize) <= DataFlashAddr
    BY <1>3
  <1> HIDE DEF a, b, r
  <1> USE GeometryAssumption
  <1>5. PageSize * a \in Int /\ PageSize * b \in Int
    BY <1>1, <1>2
  <1>6. PageSize * a + PageSize <= PageSize * b
    BY <1>1, <1>2, <1>5, MultipleBelow
  <1>7. CASE r >= PageSize - n
    <2>1. PageSize * (a + 1) = PageSize * a + PageSize
      BY <1>2
    <2>2. PageSize * (a + 1) < PageSize * b
      BY <1>1, <1>2, <1>5, <1>7, <2>1
    <2>3. PageSize * (a + 1) + PageSize <= PageSize * b
      BY <1>1, <1>2, <2>2, MultipleBelow
    <2> QED
      BY <1>1, <1>2, <1>5, <1>7, <2>1, <2>3
  <1>8. CASE ~(r >= PageSize - n)
    BY <1>1, <1>2, <1>5, <1>6, <1>8
  <1> QED
    BY <1>7, <1>8

LEMMA RollBackKeeps ==
  ASSUME NEW f \in [Addr -> Word], NEW s \in Int, NEW n \in 0..DataLen, s + n < DataFlashAddr,
         NEW a \in Addr, a >= DataFlashAddr
  PROVE  RollBack(f, s, n)[a] = f[a]
  <1>1. CASE s < 0
    BY <1>1 DEF RollBack
  <1>2. CASE ~(s < 0)
    <2>1. s \in Nat /\ n \in Nat
      BY <1>2, GeometryAssumption
    <2> DEFINE end == PageOf(s) + IF s % PageSize >= PageSize - n THEN 2 * PageSize ELSE PageSize
    <2>2. end <= DataFlashAddr /\ end \in Int
      <3>1. PageOf(s) \in Int
        BY <2>1, ModType DEF PageOf
      <3> QED
        BY <2>1, <3>1, RollBackPages, GeometryAssumption
    <2>3. RollBack(f, s, n) = Erase(f, s, end)
      BY <1>2 DEF RollBack
    <2> HIDE DEF end
    <2>4. ~(a < end)
      BY <2>2, GeometryAssumption DEF Addr
    <2> QED
      BY <2>3, <2>4 DEF Erase
  <1> QED
    BY <1>1, <1>2

LEMMA ProgramKeeps ==
  ASSUME NEW p \in Packet, NEW f \in [Addr -> Word], NEW s \in Int, NEW t \in Nat,
         NEW room \in 0..DataLen, Program(p, f, s, t, room), s + t <= ImageLen + 1,
         ImageLen + 1 < DataFlashAddr
  PROVE  /\ startAddr' + totalLen' <= ImageLen + 1
         /\ \A a \in Addr : a >= DataFlashAddr => flash'[a] = f[a]
  <1> DEFINE n == IF t < room THEN t ELSE room
  <1>1. n \in Int /\ n <= t
    BY GeometryAssumption
  <1>2. /\ flash' = Write(f, s, n, p.data) /\ startAddr' = s + n /\ totalLen' = t - n
    BY DEF Program
  <1> HIDE DEF n
  <1>3. ASSUME NEW a \in Addr, a >= DataFlashAddr PROVE flash'[a] = f[a]
    <2>1. ~(a < s + n)
      BY <1>1, <1>3, ClientAssumption, GeometryAssumption DEF Addr
    <2> QED
      BY <1>2, <2>1 DEF Write
  <1> QED
    BY <1>1, <1>2, <1>3

\* No command of the target reaches the data flash.
LEMMA ParseKeeps ==
  ASSUME TargetTypeOK, CursorInv, ParseCmd, ImageLen + 1 < DataFlashAddr
  PROVE  /\ \A a \in Addr : a >= DataFlashAddr => flash'[a] = flash[a]
         /\ CursorInv'
  <1> USE ClientAssumption, GeometryAssumption
  <1>0. /\ flash \in [Addr -> Word] /\ startAddr \in Int /\ totalLen \in Nat
        /\ lastLen \in 0..DataLen /\ packno \in Nat /\ inbox \in Packet \cup {NoPacket}
    BY DEF TargetTypeOK
  <1>1. CASE ParseSync(inbox) \/ ParseConnect(inbox) \/ ParseQuery(inbox)
             \/ ParseRunRefused(inbox) \/ ParseStrayData(inbox)
    BY <1>1 DEF ParseSync, ParseConnect, ParseQuery, ParseRunRefused, ParseStrayData, Take, cursor,
       CursorInv
  <1>2. CASE ParseRun(inbox) \/ ParseReset(inbox)
    BY <1>2 DEF ParseRun, ParseReset, Restart, CursorInv
  <1>3. CASE ParseUpdate(inbox)
    <2>1. inbox \in Packet /\ inbox' = NoPacket /\ inbox.cmd = UpdateAprom /\ inbox # NoPacket
      BY <1>0, <1>3 DEF ParseUpdate, Take
    <2>2. inbox.arg \in Nat /\ 0 + inbox.arg <= ImageLen + 1
      BY <2>1 DEF Packet, CursorInv
    <2> DEFINE g == Erase(flash, 0, DataFlashAddr)
    <2>3. g \in [Addr -> Word]
      BY <1>0, EraseType
    <2>4. \A a \in Addr : a >= DataFlashAddr => g[a] = flash[a]
      BY DEF Erase, Addr
    <2>5. Program(inbox, g, 0, inbox.arg, FirstLen)
      BY <1>3 DEF ParseUpdate
    <2> HIDE DEF g
    <2>6. startAddr' + totalLen' <= ImageLen + 1 /\ \A a \in Addr : a >= DataFlashAddr => flash'[a] = g[a]
      BY <2>1, <2>2, <2>3, <2>5, ProgramKeeps
    <2> QED
      BY <2>1, <2>4, <2>6 DEF CursorInv
  <1>4. CASE ParseData(inbox)
    <2>1. inbox \in Packet /\ inbox' = NoPacket
      BY <1>0, <1>4 DEF ParseData, Take
    <2>2. Program(inbox, flash, startAddr, totalLen, DataLen)
      BY <1>4 DEF ParseData
    <2>3. /\ startAddr' + totalLen' <= ImageLen + 1
          /\ \A a \in Addr : a >= DataFlashAddr => flash'[a] = flash[a]
      BY <1>0, <2>1, <2>2, ProgramKeeps DEF CursorInv
    <2> QED
      BY <2>1, <2>3 DEF CursorInv
  <1>5. CASE ParseResend(inbox)
    <2>1. /\ inbox' = NoPacket /\ startAddr' = startAddr - lastLen /\ totalLen' = totalLen + lastLen
          /\ flash' = RollBack(flash, startAddr - lastLen, lastLen)
      BY <1>5 DEF ParseResend, Take
    <2>2. startAddr - lastLen \in Int /\ (startAddr - lastLen) + lastLen < DataFlashAddr
      BY <1>0 DEF CursorInv
    <2>3. \A a \in Addr : a >= DataFlashAddr => flash'[a] = flash[a]
      BY <1>0, <2>1, <2>2, RollBackKeeps
    <2> QED
      BY <1>0, <2>1, <2>3 DEF CursorInv
  <1> QED
    BY <1>1, <1>2, <1>3, <1>4, <1>5 DEF ParseCmd

\* The client announces the length of the image; a disturbance may add one.
LEMMA SentLength ==
  ASSUME TypeOK, NEW p \in {OutPacket} \cup Disturbed(OutPacket), p.cmd = UpdateAprom
  PROVE  p.arg <= ImageLen + 1
  <1>1. hostIdx \in Nat /\ OutPacket \in Packet
    BY OutPacketType DEF TypeOK
  <1>2. OutPacket.cmd = UpdateAprom => OutPacket.arg = ImageLen
    BY <1>1, PacketShape DEF OutPacket, BuildPacket, Silent, UpdateAprom, Continue, SyncPackno,
       GetFwVer, RunAprom, Reset, Connect, GetDeviceId, ResendPacket
  <1>3. /\ p.cmd = OutPacket.cmd \/ p.cmd = Unknown
        /\ p.arg = OutPacket.arg \/ p.arg = OutPacket.arg + 1
    BY <1>1 DEF Disturbed, Packet
  <1>4. OutPacket.cmd = UpdateAprom
    BY <1>3 DEF Unknown, UpdateAprom
  <1> QED
    BY <1>2, <1>3, <1>4, ClientAssumption

LEMMA StepKeeps ==
  ASSUME TypeOK, CursorInv, [Next]_vars, ImageLen + 1 < DataFlashAddr
  PROVE  /\ \A a \in Addr : a >= DataFlashAddr => flash'[a] = flash[a]
         /\ CursorInv'
  <1>1. ASSUME UNCHANGED <<flash, cursor>>, inbox' \in {inbox, NoPacket}
        PROVE  /\ \A a \in Addr : a >= DataFlashAddr => flash'[a] = flash[a]
               /\ CursorInv'
    BY <1>1 DEF CursorInv, cursor
  <1>2. ASSUME UNCHANGED <<flash, cursor>>, inbox' \in {OutPacket} \cup Disturbed(OutPacket)
        PROVE  /\ \A a \in Addr : a >= DataFlashAddr => flash'[a] = flash[a]
               /\ CursorInv'
    BY <1>2, SentLength DEF CursorInv, cursor
  <1>3. ASSUME NEW m, Restart(m)
        PROVE  /\ \A a \in Addr : a >= DataFlashAddr => flash'[a] = flash[a]
               /\ CursorInv'
    BY <1>3, ClientAssumption DEF Restart, CursorInv
  <1>4. CASE Send \/ SendLast
    BY <1>2, <1>4 DEF Send, SendLast
  <1>5. CASE SendFails
    BY <1>1, <1>2, <1>5 DEF SendFails
  <1>6. CASE Timeout \/ Cancel \/ \E o \in Ops : Start(o)
    BY <1>1, <1>6 DEF Timeout, Cancel, Start, targetVars, cursor
  <1>7. CASE ReceiveAny
    BY <1>1, <1>7 DEF ReceiveAny, Receive, ConnectAnswered, SyncAnswered, PrepareAnswered,
       VersionAnswered, DeviceAnswered, BlockAccepted, LastBlockAccepted, BlockRejected,
       ResendAnswered, AnswerInvalid, Read, targetVars, cursor
  <1>8. CASE Target
    BY <1>1, <1>3, <1>8, ParseKeeps DEF Target, BootTimeout, PowerCycle, TypeOK
  <1>9. CASE UNCHANGED vars
    BY <1>1, <1>9 DEF vars, targetVars, cursor
  <1> QED
    BY <1>4, <1>5, <1>6, <1>7, <1>8, <1>9 DEF Next, Host

\* DataFlashKept, for both samples and any disturbance, of an image that leaves
\* two words of the APROM free: the sharp side of the run in which a full image
\* loses a page of the data flash.
THEOREM DataFlashSafe ==
  ASSUME ImageLen + 1 < DataFlashAddr
  PROVE  Spec => DataFlashKept
  <1>1. Init => CursorInv
    BY ClientAssumption DEF Init, TargetInit, CursorInv
  <1>2. TypeOK /\ CursorInv /\ [Next]_vars => CursorInv'
    BY StepKeeps
  <1>3. TypeOK /\ CursorInv /\ [Next]_vars =>
          [\A a \in Addr : a >= DataFlashAddr => flash'[a] = flash[a]]_vars
    BY StepKeeps
  <1> QED
    BY <1>1, <1>2, <1>3, TypeInvariant, PTL DEF Spec, DataFlashKept

-----------------------------------------------------------------------------
(* The protocol implements ApromUpdate *)

LEMMA ApplicationType ==
  ASSUME NEW f \in [Addr -> Word]
  PROVE  [a \in 0..(DataFlashAddr - 1) |-> f[a]] \in [0..(DataFlashAddr - 1) -> Word]
  <1>1. \A a \in 0..(DataFlashAddr - 1) : a \in Addr
    BY GeometryAssumption DEF Addr
  <1> QED
    BY <1>1

\* A packet changes the flash only while an update runs or after one failed.
LEMMA ParseChanges ==
  ASSUME IInv, ParseCmd
  PROVE  flash' = flash \/ outcome \in {"busy", "failed"}
  <1>1. inbox # NoPacket
    BY DEF ParseCmd, ParseSync, ParseConnect, ParseQuery, ParseRunRefused, ParseRun, ParseReset,
       ParseUpdate, ParseData, ParseStrayData, ParseResend, Take
  <1> QED
    BY <1>1, SilentParse DEF IInv, Quiet, TypeOK

LEMMA StepRefines ==
  ASSUME IInv, IInv', [Next]_vars
  PROVE  [Update!Next]_(Update!vars)
  <1>0. TypeOK /\ TypeOK' /\ Shape /\ ProgramVerified'
    BY DEF IInv
  <1>1. ASSUME flash' = flash PROVE Application' = Application
    BY <1>1 DEF Application
  <1>2. ASSUME flash' = flash, outcome' = outcome PROVE [Update!Next]_(Update!vars)
    BY <1>1, <1>2 DEF Update!vars
  <1>3. ASSUME flash' = flash, Throw PROVE [Update!Next]_(Update!vars)
    <2>1. CASE op = "program" /\ outcome' # outcome
      <3>1. outcome = "busy" /\ outcome' = "failed"
        BY <1>0, <1>3, <2>1 DEF Shape, Throw, Finish, Reconnect
      <3> QED
        BY <1>1, <1>3, <3>1 DEF Update!Next, Update!Abandon
    <2>2. CASE op # "program" \/ outcome' = outcome
      <3>1. outcome' = outcome
        BY <1>3, <2>2 DEF Throw, Finish, Reconnect
      <3> QED
        BY <1>2, <1>3, <3>1
    <2> QED
      BY <2>1, <2>2
  <1>4. CASE Send
    BY <1>2, <1>4 DEF Send
  <1>5. CASE SendLast
    BY <1>0, <1>2, <1>5 DEF SendLast, Finish, Shape
  <1>6. CASE SendFails
    BY <1>3, <1>6 DEF SendFails
  <1>7. CASE Timeout \/ Cancel
    BY <1>3, <1>7 DEF Timeout, Cancel, Throw, targetVars
  <1>8. CASE ReceiveAny
    <2> PICK r \in {outbox} \cup DisturbedAnswer(outbox) : Receive(r)
      BY <1>8 DEF ReceiveAny
    <2>1. flash' = flash
      BY DEF Receive, ConnectAnswered, SyncAnswered, PrepareAnswered, VersionAnswered,
         DeviceAnswered, BlockAccepted, LastBlockAccepted, BlockRejected, ResendAnswered,
         AnswerInvalid, Read, targetVars
    <2>2. CASE LastBlockAccepted(r)
      <3>1. outcome = "busy" /\ outcome' = "done"
        BY <1>0, <2>2 DEF Shape, LastBlockAccepted, Finish
      <3>2. Application' = Binary
        BY <1>0, <3>1 DEF ProgramVerified, Binary
      <3> QED
        BY <1>1, <2>1, <3>1, <3>2 DEF Update!Next, Update!Complete
    <2>3. CASE AnswerInvalid(r)
      BY <1>3, <2>1, <2>3 DEF AnswerInvalid
    <2>4. CASE DeviceAnswered(r)
      BY <1>0, <1>2, <2>1, <2>4 DEF DeviceAnswered, Finish, Shape
    <2>5. CASE ConnectAnswered(r) \/ SyncAnswered(r) \/ PrepareAnswered(r) \/ VersionAnswered(r)
               \/ BlockAccepted(r) \/ BlockRejected(r) \/ ResendAnswered(r)
      BY <1>2, <2>1, <2>5 DEF ConnectAnswered, SyncAnswered, PrepareAnswered, VersionAnswered,
         BlockAccepted, BlockRejected, ResendAnswered, Goto
    <2> QED
      BY <2>2, <2>3, <2>4, <2>5 DEF Receive
  <1>9. CASE Target
    <2>1. outcome' = outcome
      BY <1>9 DEF Target, hostVars
    <2>2. CASE ParseCmd
      <3>1. Application' \in [0..(DataFlashAddr - 1) -> Word]
        BY <1>0, ApplicationType DEF TypeOK, TargetTypeOK, Application
      <3> QED
        BY <1>2, <2>1, <2>2, <3>1, ParseChanges DEF Update!Next, Update!Change
    <2>3. CASE BootTimeout \/ PowerCycle
      BY <1>2, <2>1, <2>3 DEF BootTimeout, PowerCycle, Restart
    <2> QED
      BY <1>9, <2>2, <2>3 DEF Target
  <1>10. CASE \E o \in Ops : Start(o)
    <2> PICK o \in Ops : Start(o)
      BY <1>10
    <2>1. flash' = flash /\ outcome' = IF o = "program" THEN "busy" ELSE outcome
      BY DEF Start, targetVars
    <2> QED
      BY <1>1, <1>2, <2>1 DEF Update!Next, Update!Begin
  <1>11. CASE UNCHANGED vars
    BY <1>2, <1>11 DEF vars, targetVars, hostVars
  <1> QED
    BY <1>4, <1>5, <1>6, <1>7, <1>8, <1>9, <1>10, <1>11 DEF Next, Host

LEMMA InitRefines == Init => Update!Init
  BY InitType, ApplicationType DEF Init, Update!Init, TypeOK, TargetTypeOK, Application

\* ImplementsUpdate: every behaviour of the protocol is one of ApromUpdate.
THEOREM Refinement ==
  ASSUME ~TwoK, ~NoisyCommand
  PROVE  Spec => ImplementsUpdate
  BY InitRefines, StepRefines, InductiveInvariant, PTL DEF Spec, ImplementsUpdate, Update!Spec
=============================================================================
