------------------------ MODULE NuvoIspStream_proofs ------------------------
(***************************************************************************)
(* Theorems about NuvoIspStream for every image, geometry, transport and   *)
(* every number of retries, disturbances and operations.                   *)
(***************************************************************************)
EXTENDS NuvoIspStream, NuvoIspI2c_proofs

-----------------------------------------------------------------------------
(* The line *)

LineType == Seq([part : 0..2, of : Response \cup {Garbage}])

\* What is left of the line, and what comes to it, are pieces of answers.
LEMMA RestType ==
  ASSUME NEW n \in 0..Len(line), line \in LineType
  PROVE  Rest(n) \in LineType
  <1> DEFINE S == [part : 0..2, of : Response \cup {Garbage}]
  <1> HIDE DEF S
  <1>1. line \in Seq(S) /\ Len(line) \in Nat
    BY DEF LineType, S
  <1>2. SubSeq(line, n + 1, Len(line)) \in Seq(S)
    BY <1>1
  <1> QED
    BY <1>2 DEF Rest, LineType, S

LEMMA PieceType ==
  ASSUME NEW r \in Response
  PROVE  /\ Pieces(r) \in LineType
         /\ \A s \in Spoilt(r) : s \in LineType
  <1> DEFINE S == [part : 0..2, of : Response \cup {Garbage}]
  <1>1. /\ Piece(0, r) \in S /\ Piece(1, r) \in S /\ Piece(2, r) \in S
        /\ Piece(0, Garbage) \in S /\ Piece(1, Garbage) \in S
    BY DEF Piece
  <1> HIDE DEF S
  <1>2. <<>> \in Seq(S) /\ \A p \in S : <<p>> \in Seq(S) /\ \A q \in S : <<p, q>> \in Seq(S)
    OBVIOUS
  <1>3. Pieces(r) \in Seq(S)
    BY <1>1, <1>2 DEF Pieces
  <1>4. <<Piece(0, Garbage)>> \o Pieces(r) \in Seq(S)
    BY <1>1, <1>2, <1>3
  <1> QED
    BY <1>1, <1>2, <1>3, <1>4 DEF Spoilt, LineType, S

LEMMA NeedType == Need \in {1, 2}
  BY DEF Need

-----------------------------------------------------------------------------
(* Type correctness *)

\* Whatever transaction it is in, the client sends a packet.
LEMMA StreamPacketType ==
  ASSUME StreamTypeOK
  PROVE  StreamPacket \in Packet
  <1>1. CASE pc = "config"
    <2>1. ReadConfig \in Commands /\ hostIdx \in Nat /\ NoData \in Payload
      BY NoDataType DEF Commands, StreamTypeOK
    <2> QED
      BY <1>1, <2>1 DEF StreamPacket, BuildPacket, Packet
  <1>2. CASE pc # "config"
    <2>1. TypeOK
      BY <1>2 DEF StreamTypeOK, TypeOK
    <2> QED
      BY <1>2, <2>1, OutPacketType DEF StreamPacket
  <1> QED
    BY <1>1, <1>2

\* What the host and the line keep, whatever ends an operation.
HostTypeOK ==
  /\ op \in Ops \cup {"none"} /\ pc \in Stages \cup {"config"} /\ awaiting \in BOOLEAN
  /\ offset \in 0..(ImageLen - 1) /\ attempt \in Nat
  /\ expect \in Response /\ outcome \in {"none", "busy", "done", "failed"}
  /\ ops \in 0..MaxOps /\ transport \in Transports

LEMMA EndType ==
  ASSUME HostTypeOK, NEW result \in {"done", "failed"}, End(result)
  PROVE  HostTypeOK'
  <1>1. 0 \in 0..(ImageLen - 1) /\ NoResponse \in Response
    BY ClientAssumption DEF NoResponse, Response
  <1> QED
    BY <1>1 DEF HostTypeOK, End, Stages

LEMMA FailureType ==
  ASSUME HostTypeOK, hostIdx \in Nat \ {0}, handle \in {"closed", "open", "stale"}, AfterFailure
  PROVE  HostTypeOK' /\ hostIdx' \in Nat \ {0} /\ handle' \in {"closed", "open", "stale"}
  <1>0. attempt + 1 \in Nat /\ 18 \in Nat \ {0} /\ "connect" \in Stages /\ FALSE \in BOOLEAN
    BY DEF HostTypeOK, Stages
  <1>1. CASE Handshaking /\ Hid
    BY <1>0, <1>1 DEF AfterFailure, HostTypeOK
  <1>2. CASE ~(Handshaking /\ Hid) /\ Handshaking /\ attempt + 1 < ConnectTries
    BY <1>0, <1>2 DEF AfterFailure, HostTypeOK
  <1>3. CASE ~(Handshaking /\ Hid) /\ ~(Handshaking /\ attempt + 1 < ConnectTries)
    BY <1>3, EndType DEF AfterFailure
  <1> QED
    BY <1>1, <1>2, <1>3

LEMMA StreamTypeParts ==
  StreamTypeOK <=>
    /\ TargetTypeOK /\ HostTypeOK /\ hostIdx \in Nat \ {0} /\ noise \in 0..MaxNoise
    /\ handle \in {"closed", "open", "stale"} /\ line \in LineType
  BY DEF StreamTypeOK, HostTypeOK, LineType

LEMMA NoisyType ==
  ASSUME noise \in 0..MaxNoise, Noisy
  PROVE  noise' \in 0..MaxNoise
  BY ClientAssumption DEF Noisy

LEMMA DeliveredType ==
  ASSUME TargetTypeOK, noise \in 0..MaxNoise, NEW p \in Packet, Delivered(p)
  PROVE  TargetTypeOK' /\ noise' \in 0..MaxNoise
  <1>1. /\ inbox' \in Packet \cup {NoPacket} /\ outbox' \in Response
        /\ noise' \in 0..MaxNoise
    BY DisturbedType, NoisyType DEF Delivered, NoResponse, Response
  <1>2. UNCHANGED <<flash, mode, gcmd, cursor, packno>>
    BY DEF Delivered
  <1> QED
    BY <1>1, <1>2 DEF TargetTypeOK, cursor

LEMMA AbandonedType ==
  ASSUME line \in LineType, Abandoned
  PROVE  line' \in LineType
  BY RestType DEF Abandoned

\* What the client does with an answer.
LEMMA HeardType ==
  ASSUME StreamTypeOK, Answered \/ Refused \/ Rejected \/ Skipped
  PROVE  StreamTypeOK'
  <1>0. /\ TargetTypeOK /\ HostTypeOK /\ hostIdx \in Nat \ {0} /\ noise \in 0..MaxNoise
        /\ handle \in {"closed", "open", "stale"} /\ line \in LineType
    BY StreamTypeParts
  <1>1. line' \in LineType
    <2>1. Need \in 0..Len(line) /\ line' = Rest(Need)
      BY <1>0, NeedType DEF Answered, Refused, Rejected, Skipped, LineType
    <2> QED
      BY <1>0, <2>1, RestType
  <1>2. TargetTypeOK' /\ noise' \in 0..MaxNoise
    BY <1>0 DEF Answered, Refused, Rejected, Skipped, vars, hostVars, targetVars, TargetTypeOK
  <1>3. CASE Answered
    <2>1. UNCHANGED <<hostIdx, handle>>
      BY <1>3 DEF Answered
    <2>2. CASE Following = "idle"
      BY <1>0, <1>1, <1>2, <1>3, <2>1, <2>2, EndType DEF Answered, StreamTypeOK, HostTypeOK, LineType
    <2>3. CASE Following # "idle"
      <3>1. Goto(Following) /\ Progress /\ UNCHANGED transport
        BY <1>3, <2>3 DEF Answered
      <3>2. Following \in Stages \cup {"config"}
        BY <1>0 DEF Following, Stages, HostTypeOK
      <3>3. offset' \in 0..(ImageLen - 1) /\ attempt' \in Nat
        <4>1. CASE pc = "data"
          <5>1. ~LastBlock
            BY <2>3, <4>1 DEF Following
          <5>2. /\ BlockLen(offset) \in 1..DataLen /\ offset + BlockLen(offset) <= ImageLen
                /\ offset \in 0..(ImageLen - 1)
            BY <1>0, BlockLenType DEF HostTypeOK
          <5> QED
            BY <3>1, <4>1, <5>1, <5>2, ClientAssumption, GeometryAssumption
               DEF Progress, LastBlock
        <4>2. CASE pc # "data"
          BY <1>0, <3>1, <4>2, ClientAssumption DEF Progress, HostTypeOK
        <4> QED
          BY <4>1, <4>2
      <3>4. HostTypeOK'
        BY <1>0, <3>1, <3>2, <3>3 DEF HostTypeOK, Goto
      <3> QED
        BY <1>0, <1>1, <1>2, <2>1, <3>4 DEF StreamTypeOK, HostTypeOK, LineType
    <2> QED
      BY <2>2, <2>3
  <1>4. CASE Refused
    <2>1. HostTypeOK' /\ UNCHANGED <<hostIdx, handle>>
      BY <1>0, <1>4 DEF Refused, Goto, HostTypeOK, Stages
    <2> QED
      BY <1>0, <1>1, <1>2, <2>1 DEF StreamTypeOK, HostTypeOK, LineType
  <1>5. CASE Rejected
    <2>1. AfterFailure
      BY <1>5 DEF Rejected
    <2> QED
      BY <1>0, <1>1, <1>2, <2>1, FailureType DEF StreamTypeOK, HostTypeOK, LineType
  <1>6. CASE Skipped
    <2>1. HostTypeOK' /\ UNCHANGED <<hostIdx, handle>>
      BY <1>0, <1>6 DEF Skipped, HostTypeOK, vars, hostVars
    <2> QED
      BY <1>0, <1>1, <1>2, <2>1 DEF StreamTypeOK, HostTypeOK, LineType
  <1> QED
    BY <1>3, <1>4, <1>5, <1>6

LEMMA StreamClientType ==
  ASSUME StreamTypeOK, Client
  PROVE  StreamTypeOK'
  <1>0. /\ TargetTypeOK /\ HostTypeOK /\ hostIdx \in Nat \ {0} /\ noise \in 0..MaxNoise
        /\ handle \in {"closed", "open", "stale"} /\ line \in LineType
    BY StreamTypeParts
  <1>1. CASE FlowOpen
    <2>1. line' \in LineType
      BY <1>0, <1>1, RestType DEF FlowOpen, Opened
    <2>2. TargetTypeOK' /\ HostTypeOK'
      BY <1>0, <1>1 DEF FlowOpen, Opened, targetVars, TargetTypeOK, HostTypeOK
    <2>3. hostIdx' \in Nat \ {0} /\ noise' \in 0..MaxNoise /\ handle' \in {"closed", "open", "stale"}
      BY <1>0, <1>1 DEF FlowOpen, Opened
    <2> QED
      BY <2>1, <2>2, <2>3 DEF StreamTypeOK, HostTypeOK, LineType
  <1>2. CASE Transmit
    <2>1. StreamPacket \in Packet /\ Delivered(StreamPacket)
      BY <1>2, StreamPacketType DEF Transmit
    <2>2. StreamPacket.idx \in Nat /\ Checksum(StreamPacket) \in Nat
      BY <2>1, ChecksumType DEF Packet
    <2>3. hostIdx' \in Nat \ {0} /\ expect' \in Response /\ awaiting' \in BOOLEAN
      BY <1>2, <2>2 DEF Transmit, Response
    <2>4. HostTypeOK' /\ UNCHANGED <<handle, line>>
      BY <1>0, <1>2, <2>3 DEF Transmit, HostTypeOK, streamVars
    <2> QED
      BY <1>0, <2>1, <2>3, <2>4, DeliveredType DEF StreamTypeOK, HostTypeOK, LineType
  <1>3. CASE TransmitLast
    <2>1. StreamPacket \in Packet /\ Delivered(StreamPacket)
      BY <1>3, StreamPacketType DEF TransmitLast
    <2>2. hostIdx' \in Nat \ {0} /\ End("done") /\ UNCHANGED <<handle, line>>
      BY <1>0, <1>3 DEF TransmitLast
    <2> QED
      BY <1>0, <2>1, <2>2, EndType, DeliveredType DEF StreamTypeOK, HostTypeOK, LineType
  <1>4. CASE WriteThrows
    <2>1. AfterFailure /\ UNCHANGED line /\ StreamPacket \in Packet
      BY <1>4, StreamPacketType DEF WriteThrows
    <2>2. TargetTypeOK' /\ noise' \in 0..MaxNoise
      BY <1>0, <1>4, <2>1, NoisyType
         DEF WriteThrows, targetVars, cursor, TargetTypeOK, NoResponse, Response
    <2> QED
      BY <1>0, <2>1, <2>2, FailureType DEF StreamTypeOK, HostTypeOK, LineType
  <1>5. CASE TimedOut
    <2>1. AfterFailure /\ Abandoned /\ UNCHANGED targetVars
      BY <1>5 DEF TimedOut
    <2>2. TargetTypeOK' /\ noise' \in 0..MaxNoise
      BY <1>0, <1>5, <2>1, NoisyType DEF TimedOut, targetVars, TargetTypeOK
    <2> QED
      BY <1>0, <2>1, <2>2, AbandonedType, FailureType DEF StreamTypeOK, HostTypeOK, LineType
  <1>6. CASE Answered \/ Refused \/ Rejected \/ Skipped
    BY <1>6, HeardType
  <1> QED
    BY <1>1, <1>2, <1>3, <1>4, <1>5, <1>6 DEF Client

\* A command of the target, and the way its answer takes.
LEMMA StreamTargetType ==
  ASSUME StreamTypeOK, TargetParses \/ TargetBoots \/ TargetReset
  PROVE  StreamTypeOK'
  <1>0. /\ TargetTypeOK /\ HostTypeOK /\ hostIdx \in Nat \ {0} /\ noise \in 0..MaxNoise
        /\ handle \in {"closed", "open", "stale"} /\ line \in LineType
    BY StreamTypeParts
  <1>1. <<>> \in LineType
    BY DEF LineType
  <1>2. Leaves => handle' \in {"closed", "open", "stale"} /\ line' \in LineType
    BY <1>0, <1>1 DEF Leaves
  <1>3. CASE TargetParses
    <2>1. TargetTypeOK'
      BY <1>0, <1>3, ParseType DEF TargetParses
    <2>2. HostTypeOK' /\ hostIdx' = hostIdx
      BY <1>0, <1>3 DEF TargetParses, HostTypeOK
    <2>3. outbox' \in Response
      BY <2>1 DEF TargetTypeOK
    <2>4. Pieces(outbox') \in LineType /\ \A s \in Spoilt(outbox') : s \in LineType
      <3> DEFINE r == outbox'
      <3>1. r \in Response
        BY <2>3
      <3> HIDE DEF r
      <3>2. Pieces(r) \in LineType /\ \A s \in Spoilt(r) : s \in LineType
        BY <3>1, PieceType
      <3> QED
        BY <3>2 DEF r
    <2>5. \A s \in LineType : line \o s \in LineType
      BY <1>0 DEF LineType
    <2>6. handle' \in {"closed", "open", "stale"} /\ line' \in LineType /\ noise' \in 0..MaxNoise
      BY <1>0, <1>2, <1>3, <2>4, <2>5, NoisyType DEF TargetParses
    <2> QED
      BY <1>0, <2>1, <2>2, <2>6 DEF StreamTypeOK, HostTypeOK, LineType
  <1>4. CASE TargetBoots
    <2>1. CASE Restart("app")
      <3>1. TargetTypeOK'
        BY <1>0, <2>1, RestartType
      <3> QED
        BY <1>0, <1>2, <1>4, <3>1 DEF TargetBoots, hostVars, HostTypeOK, StreamTypeOK, LineType
    <2>2. CASE mode' = "isp" /\ UNCHANGED <<flash, gcmd, cursor, packno, inbox, outbox>>
      <3>1. TargetTypeOK'
        BY <1>0, <2>2 DEF TargetTypeOK, cursor
      <3> QED
        BY <1>0, <1>2, <1>4, <3>1 DEF TargetBoots, hostVars, HostTypeOK, StreamTypeOK, LineType
    <2> QED
      BY <1>4, <2>1, <2>2 DEF TargetBoots, BootTimeout
  <1>5. CASE TargetReset
    <2>1. TargetTypeOK'
      BY <1>0, <1>5, RestartType DEF TargetReset, PowerCycle
    <2>2. HostTypeOK' /\ hostIdx' = hostIdx /\ noise' \in 0..MaxNoise
      BY <1>0, <1>5, NoisyType DEF TargetReset, HostTypeOK
    <2> QED
      BY <1>0, <1>2, <1>5, <2>1, <2>2 DEF TargetReset, StreamTypeOK, HostTypeOK, LineType
  <1> QED
    BY <1>3, <1>4, <1>5

LEMMA StreamStepType ==
  ASSUME StreamTypeOK, [StreamNext]_allVars
  PROVE  StreamTypeOK'
  <1>0. /\ TargetTypeOK /\ HostTypeOK /\ hostIdx \in Nat \ {0} /\ noise \in 0..MaxNoise
        /\ handle \in {"closed", "open", "stale"} /\ line \in LineType
    BY StreamTypeParts
  <1>1. CASE OpenPort \/ ClosePort
    <2>1. TargetTypeOK' /\ HostTypeOK' /\ noise' = noise
      BY <1>0, <1>1 DEF OpenPort, ClosePort, Opened, Closed, targetVars, TargetTypeOK, HostTypeOK
    <2>2. line' \in LineType /\ hostIdx' \in Nat \ {0} /\ handle' \in {"closed", "open", "stale"}
      BY <1>0, <1>1, RestType DEF OpenPort, ClosePort, Opened, Closed
    <2> QED
      BY <1>0, <2>1, <2>2 DEF StreamTypeOK, HostTypeOK, LineType
  <1>2. CASE \E o \in Ops : StreamStart(o)
    <2>1. HostTypeOK'
      BY <1>0, <1>2, ClientAssumption DEF StreamStart, HostTypeOK, Stages, streamVars
    <2> QED
      BY <1>0, <1>2, <2>1 DEF StreamStart, targetVars, TargetTypeOK, streamVars, StreamTypeOK, HostTypeOK, LineType
  <1>3. CASE Stopped
    <2>1. TargetTypeOK' /\ UNCHANGED <<noise, hostIdx, handle>>
      BY <1>0, <1>3 DEF Stopped, targetVars, TargetTypeOK
    <2>2. HostTypeOK' /\ line' \in LineType
      BY <1>0, <1>3, EndType, AbandonedType DEF Stopped
    <2> QED
      BY <1>0, <2>1, <2>2 DEF StreamTypeOK, HostTypeOK, LineType
  <1>4. CASE UNCHANGED allVars
    BY <1>4 DEF allVars, streamVars, vars, hostVars, targetVars, StreamTypeOK, TargetTypeOK
  <1> QED
    BY <1>1, <1>2, <1>3, <1>4, StreamClientType, StreamTargetType DEF StreamNext

\* StreamTypeOK for every line, noise and sequence of operations: a block never
\* starts behind the image, however answers are cut, lost or late.
THEOREM StreamTypeInvariant == StreamSpec => []StreamTypeOK
  <1>1. StreamInit => StreamTypeOK
    <2> SUFFICES ASSUME StreamInit PROVE StreamTypeOK
      OBVIOUS
    <2>1. TypeOK
      BY InitType DEF StreamInit
    <2>2. line \in LineType
      BY DEF StreamInit, LineType
    <2> QED
      BY <2>1, <2>2 DEF StreamInit, StreamTypeOK, TypeOK, LineType
  <1> QED
    BY <1>1, StreamStepType, PTL DEF StreamSpec

-----------------------------------------------------------------------------
(* The data flash *)

\* The client announces the length of the image; a disturbance may add one.
LEMMA StreamSentLength ==
  ASSUME StreamTypeOK, NEW p \in {StreamPacket} \cup Disturbed(StreamPacket), p.cmd = UpdateAprom
  PROVE  p.arg <= ImageLen + 1
  <1>1. CASE pc = "config"
    <2>1. StreamPacket \in Packet /\ StreamPacket.cmd = ReadConfig
      BY <1>1, StreamPacketType DEF StreamPacket, BuildPacket
    <2>2. p.cmd = ReadConfig \/ p.cmd = Unknown
      BY <2>1 DEF Disturbed, Packet
    <2> QED
      BY <2>2 DEF ReadConfig, Unknown, UpdateAprom
  <1>2. CASE pc # "config"
    <2>1. TypeOK
      BY <1>2 DEF StreamTypeOK, TypeOK
    <2> QED
      BY <1>2, <2>1, SentLength DEF StreamPacket
  <1> QED
    BY <1>1, <1>2

DataFlashStays == \A a \in Addr : a >= DataFlashAddr => flash'[a] = flash[a]

LEMMA StreamStepKeeps ==
  ASSUME StreamTypeOK, CursorInv, [StreamNext]_allVars, ImageLen + 1 < DataFlashAddr
  PROVE  DataFlashStays /\ CursorInv'
  <1>1. ASSUME UNCHANGED <<flash, cursor>>, inbox' \in {inbox, NoPacket}
        PROVE  DataFlashStays /\ CursorInv'
    BY <1>1 DEF CursorInv, cursor, DataFlashStays
  <1>2. ASSUME UNCHANGED <<flash, cursor>>, inbox' \in {StreamPacket} \cup Disturbed(StreamPacket)
        PROVE  DataFlashStays /\ CursorInv'
    BY <1>2, StreamSentLength DEF CursorInv, cursor, DataFlashStays
  <1>3. ASSUME NEW m, Restart(m)
        PROVE  DataFlashStays /\ CursorInv'
    BY <1>3, ClientAssumption DEF Restart, CursorInv, DataFlashStays
  <1>4. ASSUME Delivered(StreamPacket) PROVE DataFlashStays /\ CursorInv'
    BY <1>1, <1>2, <1>4 DEF Delivered
  <1>5. CASE Transmit \/ TransmitLast
    BY <1>4, <1>5 DEF Transmit, TransmitLast
  <1>6. CASE WriteThrows
    BY <1>1, <1>2, <1>6 DEF WriteThrows, targetVars, cursor
  <1>7. CASE FlowOpen \/ TimedOut \/ Answered \/ Refused \/ Rejected \/ Skipped
             \/ OpenPort \/ ClosePort \/ Stopped \/ \E o \in Ops : StreamStart(o)
    BY <1>1, <1>7 DEF FlowOpen, TimedOut, Answered, Refused, Rejected, Skipped, OpenPort,
       ClosePort, Stopped, StreamStart, targetVars, vars, cursor
  <1>8. CASE TargetParses
    BY <1>8, ParseKeeps DEF TargetParses, StreamTypeOK, DataFlashStays
  <1>9. CASE TargetBoots \/ TargetReset
    BY <1>1, <1>3, <1>9 DEF TargetBoots, BootTimeout, TargetReset, PowerCycle
  <1>10. CASE UNCHANGED allVars
    BY <1>1, <1>10 DEF allVars, vars, targetVars, cursor
  <1> QED
    BY <1>5, <1>6, <1>7, <1>8, <1>9, <1>10 DEF StreamNext, Client

\* DataFlashKept over the UART and USB as well: whatever is lost, late or
\* disturbed on the way, no packet of an image that leaves two words of the
\* APROM free, and no resend, changes the data flash.
THEOREM StreamDataFlashSafe ==
  ASSUME ImageLen + 1 < DataFlashAddr
  PROVE  StreamSpec => DataFlashKept
  <1>1. StreamInit => CursorInv
    BY ClientAssumption DEF StreamInit, Init, TargetInit, CursorInv
  <1>2. StreamTypeOK /\ CursorInv /\ [StreamNext]_allVars => CursorInv'
    BY StreamStepKeeps
  <1>3. StreamTypeOK /\ CursorInv /\ [StreamNext]_allVars =>
          [\A a \in Addr : a >= DataFlashAddr => flash'[a] = flash[a]]_vars
    BY StreamStepKeeps DEF DataFlashStays
  <1> QED
    BY <1>1, <1>2, <1>3, StreamTypeInvariant, PTL DEF StreamSpec, DataFlashKept
=============================================================================
