----------------------------- MODULE NuvoIspI2c -----------------------------
(***************************************************************************)
(* The PC side of the Nuvoton I2C ISP protocol (core/nuvo_isp_i2c.cpp), as *)
(* the FW Upload tab drives it, against the target of IspTarget.           *)
(*                                                                         *)
(* A transaction is a write (Send), which the target parses when it likes, *)
(* and a read (Receive).  Between them anything the code handles may       *)
(* happen: the write throws, the answer times out, the user stops the      *)
(* operation, a byte is disturbed on the bus, the target is reset.         *)
(***************************************************************************)
EXTENDS IspTarget

CONSTANTS
  Image, ImageLen, \* the loaded binary, 1..ImageLen -> Word
  RetryCount,      \* program_retry_count
  ConnectTries,    \* handshakes that fit into the 25 s of ConnectTarget
  MaxNoise,        \* bound on disturbed transfers
  MaxOps,          \* bound on operations the user starts
  NoisyCommand     \* may a disturbance hit the command word of a data packet?

ASSUME ClientAssumption ==
  /\ ImageLen \in Nat \ {0} /\ ImageLen <= DataFlashAddr
  /\ Image \in [1..ImageLen -> Word]
  /\ RetryCount \in Nat \ {0} /\ ConnectTries \in Nat \ {0}
  /\ MaxNoise \in Nat /\ MaxOps \in Nat /\ NoisyCommand \in BOOLEAN

VARIABLES
  op,        \* the operation that runs: "none" between operations
  pc,        \* the transaction the operation is in
  awaiting,  \* between the write and the answer of that transaction
  hostIdx,   \* packet_index_
  offset, attempt, \* the locals of ProgramAprom, attempt also of ConnectTarget
  expect,    \* checksum and index the answer should carry
  outcome,   \* of the last Program APROM: "none", "busy", "done", "failed"
  noise, ops \* what is used of the bounds

hostVars == <<op, pc, awaiting, hostIdx, offset, attempt, expect, outcome, noise, ops>>
vars == <<targetVars, hostVars>>

Ops == {"program", "device", "run", "reset"}

-----------------------------------------------------------------------------
(* Packets *)

BlockLen(o) ==
  LET left == ImageLen - o
      room == IF o = 0 THEN FirstLen ELSE DataLen
  IN IF left < room THEN left ELSE room

Block(o) == [i \in 1..DataLen |-> IF i <= BlockLen(o) THEN Image[o + i] ELSE Zero]

BuildPacket(c, n, a, d) == [cmd |-> c, idx |-> n, arg |-> a, data |-> d]

\* The packet of the transaction the client is in, when packet_index_ is n.
PacketAt(n) ==
  CASE pc = "connect" -> BuildPacket(Connect, n, 0, NoData)
    [] pc \in {"sync", "prepare"} -> BuildPacket(SyncPackno, 1, 1, NoData)
    [] pc = "fwver" -> BuildPacket(GetFwVer, n, 0, NoData)
    [] pc = "devid" -> BuildPacket(GetDeviceId, n, 0, NoData)
    [] pc = "resend" -> BuildPacket(ResendPacket, n, 0, NoData)
    [] pc = "data" /\ offset = 0 -> BuildPacket(UpdateAprom, n, ImageLen, Block(0))
    [] pc = "data" /\ offset # 0 -> BuildPacket(Continue, n, 0, Block(offset))
    [] OTHER -> BuildPacket(IF op = "run" THEN RunAprom ELSE Reset, n, 0, NoData)

OutPacket == PacketAt(hostIdx)

\* One byte is hit on the way: of the data, of the argument, of the command.
Disturbed(p) ==
  ({[p EXCEPT !.data[i] = w] : i \in 1..DataLen, w \in Word} \ {p})
  \cup {q \in {[p EXCEPT !.arg = p.arg + 1]} :
          p.cmd \in {SyncPackno, UpdateAprom} /\ ByteSum(q.arg) # ByteSum(p.arg)}
  \cup {q \in {[p EXCEPT !.cmd = Unknown]} : NoisyCommand /\ p.cmd = Continue}

\* A disturbed answer carries a sum or an index no packet has.
BadField == -1
DisturbedAnswer(r) == {[r EXCEPT !.ck = BadField], [r EXCEPT !.idx = BadField]}

-----------------------------------------------------------------------------
Init ==
  /\ TargetInit
  /\ op = "none" /\ pc = "idle" /\ awaiting = FALSE
  /\ hostIdx = 18 /\ offset = 0 /\ attempt = 0 /\ expect = NoResponse
  /\ outcome = "none" /\ noise = 0 /\ ops = 0

\* A button: a new NuvoIspI2cClient (its members as Init and Finish leave
\* them), and ConnectTarget first.
Start(o) ==
  /\ pc = "idle" /\ ops < MaxOps
  /\ ops' = ops + 1
  /\ op' = o /\ pc' = "connect"
  /\ outcome' = IF o = "program" THEN "busy" ELSE outcome
  /\ UNCHANGED <<targetVars, awaiting, hostIdx, offset, attempt, expect, noise>>

\* The operation ends, with an exception or normally, and the client with it.
Finish(result) ==
  /\ op' = "none" /\ pc' = "idle" /\ awaiting' = FALSE
  /\ outcome' = IF op = "program" THEN result ELSE outcome
  /\ hostIdx' = 18 /\ offset' = 0 /\ attempt' = 0 /\ expect' = NoResponse
  /\ UNCHANGED ops

\* Mutant of Reconnect: the deadline of ConnectTarget is never looked at.
ReconnectForever ==
  /\ pc \in {"connect", "sync"}
  /\ pc' = "connect" /\ awaiting' = FALSE
  /\ UNCHANGED <<op, hostIdx, offset, attempt, expect, outcome, ops>>

\* An exception inside ConnectTarget starts the handshake over.
Reconnect ==
  /\ pc \in {"connect", "sync"} /\ attempt + 1 < ConnectTries
  /\ pc' = "connect" /\ attempt' = attempt + 1 /\ awaiting' = FALSE
  /\ UNCHANGED <<op, hostIdx, offset, expect, outcome, ops>>

Throw == Finish("failed") \/ Reconnect

\* The write of Transact: the target has the packet, whole, and no answer yet.
Send ==
  /\ pc \notin {"idle", "leave"} /\ ~awaiting /\ mode # "app"
  /\ awaiting' = TRUE
  /\ hostIdx' = OutPacket.idx + 2
  /\ expect' = [ck |-> Checksum(OutPacket), idx |-> OutPacket.idx + 1]
  /\ outbox' = NoResponse
  /\ \/ inbox' = OutPacket /\ UNCHANGED noise
     \/ noise < MaxNoise /\ noise' = noise + 1 /\ inbox' \in Disturbed(OutPacket)
  /\ UNCHANGED <<flash, mode, gcmd, cursor, packno, op, pc, offset, attempt, outcome, ops>>

\* SendNoResponse: Run APROM and Reset Target do not wait.
SendLast ==
  /\ pc = "leave" /\ mode # "app"
  /\ inbox' = OutPacket /\ outbox' = NoResponse
  /\ Finish("done")
  /\ UNCHANGED <<flash, mode, gcmd, cursor, packno, noise>>

\* The write throws; the target was not addressed, saw part of it, or has it all.
SendFails ==
  /\ pc # "idle" /\ ~awaiting
  /\ Throw
  /\ \/ UNCHANGED <<inbox, outbox>>
     \/ mode # "app" /\ outbox' = NoResponse /\ inbox' \in {NoPacket, OutPacket}
  /\ UNCHANGED <<flash, mode, gcmd, cursor, packno, noise>>

\* The answer does not come in time.
Timeout ==
  /\ awaiting
  /\ Throw
  /\ UNCHANGED <<targetVars, noise>>

\* Stop: the next ThrowIfCancelled ends the operation.  The two queries after
\* the handshake of Connect Target are not asked to look.
Cancel ==
  /\ pc \notin {"idle", "devid"} /\ (pc = "fwver" => ~awaiting)
  /\ Finish("failed")
  /\ UNCHANGED <<targetVars, noise>>

\* The answer r as read from the bus.
Read(r) ==
  /\ awaiting /\ outbox # NoResponse
  /\ \/ r = outbox /\ UNCHANGED noise
     \/ noise < MaxNoise /\ noise' = noise + 1 /\ r \in DisturbedAnswer(outbox)
  /\ UNCHANGED targetVars

\* Mutants of Valid: the index, or the checksum, of a block is not compared.
ValidAnyIndex(r) == r.ck = expect.ck
ValidAnySum(r) == pc \in {"data", "fwver", "devid"} => r.idx = expect.idx

Valid(r) ==
  /\ r.ck = expect.ck
  /\ pc \in {"data", "fwver", "devid"} => r.idx = expect.idx

Goto(label) ==
  /\ pc' = label /\ awaiting' = FALSE
  /\ UNCHANGED <<op, hostIdx, expect, outcome, ops>>

ConnectAnswered(r) ==
  /\ pc = "connect" /\ Read(r) /\ Valid(r)
  /\ Goto("sync")
  /\ UNCHANGED <<offset, attempt>>

SyncAnswered(r) ==
  /\ pc = "sync" /\ Read(r) /\ Valid(r)
  /\ Goto(CASE op = "program" -> "prepare" [] op = "device" -> "fwver" [] OTHER -> "leave")
  /\ UNCHANGED <<offset, attempt>>

\* ProgramAprom numbers the packets anew, then sends the first block.
PrepareAnswered(r) ==
  /\ pc = "prepare" /\ Read(r) /\ Valid(r)
  /\ Goto("data")
  /\ offset' = 0 /\ attempt' = 0

VersionAnswered(r) ==
  /\ pc = "fwver" /\ Read(r) /\ Valid(r)
  /\ Goto("devid")
  /\ UNCHANGED <<offset, attempt>>

DeviceAnswered(r) ==
  /\ pc = "devid" /\ Read(r) /\ Valid(r)
  /\ Finish("done")

BlockAccepted(r) ==
  /\ pc = "data" /\ Read(r) /\ Valid(r)
  /\ offset + BlockLen(offset) < ImageLen
  /\ offset' = offset + BlockLen(offset) /\ attempt' = 0
  /\ Goto("data")

LastBlockAccepted(r) ==
  /\ pc = "data" /\ Read(r) /\ Valid(r)
  /\ offset + BlockLen(offset) = ImageLen
  /\ Finish("done")

BlockRejected(r) ==
  /\ pc = "data" /\ Read(r) /\ ~Valid(r)
  /\ offset # 0 /\ attempt + 1 < RetryCount
  /\ Goto("resend")
  /\ UNCHANGED <<offset, attempt>>

ResendAnswered(r) ==
  /\ pc = "resend" /\ Read(r) /\ Valid(r)
  /\ attempt' = attempt + 1
  /\ Goto("data")
  /\ UNCHANGED offset

\* An invalid answer where the code does not ask for the packet again.
AnswerInvalid(r) ==
  /\ Read(r) /\ ~Valid(r)
  /\ pc = "data" => offset = 0 \/ attempt + 1 >= RetryCount
  /\ Throw

Receive(r) ==
  \/ ConnectAnswered(r) \/ SyncAnswered(r) \/ PrepareAnswered(r)
  \/ VersionAnswered(r) \/ DeviceAnswered(r)
  \/ BlockAccepted(r) \/ LastBlockAccepted(r) \/ BlockRejected(r)
  \/ ResendAnswered(r) \/ AnswerInvalid(r)

ReceiveAny == \E r \in {outbox} \cup DisturbedAnswer(outbox) : Receive(r)

Host == Send \/ SendLast \/ SendFails \/ Timeout \/ Cancel \/ ReceiveAny

Target == (ParseCmd \/ BootTimeout \/ PowerCycle) /\ UNCHANGED hostVars

Next == Host \/ Target \/ \E o \in Ops : Start(o)

Spec == Init /\ [][Next]_vars

(***************************************************************************)
(* Steps of one update in which nothing fails but blocks after the first,  *)
(* or answers to them, arrive damaged: what CMD_RESEND_PACKET is to repair. *)
(***************************************************************************)
BlockNoise == noise' # noise => pc = "data" /\ offset # 0
RepairNext ==
  \/ (Send \/ ReceiveAny) /\ BlockNoise
  \/ ParseCmd /\ UNCHANGED hostVars
  \/ Start("program")

-----------------------------------------------------------------------------
(* Properties *)

Stages == {"idle", "connect", "sync", "prepare", "data", "resend",
           "fwver", "devid", "leave"}

\* The state keeps its shape: lengths, indices and retry counts stay in range.
TypeOK ==
  /\ TargetTypeOK
  /\ op \in Ops \cup {"none"} /\ pc \in Stages /\ awaiting \in BOOLEAN
  /\ hostIdx \in Nat \ {0} /\ offset \in 0..(ImageLen - 1) /\ attempt \in Nat
  /\ expect \in Response /\ outcome \in {"none", "busy", "done", "failed"}
  /\ noise \in 0..MaxNoise /\ ops \in 0..MaxOps

\* The application region as the binary and erased flash behind it.
Binary == [a \in 0..(DataFlashAddr - 1) |-> IF a < ImageLen THEN Image[a + 1] ELSE Erased]
Application == [a \in 0..(DataFlashAddr - 1) |-> flash[a]]

(***************************************************************************)
(* "Program APROM complete. Packet checksum/readback validation passed."   *)
(* (fw_upload_tab.cpp): a reported success means the whole binary is in    *)
(* the flash, with nothing of the old one behind it, and it stays there.   *)
(***************************************************************************)
ProgramVerified == outcome = "done" => Application = Binary

(***************************************************************************)
(* What the target has acknowledged is in the flash while the rest is sent *)
(* and resent: CMD_RESEND_PACKET takes back one block and no more.  (A     *)
(* restarted target has forgotten UPDATE_APROM; its resend erases page 0.) *)
(***************************************************************************)
AckedKept ==
  pc \in {"data", "resend"} /\ gcmd = UpdateAprom =>
    \A i \in 1..offset : flash[i - 1] = Image[i]

(***************************************************************************)
(* Program APROM writes the target's APROM (README.md): no step changes a  *)
(* word of the data flash.                                                 *)
(***************************************************************************)
DataFlashKept ==
  [][\A a \in Addr : a >= DataFlashAddr => flash'[a] = flash[a]]_vars

\* Program APROM as its user sees it.
Update == INSTANCE ApromUpdate WITH
  Contents <- [0..(DataFlashAddr - 1) -> Word], status <- outcome, content <- Application

\* The protocol, with its losses and retries, implements the promise.
ImplementsUpdate == Update!Spec

-----------------------------------------------------------------------------
(* The inductive invariant behind ProgramVerified. *)

Prefix(n) == \A a \in Addr : a < n => flash[a] = Image[a + 1]
Clear(n) == \A a \in Addr : n <= a /\ a < DataFlashAddr => flash[a] = Erased

\* The target stands before the block at o; before the first it may stand anywhere.
Before(o) ==
  o # 0 => /\ gcmd = UpdateAprom /\ startAddr = o /\ totalLen = ImageLen - o
           /\ Prefix(o) /\ Clear(o)

\* It has programmed something where the block at o goes.
After(o) ==
  /\ gcmd = UpdateAprom /\ startAddr = o + BlockLen(o)
  /\ totalLen = ImageLen - o - BlockLen(o) /\ lastLen = BlockLen(o)
  /\ Prefix(o) /\ Clear(o + BlockLen(o))

Silent == {Connect, SyncPackno, GetFwVer, GetDeviceId, RunAprom, Reset}

\* Client and target agree on the operation and on who speaks.
Shape ==
  /\ outcome = "busy" <=> op = "program"
  /\ pc = "idle" <=> op = "none"
  /\ pc \in {"prepare", "data", "resend"} => op = "program"
  /\ pc = "resend" => offset # 0
  /\ pc \in {"fwver", "devid", "leave"} => op # "program"
  /\ awaiting => pc \notin {"idle", "leave"}
  /\ outbox # NoResponse => inbox = NoPacket /\ packno = outbox.idx + 1
  /\ pc \in {"data", "resend"} => hostIdx >= 3 /\ packno <= hostIdx
  /\ pc \in {"data", "resend"} /\ ~awaiting => inbox = NoPacket

\* Outside an update nothing on its way to the target can write.
Quiet == outcome \in {"none", "done"} /\ inbox # NoPacket => inbox.cmd \in Silent

\* What is on the wire belongs to the transaction the client waits for.
Wire ==
  awaiting =>
    LET sent == PacketAt(hostIdx - 2)
    IN /\ hostIdx >= 3
       /\ expect = [ck |-> Checksum(sent), idx |-> hostIdx - 1]
       /\ inbox # NoPacket => inbox \in {sent} \cup Disturbed(sent)
       /\ pc \in {"data", "resend"} /\ inbox # NoPacket => packno <= hostIdx - 2
       /\ pc = "prepare" => hostIdx = 3
       /\ pc = "prepare" /\ outbox # NoResponse /\ outbox.ck = expect.ck => packno = 3

\* A target that lost no packet stands where the client believes it stands.
Cursor ==
  /\ pc = "data" /\ ~awaiting /\ packno = hostIdx => Before(offset)
  /\ pc = "resend" /\ ~awaiting /\ packno = hostIdx => After(offset)
  /\ pc = "data" /\ awaiting /\ inbox # NoPacket /\ packno = hostIdx - 2 => Before(offset)
  /\ pc = "resend" /\ awaiting /\ inbox # NoPacket /\ packno = hostIdx - 2 => After(offset)
  /\ pc = "data" /\ awaiting /\ outbox # NoResponse /\ packno = hostIdx =>
       /\ offset # 0 => After(offset)
       /\ outbox.ck = expect.ck => After(offset) /\ Prefix(offset + BlockLen(offset))
  /\ pc = "resend" /\ awaiting /\ outbox # NoResponse /\ packno = hostIdx => Before(offset)

IInv == TypeOK /\ Shape /\ Quiet /\ Wire /\ Cursor /\ ProgramVerified

\* Behind AckedKept: a target that still knows of the update has missed no
\* packet of it since the first block was acknowledged.
AckInv ==
  pc \in {"data", "resend"} /\ offset # 0 /\ gcmd = UpdateAprom =>
    /\ Prefix(offset)
    /\ (awaiting => outbox # NoResponse) => packno = hostIdx
    /\ awaiting /\ inbox # NoPacket => packno = hostIdx - 2

\* Behind DataFlashKept: what is still to be programmed ends where the image
\* ends, or one word later when the length was disturbed.
CursorInv ==
  /\ startAddr + totalLen <= ImageLen + 1
  /\ inbox # NoPacket /\ inbox.cmd = UpdateAprom => inbox.arg <= ImageLen + 1
=============================================================================
