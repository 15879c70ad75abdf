---------------------------- MODULE NuvoIspStream ----------------------------
(***************************************************************************)
(* The UART and USB HID ISP clients (core/nuvo_isp_uart.cpp and            *)
(* core/nuvo_isp_usb_hid.cpp) with the tabs that drive them.  Packets,     *)
(* blocks and programming are those of NuvoIspI2c, whose definitions are   *)
(* used; what differs is the way back.  An I2C read asks the target for    *)
(* the answer to the last packet; here answers queue up, and one that      *)
(* comes after its time-out is the first thing the next transaction reads. *)
(*                                                                         *)
(* The client lives as long as its tab, and so does packet_index_.  The    *)
(* target is the interpreter of IspTarget: the LDROMs for UART and USB are *)
(* the vendor's and answer the same commands.                              *)
(***************************************************************************)
EXTENDS NuvoIspI2c, Sequences

CONSTANT Transports \* the transports of the runs: of {"uart", "hid", "legacy"}

VARIABLES
  transport, \* "legacy" is a HID target with product id A316
  handle,    \* "closed", "open", or "stale": the USB device behind it is gone
  line       \* what the target sent and nobody has read, in pieces

streamVars == <<transport, handle, line>>
allVars == <<vars, streamVars>>

Hid == transport \in {"hid", "legacy"}

-----------------------------------------------------------------------------
(* The way back *)

\* An answer is one report, or bytes of a stream that can be cut: two halves.
Piece(n, r) == [part |-> n, of |-> r]
Pieces(r) == IF Hid THEN <<Piece(0, r)>> ELSE <<Piece(1, r), Piece(2, r)>>
Need == IF Hid THEN 1 ELSE 2
Garbage == [ck |-> BadField, idx |-> BadField]

\* What ReadExact or ReadPacket makes of the first pieces: 64 bytes that are
\* not one answer carry no valid checksum.
Heard == IF SubSeq(line, 1, Need) = Pieces(line[1].of) THEN line[1].of ELSE Garbage
Rest(n) == SubSeq(line, n + 1, Len(line))

\* How an answer can arrive when something goes wrong on its way.
Spoilt(r) ==
  IF Hid THEN {<<>>}
  ELSE {<<>>, <<Piece(1, r)>>, <<Piece(2, r)>>,
        <<Piece(0, Garbage)>> \o Pieces(r), <<Piece(1, Garbage), Piece(2, r)>>}

Noisy == noise < MaxNoise /\ noise' = noise + 1

-----------------------------------------------------------------------------
StreamInit ==
  /\ Init
  /\ transport \in Transports /\ handle = "closed" /\ line = <<>>

\* CONNECT, a new handle: the purge takes what has arrived, not what is on its way.
Opened ==
  /\ handle' = "open" /\ hostIdx' = 18
  /\ line' \in {Rest(n) : n \in 0..Len(line)}
  /\ UNCHANGED transport

\* Open COM.
OpenPort ==
  /\ ~Hid /\ pc = "idle" /\ handle = "closed"
  /\ Opened
  /\ UNCHANGED <<targetVars, op, pc, awaiting, offset, attempt, expect, outcome, noise, ops>>

Closed == handle' = "closed" /\ hostIdx' = 18 /\ UNCHANGED <<transport, line>>

\* Close COM, Disconnect HID.
ClosePort ==
  /\ pc = "idle" /\ handle # "closed"
  /\ Closed
  /\ UNCHANGED <<targetVars, op, pc, awaiting, offset, attempt, expect, outcome, noise, ops>>

\* A button.  Only the HID tab connects by itself; Run APROM and Reset Target
\* send their packet without a handshake.
StreamStart(o) ==
  /\ pc = "idle" /\ ops < MaxOps
  /\ handle # "closed" \/ (Hid /\ o \in {"program", "device"})
  /\ ops' = ops + 1
  /\ op' = o /\ pc' = IF o \in {"program", "device"} THEN "connect" ELSE "leave"
  /\ outcome' = IF o = "program" THEN "busy" ELSE outcome
  /\ UNCHANGED <<targetVars, awaiting, hostIdx, offset, attempt, expect, noise, streamVars>>

\* The operation ends; the client stays.
End(result) ==
  /\ op' = "none" /\ pc' = "idle" /\ awaiting' = FALSE
  /\ outcome' = IF op = "program" THEN result ELSE outcome
  /\ offset' = 0 /\ attempt' = 0 /\ expect' = NoResponse
  /\ UNCHANGED <<ops, transport>>

Handshaking == pc \in {"connect", "sync"}

\* Mutant of AfterFailure: a failed handshake keeps the handle.
AfterFailureKeep ==
  IF Handshaking /\ Hid
  THEN /\ pc' = "connect" /\ awaiting' = FALSE
       /\ UNCHANGED <<op, hostIdx, offset, attempt, expect, outcome, ops, handle, transport>>
  ELSE End("failed") /\ UNCHANGED <<hostIdx, handle>>

(***************************************************************************)
(* An exception.  In the handshake the HID tab drops the handle and tries  *)
(* again, with no deadline; the UART client tries as long as it has time.  *)
(* Elsewhere it ends the operation.                                        *)
(***************************************************************************)
AfterFailure ==
  IF Handshaking /\ Hid
  THEN /\ pc' = "connect" /\ awaiting' = FALSE /\ handle' = "closed" /\ hostIdx' = 18
       /\ UNCHANGED <<op, offset, attempt, expect, outcome, ops, transport>>
  ELSE /\ UNCHANGED <<hostIdx, handle>>
       /\ IF Handshaking /\ attempt + 1 < ConnectTries
          THEN /\ pc' = "connect" /\ attempt' = attempt + 1 /\ awaiting' = FALSE
               /\ UNCHANGED <<op, offset, expect, outcome, ops, transport>>
          ELSE End("failed")

\* ConnectBootloaderFlow without a handle: the device is there, and opens.
FlowOpen ==
  /\ Hid /\ pc = "connect" /\ handle = "closed" /\ mode # "app"
  /\ Opened
  /\ UNCHANGED <<targetVars, op, pc, awaiting, offset, attempt, expect, outcome, noise, ops>>

-----------------------------------------------------------------------------
(* Transact *)

StreamPacket ==
  IF pc = "config" THEN BuildPacket(ReadConfig, hostIdx, 0, NoData) ELSE OutPacket

\* The packet as the target finds it: a UART has no receiver to refuse it and
\* can lose or disturb it, a HID report is checked by USB.
Delivered(p) ==
  /\ outbox' = NoResponse
  /\ IF mode = "app"
     THEN inbox' = NoPacket /\ UNCHANGED noise
     ELSE \/ inbox' = p /\ UNCHANGED noise
          \/ Noisy /\ inbox' = NoPacket
          \/ ~Hid /\ Noisy /\ inbox' \in Disturbed(p)
  /\ UNCHANGED <<flash, mode, gcmd, cursor, packno>>

Transmit ==
  /\ pc \notin {"idle", "leave"} /\ ~awaiting /\ handle = "open"
  /\ Delivered(StreamPacket)
  /\ awaiting' = TRUE
  /\ hostIdx' = StreamPacket.idx + 2
  /\ expect' = [ck |-> Checksum(StreamPacket), idx |-> StreamPacket.idx + 1]
  /\ UNCHANGED <<op, pc, offset, attempt, outcome, ops, streamVars>>

\* SendNoResponse.
TransmitLast ==
  /\ pc = "leave" /\ handle = "open"
  /\ Delivered(StreamPacket)
  /\ hostIdx' = hostIdx + 2
  /\ End("done")
  /\ UNCHANGED <<handle, line>>

\* The write throws: always on a stale handle; else with or without the packet
\* under way (WriteAll can report a time-out after the last byte).
WriteThrows ==
  /\ pc # "idle" /\ ~awaiting
  /\ \/ handle = "stale" /\ UNCHANGED <<targetVars, noise>>
     \/ /\ handle = "open" /\ Noisy
        /\ inbox' \in {inbox} \cup (IF mode = "app" THEN {} ELSE {StreamPacket})
        /\ outbox' = NoResponse
        /\ UNCHANGED <<flash, mode, gcmd, cursor, packno>>
  /\ AfterFailure
  /\ UNCHANGED line

\* What an unfinished read has taken from the line is lost.
Abandoned == line' \in {Rest(n) : n \in {k \in 0..Len(line) : k < Need}}

\* The answer does not come, or comes too late.
TimedOut ==
  /\ awaiting
  /\ \/ inbox = NoPacket /\ Len(line) < Need /\ UNCHANGED noise
     \/ (inbox # NoPacket \/ Len(line) >= Need) /\ Noisy
  /\ Abandoned
  /\ AfterFailure
  /\ UNCHANGED targetVars

\* Stop.  The queries after the handshake and SendNoResponse do not look.
Stopped ==
  /\ pc \notin {"idle", "fwver", "devid", "config", "leave"}
  /\ IF awaiting THEN Abandoned ELSE UNCHANGED line
  /\ End("failed")
  /\ UNCHANGED <<targetVars, noise, hostIdx, handle>>

Indexed == pc \in {"data", "fwver", "devid", "config"}

\* Mutants of Fits: the index is not compared; the checksum is not compared.
FitsAnyIndex(r) == r.ck = expect.ck
FitsAnySum(r) == Indexed => r.idx = expect.idx

\* checksum_ok and index_ok.
Fits(r) == r.ck = expect.ck /\ (Indexed => r.idx = expect.idx)

\* Mutant of LastBlock: the loop condition is off by one.
LastBlockLate == offset + BlockLen(offset) > ImageLen

LastBlock == offset + BlockLen(offset) = ImageLen

\* What follows the transaction the client is in.
Following ==
  CASE pc = "connect" -> "sync"
    [] pc = "sync" -> IF op = "program" /\ ~Hid THEN "prepare" ELSE "fwver"
    [] pc = "fwver" -> "devid"
    [] pc = "devid" -> IF Hid THEN "config" ELSE "idle"
    [] pc = "config" -> IF op = "program" THEN "prepare" ELSE "idle"
    [] pc \in {"prepare", "resend"} -> "data"
    [] OTHER -> IF LastBlock THEN "idle" ELSE "data"

Progress ==
  CASE pc = "prepare" -> offset' = 0 /\ attempt' = 0
    [] pc = "data" -> offset' = offset + BlockLen(offset) /\ attempt' = 0
    [] pc = "resend" -> attempt' = attempt + 1 /\ UNCHANGED offset
    [] OTHER -> UNCHANGED <<offset, attempt>>

Answered ==
  /\ awaiting /\ Len(line) >= Need /\ Fits(Heard)
  /\ line' = Rest(Need)
  /\ IF Following = "idle" THEN End("done") ELSE Goto(Following) /\ Progress /\ UNCHANGED transport
  /\ UNCHANGED <<targetVars, noise, hostIdx, handle>>

\* The block is asked for again.
Refused ==
  /\ awaiting /\ Len(line) >= Need /\ ~Fits(Heard) /\ transport # "legacy"
  /\ pc = "data" /\ offset # 0 /\ attempt + 1 < RetryCount
  /\ line' = Rest(Need)
  /\ Goto("resend")
  /\ UNCHANGED <<targetVars, noise, offset, attempt, transport, handle>>

Rejected ==
  /\ awaiting /\ Len(line) >= Need /\ ~Fits(Heard) /\ transport # "legacy"
  /\ pc = "data" => offset = 0 \/ attempt + 1 >= RetryCount
  /\ line' = Rest(Need)
  /\ AfterFailure
  /\ UNCHANGED <<targetVars, noise>>

\* ReadPacket of the legacy device reads on.
Skipped ==
  /\ awaiting /\ Len(line) >= Need /\ ~Fits(Heard) /\ transport = "legacy"
  /\ line' = Rest(Need)
  /\ UNCHANGED <<vars, transport, handle>>

Client ==
  \/ FlowOpen \/ Transmit \/ TransmitLast \/ WriteThrows
  \/ TimedOut \/ Answered \/ Refused \/ Rejected \/ Skipped

-----------------------------------------------------------------------------
(* The target *)

\* A USB target that restarts leaves the bus: the handle is dead, its queue gone.
Leaves ==
  IF Hid
  THEN handle' = (IF handle = "open" THEN "stale" ELSE handle) /\ line' = <<>>
  ELSE UNCHANGED <<handle, line>>

TargetParses ==
  /\ ParseCmd
  /\ \/ outbox' = NoResponse /\ Leaves /\ UNCHANGED noise
     \/ outbox' # NoResponse /\ UNCHANGED <<handle, noise>> /\ line' = line \o Pieces(outbox')
     \/ outbox' # NoResponse /\ UNCHANGED handle /\ Noisy
        /\ \E s \in Spoilt(outbox') : line' = line \o s
  /\ UNCHANGED <<op, pc, awaiting, hostIdx, offset, attempt, expect, outcome, ops, transport>>

TargetBoots ==
  /\ BootTimeout
  /\ IF mode' = "app" THEN Leaves ELSE UNCHANGED <<handle, line>>
  /\ UNCHANGED <<hostVars, transport>>

TargetReset ==
  /\ PowerCycle /\ Leaves /\ Noisy
  /\ UNCHANGED <<op, pc, awaiting, hostIdx, offset, attempt, expect, outcome, ops, transport>>

StreamNext ==
  \/ OpenPort \/ ClosePort \/ (\E o \in Ops : StreamStart(o)) \/ Stopped \/ Client
  \/ TargetParses \/ TargetBoots \/ TargetReset

(***************************************************************************)
(* The UI thread runs the client, every wait of which has a time-out, and  *)
(* the target runs its main loop.                                          *)
(***************************************************************************)
StreamSpec ==
  /\ StreamInit /\ [][StreamNext]_allVars
  /\ WF_allVars(Client) /\ WF_allVars(TargetParses)

-----------------------------------------------------------------------------
(* Properties *)

\* The state keeps its shape; an unread piece is a part of some answer.
StreamTypeOK ==
  /\ TargetTypeOK
  /\ op \in Ops \cup {"none"} /\ pc \in Stages \cup {"config"} /\ awaiting \in BOOLEAN
  /\ hostIdx \in Nat \ {0} /\ offset \in 0..(ImageLen - 1) /\ attempt \in Nat
  /\ expect \in Response /\ outcome \in {"none", "busy", "done", "failed"}
  /\ noise \in 0..MaxNoise /\ ops \in 0..MaxOps
  /\ transport \in Transports /\ handle \in {"closed", "open", "stale"}
  /\ line \in Seq([part : 0..2, of : Response \cup {Garbage}])

\* Handles opened again and again, 200 ms after they were closed, some time
\* find the last packet answered and its answer gone.
CleanOpens ==
  []<><<FlowOpen>>_allVars => []<><<FlowOpen /\ inbox = NoPacket /\ line' = <<>>>>_allVars

(***************************************************************************)
(* An operation ends: the UART client's by its time-outs; the HID flow,    *)
(* which has no deadline, because fresh handles bring it back in step with *)
(* any target that does not leave its bootloader.                          *)
(***************************************************************************)
Returns == CleanOpens => (op # "none" ~> op = "none" \/ (Hid /\ mode = "app"))
=============================================================================
