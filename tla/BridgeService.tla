--------------------------- MODULE BridgeService ---------------------------
(***************************************************************************)
(* The I2C bridge: BridgeService of the host tool over HidBridgeClient or  *)
(* VcomBridgeClient, and the firmware that answers it (hid_tool_api.c,     *)
(* vcom_bridge.c).  A transfer on the I2C bus is a series of requests,     *)
(* each answered before the next is sent: clear the staging buffer, append *)
(* the packet to it in chunks, execute; a read then fetches what was read. *)
(* A request carries a sequence number and only the response that repeats  *)
(* it and the command is taken; any other is skipped.                      *)
(*                                                                         *)
(* A frame travels in pieces: a HID report is one, a VCOM frame two, its   *)
(* header and its payload with the CRC.  The frame parsers take pieces as  *)
(* they come and tell a header with a foreign payload by the CRC.          *)
(*                                                                         *)
(* A chunk names the transfer it belongs to, so that properties can tell   *)
(* whose bytes are on the bus.  Everything that goes wrong for another     *)
(* reason than what the two programs do draws on the budget MaxFaults.     *)
(***************************************************************************)
EXTENDS Integers, Sequences, FiniteSets

CONSTANTS
  Chunks,      \* requests that carry a packet: 64 bytes, 56 in the first
  StageSize,   \* chunks M031_BRIDGE_I2C_STAGE_BUF_SIZE holds
  SeqMod,      \* sequence numbers wrap at 256 (HID) or 65536 (VCOM)
  RingSize,    \* pieces the firmware's receive ring holds (256 bytes)
  MaxOps,      \* bound on the transfers
  MaxConnects, \* bound on the times the user connects
  MaxFaults    \* bound on the faults

ASSUME BridgeAssumption ==
  /\ Chunks \in Nat \ {0} /\ StageSize \in Nat \ {0}
  /\ SeqMod \in Nat \ {0, 1} /\ RingSize \in Nat \ {0, 1}
  /\ MaxOps \in Nat /\ MaxConnects \in Nat /\ MaxFaults \in Nat

VARIABLES
  transport, \* active_transport_: "hid" or "vcom"
  handle,    \* "closed", "open", or "stale": open, but its device has gone
  seq,       \* seq_ of the client
  enabled,   \* host_enabled_ of the tab
  call,      \* the call of the service under way, or "none"
  step,      \* which of its requests
  phase,     \* where the client is: "send", "pop", "read" or "last"
  got,       \* the chunks fetched so far
  input,     \* pieces of responses the host has not parsed
  output,    \* pieces of requests the firmware has not parsed
  held,      \* the header VcomBridge_ParseByte waits with, or NoPiece
  reply,     \* the response in the endpoint buffer of the device (HID)
  ready,     \* M031BridgeI2c_IsMasterReady
  stageTx, stageRx, \* g_i2c_stage_tx and g_i2c_stage_rx, up to their lengths
  resetting, \* g_u8ResetRequested
  op, result,\* the transfer asked for last, and how it ended
  wire,      \* history: what was put on the bus, in order
  connects, faults,
  clean, lost \* history, see AtMostOneLost

client == <<seq, step, phase, got>>
firmware == <<ready, stageTx, stageRx, resetting>>
budget == <<faults, clean, lost>>
vars == <<transport, handle, seq, enabled, call, step, phase, got, input, output, held,
          reply, ready, stageTx, stageRx, resetting, op, result, wire, connects, faults,
          clean, lost>>

Hid == transport = "hid"
Transfers == {"write", "read"}
NoPiece == [part |-> 0]
NoReply == [cmd |-> "none"]

Parts == IF Hid THEN {1} ELSE {1, 2}
Frame(m, parts) ==
  (IF 1 \in parts THEN <<[part |-> 1, msg |-> m]>> ELSE <<>>)
    \o (IF 2 \in parts THEN <<[part |-> 2, msg |-> m]>> ELSE <<>>)

Fault == faults < MaxFaults /\ faults' = faults + 1 /\ clean' = FALSE /\ lost' = 0
NoFault == UNCHANGED budget

Init ==
  /\ transport \in {"hid", "vcom"}
  /\ handle = "closed" /\ seq = 1 /\ enabled = FALSE
  /\ call = "none" /\ step = 0 /\ phase = "send" /\ got = <<>>
  /\ input = <<>> /\ output = <<>> /\ held = NoPiece /\ reply = NoReply
  /\ ready = FALSE /\ stageTx = <<>> /\ stageRx = <<>> /\ resetting = FALSE
  /\ op = 0 /\ result = "none" /\ wire = <<>>
  /\ connects = 0 /\ faults = 0 /\ clean = TRUE /\ lost = 0

-----------------------------------------------------------------------------
(* The user, between two calls of the service.                             *)

Begin(c, first) ==
  /\ call = "none" /\ call' = c
  /\ step' = first /\ phase' = "send"
  /\ got' = IF c \in Transfers THEN <<>> ELSE got

\* Connect closes what was open; the first request is GET_INFO.
Connect ==
  /\ connects < MaxConnects /\ connects' = connects + 1
  /\ Begin("info", 1)
  /\ handle' = "open" /\ seq' = 1 /\ input' = <<>> /\ enabled' = FALSE
  /\ UNCHANGED <<transport, output, held, reply, firmware, op, result, wire, budget>>

Disconnect ==
  /\ call = "none" /\ handle # "closed"
  /\ handle' = "closed" /\ input' = <<>> /\ enabled' = FALSE
  /\ UNCHANGED <<transport, client, call, output, held, reply, firmware, op, result, wire,
                 connects, budget>>

\* A write or a read of the I2C client; EnsureHostEnabled may come first.
Ask(c) ==
  /\ handle # "closed" /\ op < MaxOps
  /\ Begin(c, IF enabled THEN 1 ELSE 0)
  /\ op' = op + 1 /\ result' = "pending" /\ clean' = TRUE
  /\ UNCHANGED <<transport, handle, seq, enabled, input, output, held, reply, firmware, wire,
                 connects, faults, lost>>

\* Disable I2C Host, Reset MCU.
Command(c) ==
  /\ handle # "closed" /\ (c = "deinit" => enabled)
  /\ Begin(c, 1)
  /\ UNCHANGED <<transport, handle, seq, enabled, input, output, held, reply, firmware, op,
                 result, wire, connects, budget>>

User == Connect \/ Disconnect \/ (\E c \in Transfers : Ask(c))
          \/ (\E c \in {"deinit", "reset"} : Command(c))

-----------------------------------------------------------------------------
(* The client: it sends a request and pops responses until one fits.  In   *)
(* "pop" it looks for a frame in what has arrived; in "read" it waits for  *)
(* more.  When time is up VcomBridgeClient looks once more ("last").       *)

\* The request that comes next: its command and what it is about.
WriteStep(n) ==
  CASE n = 0 -> "init" [] n = 1 -> "clear" [] n = Chunks + 2 -> "write" [] OTHER -> "append"
ReadStep(n) ==
  CASE n = 0 -> "init" [] n = 1 -> "clear" [] n = 2 -> "read" [] OTHER -> "fetch"
Steps == IF call \in Transfers THEN Chunks + 2 ELSE 1

\* Mutant of Cmd: the staging buffer is not cleared.
CmdUncleared == CASE call = "write" -> (IF step = 1 THEN "info" ELSE WriteStep(step))
                  [] call = "read" -> ReadStep(step) [] OTHER -> call
Cmd == CASE call = "write" -> WriteStep(step) [] call = "read" -> ReadStep(step) [] OTHER -> call

Request == [cmd |-> Cmd, seq |-> seq, op |-> op,
            n |-> CASE Cmd = "append" -> step - 1 [] Cmd = "fetch" -> Len(got) [] OTHER -> 0]

\* What the firmware's ring keeps of more pieces.
Overflows(pieces) == Len(output) + Len(pieces) > RingSize
\* Mutant of Received: no check that the ring is full.
ReceivedAll(pieces) == output \o pieces
Received(pieces) ==
  IF Overflows(pieces) THEN SubSeq(output \o pieces, 1, RingSize) ELSE output \o pieces

\* The call ends: what the tab does then.
End(ok) ==
  /\ call' = "none" /\ phase' = "send"
  /\ result' = IF call \notin Transfers THEN result
                ELSE IF ~ok THEN "failed" ELSE IF call = "read" THEN "fetched" ELSE "written"
  /\ IF (ok /\ call = "reset") \/ (~ok /\ call = "info" /\ ~Hid)
     THEN handle' = "closed" /\ enabled' = FALSE
     ELSE enabled' = (enabled /\ ~(ok /\ call = "deinit")) /\ UNCHANGED handle

\* History: transfers that failed in a row although nothing went wrong.
Count(ok) ==
  /\ lost' = IF call \notin Transfers THEN lost
             ELSE IF ok THEN 0
             ELSE IF clean /\ handle = "open" /\ (enabled => ready) THEN lost + 1 ELSE lost
  /\ UNCHANGED <<faults, clean>>

InCall(p) == call # "none" /\ phase = p

\* A piece may get lost on the way; what the ring has no room for is lost.
Send ==
  /\ InCall("send") /\ handle = "open" /\ (Hid => output = <<>>)
  /\ \E parts \in SUBSET Parts :
       /\ IF parts # Parts THEN Fault
          ELSE IF Overflows(Frame(Request, Parts)) THEN lost' = 0 /\ clean' = FALSE /\ UNCHANGED faults
          ELSE NoFault
       /\ output' = Received(Frame(Request, parts))
  /\ seq' = (seq + 1) % SeqMod /\ phase' = "pop"
  /\ UNCHANGED <<transport, handle, enabled, call, step, got, input, held, reply, firmware, op,
                 result, wire, connects>>

\* The write fails or times out; the frame may have left all the same.
SendThrows ==
  /\ InCall("send") /\ handle = "open" /\ Fault
  /\ \/ output' = output
     \/ (Hid => output = <<>>) /\ output' = Received(Frame(Request, Parts))
  /\ seq' = (seq + 1) % SeqMod
  /\ End(FALSE)
  /\ UNCHANGED <<transport, step, got, input, held, reply, firmware, op, wire, connects>>

\* Every access of a handle whose device has gone fails.
StaleThrows ==
  /\ call # "none" /\ handle = "stale"
  /\ End(FALSE) /\ Count(FALSE)
  /\ UNCHANGED <<transport, seq, step, got, input, output, held, reply, firmware, op, wire,
                 connects>>

\* TryPop discards what cannot be the start of a frame ...
Sync(s) ==
  IF \E i \in 1..Len(s) : s[i].part = 1
  THEN SubSeq(s, CHOOSE i \in 1..Len(s) : s[i].part = 1 /\ \A j \in 1..(i - 1) : s[j].part # 1, Len(s))
  ELSE <<>>
Width == IF Hid THEN 1 ELSE 2
\* ... and takes a frame if all of it is there and its CRC is right.
Whole(s) == Len(s) >= Width /\ (~Hid => s[2] = [part |-> 2, msg |-> s[1].msg])

\* Mutant of Fits: the sequence number is not compared.
FitsAnySeq(r) == r.cmd = Cmd

\* It answers the request that waits.
Fits(r) == r.cmd = Cmd /\ (r.seq + 1) % SeqMod = seq

\* The frame in front is for another request: look again.
Skip ==
  LET s == Sync(input)
  IN /\ (InCall("pop") \/ InCall("last"))
     /\ handle = "open" /\ Whole(s) /\ ~Fits(s[1].msg)
     /\ input' = SubSeq(s, Width + 1, Len(s))
     /\ UNCHANGED <<transport, handle, enabled, call, client, output, held, reply, firmware, op,
                    result, wire, connects, budget>>

\* No frame: a bad one loses its first byte, a short one waits.
PopNothing ==
  LET s == Sync(input)
  IN /\ handle = "open" /\ ~Whole(s)
     /\ input' = IF Len(s) < Width THEN s ELSE Tail(s)
     /\ \/ /\ InCall("pop")
           /\ phase' = "read" /\ NoFault
           /\ UNCHANGED <<handle, enabled, call, result>>
        \/ (InCall("last") /\ End(FALSE) /\ Count(FALSE))
     /\ UNCHANGED <<transport, seq, step, got, output, held, reply, firmware, op, wire, connects>>

\* Nothing more can arrive; a time-out at any other moment is a fault.
Silent == output = <<>> /\ reply = NoReply

\* Mutant of TimeUp: the loop goes on without looking at the time.
TimeUpAgain ==
  /\ InCall("read") /\ handle = "open" /\ Silent
  /\ phase' = "pop" /\ NoFault
  /\ UNCHANGED <<transport, handle, enabled, call, seq, step, got, input, output, held, reply,
                 firmware, op, result, wire, connects>>

TimeUp ==
  /\ InCall("read") /\ handle = "open"
  /\ IF Hid
     THEN End(FALSE) /\ IF Silent THEN Count(FALSE) ELSE Fault
     ELSE /\ phase' = "last"
          /\ IF Silent THEN NoFault ELSE Fault
          /\ UNCHANGED <<handle, enabled, call, result>>
  /\ UNCHANGED <<transport, seq, step, got, input, output, held, reply, firmware, op, wire,
                 connects>>

\* A status other than OK throws, and a fetch that does not fit the execute.
Refused(r) == ~r.ok \/ (r.cmd = "fetch" /\ (r.total # Chunks \/ r.data = <<>>))

Take ==
  LET s == Sync(input)
      r == s[1].msg
  IN /\ (InCall("pop") \/ InCall("last"))
     /\ handle = "open" /\ Whole(s) /\ Fits(r)
     /\ input' = SubSeq(s, Width + 1, Len(s))
     /\ IF Refused(r) THEN End(FALSE) /\ Count(FALSE) /\ UNCHANGED <<step, got>>
        ELSE /\ got' = got \o r.data
             /\ IF step = Steps THEN End(TRUE) /\ Count(TRUE) /\ UNCHANGED step
                ELSE /\ step' = step + 1 /\ phase' = "send"
                     /\ enabled' = (enabled \/ r.cmd = "init")
                     /\ NoFault /\ UNCHANGED <<handle, call, result>>
     /\ UNCHANGED <<transport, seq, output, held, reply, firmware, op, wire, connects>>

Client == Send \/ SendThrows \/ StaleThrows \/ Skip \/ PopNothing \/ TimeUp \/ Take

-----------------------------------------------------------------------------
(* The firmware.  HidTool_Process takes a report and answers it,           *)
(* VcomBridge_Process parses what is in the ring and answers what is       *)
(* complete; both dispatch to the same commands.                           *)

\* The request that is complete with the next piece, if it is.
Arrived ==
  /\ output # <<>>
  /\ ~Hid => held # NoPiece /\ Head(output) = [part |-> 2, msg |-> held.msg]
Arriving == IF Hid THEN Head(output).msg ELSE held.msg

\* Mutant of ParseByte: the parser keeps its state after a bad payload.
ParseByteKept ==
  /\ output # <<>> /\ ~Arrived
  /\ output' = Tail(output)
  /\ held' = IF held = NoPiece /\ Head(output).part = 2 THEN NoPiece
             ELSE IF held = NoPiece THEN Head(output) ELSE held
  /\ UNCHANGED <<transport, handle, enabled, call, client, input, reply, firmware, op, result,
                 wire, connects, budget>>

\* A header is kept; what follows it is its payload, and bad; a payload without is skipped.
ParseByte ==
  /\ output # <<>> /\ ~Arrived
  /\ output' = Tail(output)
  /\ held' = IF held = NoPiece /\ Head(output).part = 1 THEN Head(output) ELSE NoPiece
  /\ UNCHANGED <<transport, handle, enabled, call, client, input, reply, firmware, op, result,
                 wire, connects, budget>>

\* The response to m leaves: into the endpoint's buffer, or onto the line.
Leaves(r, parts) ==
  IF Hid
  THEN /\ reply' = IF parts = {} THEN reply ELSE r
       /\ UNCHANGED <<input, phase>>
  ELSE /\ UNCHANGED reply
       /\ IF handle = "closed" THEN UNCHANGED <<input, phase>>
          ELSE /\ input' = input \o Frame(r, parts)
               /\ phase' = IF phase = "read" /\ parts # {} THEN "pop" ELSE phase

\* It may lose a piece on the way.
Respond(m, ok, total, data) ==
  \E parts \in SUBSET Parts :
    /\ IF parts = Parts THEN NoFault ELSE Fault
    /\ Leaves([cmd |-> m.cmd, seq |-> m.seq, ok |-> ok, total |-> total, data |-> data], parts)

Fails(m) ==
  Fault /\ Leaves([cmd |-> m.cmd, seq |-> m.seq, ok |-> FALSE, total |-> 0, data |-> <<>>], Parts)

Accepts(m, c) ==
  /\ Arrived /\ m = Arriving /\ m.cmd = c
  /\ output' = Tail(output) /\ held' = NoPiece

\* What no request of the firmware touches.
HostRest == UNCHANGED <<transport, handle, seq, enabled, call, step, got, op, result, connects>>

HandleInfo(m) ==
  /\ Accepts(m, "info") /\ Respond(m, TRUE, 0, <<>>)
  /\ UNCHANGED <<firmware, wire>> /\ HostRest

HandleReset(m) ==
  /\ Accepts(m, "reset") /\ Respond(m, TRUE, 0, <<>>)
  /\ resetting' = TRUE
  /\ UNCHANGED <<ready, stageTx, stageRx, wire>> /\ HostRest

\* Bridge_I2cStageReset, on its own and with a change of the master.
HandleClear(m, c) ==
  /\ Accepts(m, c) /\ Respond(m, TRUE, 0, <<>>)
  /\ stageTx' = <<>> /\ stageRx' = <<>>
  /\ ready' = IF c = "clear" THEN ready ELSE c = "init"
  /\ UNCHANGED <<resetting, wire>> /\ HostRest

HandleAppend(m) ==
  /\ Accepts(m, "append")
  /\ IF Len(stageTx) < StageSize
     THEN stageTx' = Append(stageTx, <<m.op, m.n>>) /\ Respond(m, TRUE, 0, <<>>)
     ELSE Respond(m, FALSE, 0, <<>>) /\ UNCHANGED stageTx
  /\ UNCHANGED <<ready, stageRx, resetting, wire>> /\ HostRest

NotReady(m, c) ==
  /\ Accepts(m, c) /\ ~ready
  /\ Respond(m, FALSE, 0, <<>>)
  /\ UNCHANGED <<firmware, wire>> /\ HostRest

\* MasterWriteEx of what is staged; of nothing, it succeeds and does nothing.
Staged == IF stageTx = <<>> THEN <<>> ELSE <<stageTx>>

\* Mutant of HandleWrite: the master is not asked whether it is set up.
HandleWriteUnready(m) ==
  /\ Accepts(m, "write")
  /\ stageRx' = <<>>
  /\ wire' = wire \o Staged /\ Respond(m, TRUE, Len(stageTx), <<>>)
  /\ UNCHANGED <<ready, stageTx, resetting>> /\ HostRest

HandleWrite(m) ==
  /\ Accepts(m, "write") /\ ready
  /\ stageRx' = <<>>
  /\ \/ (wire' = wire \o Staged /\ Respond(m, TRUE, Len(stageTx), <<>>))
     \/ (wire' \in {wire, wire \o Staged} /\ Fails(m))
  /\ UNCHANGED <<ready, stageTx, resetting>> /\ HostRest

\* MasterWriteRead: what is staged, if anything, then the read.
ReadBytes(m) == [i \in 1..Chunks |-> <<m.op, i>>]
HandleRead(m) ==
  /\ Accepts(m, "read") /\ ready
  /\ \/ /\ stageRx' = ReadBytes(m) /\ wire' = wire \o Staged \o <<ReadBytes(m)>>
        /\ Respond(m, TRUE, Chunks, <<>>)
     \/ /\ \E n \in 0..Chunks : stageRx' = SubSeq(ReadBytes(m), 1, n)
        /\ wire' \in {wire, wire \o Staged, wire \o Staged \o <<ReadBytes(m)>>}
        /\ Fails(m)
  /\ UNCHANGED <<ready, stageTx, resetting>> /\ HostRest

HandleFetch(m) ==
  /\ Accepts(m, "fetch")
  /\ IF m.n > Len(stageRx) THEN Respond(m, FALSE, 0, <<>>)
     ELSE Respond(m, TRUE, Len(stageRx),
                  IF m.n = Len(stageRx) THEN <<>> ELSE <<stageRx[m.n + 1]>>)
  /\ UNCHANGED <<firmware, wire>> /\ HostRest

Dispatch(m) ==
  \/ HandleInfo(m) \/ HandleReset(m) \/ HandleAppend(m) \/ HandleWrite(m) \/ HandleRead(m)
  \/ HandleFetch(m) \/ (\E c \in {"clear", "init", "deinit"} : HandleClear(m, c))
  \/ (\E c \in Transfers : NotReady(m, c))

\* The host controller polls the endpoint as long as somebody has it open.
Poll ==
  /\ Hid /\ reply # NoReply /\ handle = "open"
  /\ input' = input \o Frame(reply, Parts) /\ reply' = NoReply
  /\ phase' = IF phase = "read" THEN "pop" ELSE phase
  /\ UNCHANGED <<transport, handle, seq, enabled, call, step, got, output, held, firmware, op,
                 result, wire, connects, budget>>

Firmware == (Arrived /\ Dispatch(Arriving)) \/ ParseByte \/ Poll

\* The RAM after any reset of the chip; a USB device leaves the bus.
Restart ==
  /\ ready' = FALSE /\ stageTx' = <<>> /\ stageRx' = <<>> /\ resetting' = FALSE
  /\ output' = <<>> /\ held' = NoPiece /\ reply' = NoReply
  /\ handle' = IF Hid /\ handle = "open" THEN "stale" ELSE handle
  /\ UNCHANGED <<transport, enabled, call, client, input, op, result, wire, connects>>

\* The countdown of a requested reset, and a reset for another reason.
CountdownEnds == resetting /\ Restart /\ clean' = FALSE /\ UNCHANGED <<faults, lost>>
PowerCycle == Fault /\ Restart

Next == User \/ Client \/ Firmware \/ CountdownEnds \/ PowerCycle

Spec == Init /\ [][Next]_vars

\* The host's thread runs, the firmware's loop and the USB controller too.
FairSpec == Spec /\ WF_vars(Client) /\ WF_vars(Firmware)

-----------------------------------------------------------------------------
(* Properties *)

\* The variables keep their ranges; no buffer grows past what is meant for it.
TypeOK ==
  /\ transport \in {"hid", "vcom"} /\ handle \in {"closed", "open", "stale"}
  /\ seq \in 0..(SeqMod - 1) /\ {enabled, ready, resetting, clean} \subseteq BOOLEAN
  /\ call \in Transfers \cup {"none", "info", "deinit", "reset"}
  /\ step \in 0..(Chunks + 2) /\ phase \in {"send", "pop", "read", "last"}
  /\ Len(got) <= Chunks /\ Len(output) <= RingSize
  /\ Len(stageTx) <= Chunks /\ Len(stageRx) <= Chunks
  /\ op \in 0..MaxOps /\ result \in {"none", "pending", "written", "fetched", "failed"}

\* The transfer whose packet w is, whole and in order; 0 if it is none's.
TransferOf(w) == IF w = [i \in 1..Chunks |-> <<w[1][1], i>>] THEN w[1][1] ELSE 0

(***************************************************************************)
(* The firmware puts on the bus whatever is staged when it is told to: it  *)
(* must be one packet, whole, whichever requests were lost, repeated or    *)
(* left over from a transfer that failed (bridge_service.cpp, staging).    *)
(***************************************************************************)
WholeOnBus == \A i \in 1..Len(wire) : TransferOf(wire[i]) > 0

\* BusTransfer is what the I2C client gets; a read must return its own bytes.
Transfer == INSTANCE BusTransfer WITH
  result <- IF result = "written" \/ (result = "fetched" /\ got = [i \in 1..Chunks |-> <<op, i>>])
            THEN "ok" ELSE result,
  bus <- [i \in 1..Len(wire) |-> TransferOf(wire[i])]

ImplementsTransfer == Transfer!Spec

(***************************************************************************)
(* After a fault the protocol gets back in step with the next transfer, or *)
(* with the one after it: no more than one transfer that began with the    *)
(* devices in order is lost to what earlier ones have left in the parsers, *)
(* buffers and queues. (Four headers that arrived without their payload    *)
(* would outlast a second one: see FewStrays in BridgeService_proofs.)     *)
(***************************************************************************)
AtMostOneLost == lost <= 1

\* Every call of the service returns.
Returns == call # "none" ~> call = "none"
-----------------------------------------------------------------------------
(* The inductive invariant behind WholeOnBus and ImplementsTransfer.       *)

\* The firmware has dealt with every request by the time the user connects
\* (again); what it answered may still wait in the endpoint's buffer.
QuietConnect == [][Connect => output = <<>>]_vars

\* A frame counts as under way until its last piece is gone.
Ends(s) == {i \in 1..Len(s) : s[i].part = Width}
NothingUnderWay == Ends(input) = {} /\ reply = NoReply /\ Ends(output) = {}

\* Headers that wait without their payload: each has cost a fault.
Strays(s) ==
  {i \in 1..Len(s) : /\ ~Hid /\ s[i].part = 1
                     /\ i < Len(s) => s[i + 1] # [part |-> 2, msg |-> s[i].msg]}
Stray == Cardinality(Strays(input))

\* How many requests were sent after m.
Age(m) == (seq + SeqMod - 1 - m.seq) % SeqMod

Upto(o, n) == [i \in 1..n |-> <<o, i>>]
Below(o) == \A i \in 1..Len(wire) : TransferOf(wire[i]) < o
Executed == wire # <<>> /\ TransferOf(wire[Len(wire)]) = op

Later == {"append", "write", "read", "fetch"}
ExecuteStep == IF call = "write" THEN Chunks + 2 ELSE 2
BeforeExecute ==
  call \in Transfers /\ (step < ExecuteStep \/ (step = ExecuteStep /\ phase = "send"))

\* What the staging buffers hold when request n of the transfer may be sent.
Prepared(n) ==
  /\ call = "write" /\ n \in 2..(Chunks + 2) =>
       Len(stageTx) <= n - 2 /\ (ready => stageTx = Upto(op, n - 2))
  /\ call = "write" /\ n = Chunks + 3 => Executed
  /\ call = "read" /\ n = 2 => stageTx = <<>>
  /\ call = "read" /\ n >= 3 => Executed /\ stageRx \in {<<>>, Upto(op, Chunks)}

\* What they hold when the firmware comes to m.
StageFits(m) ==
  /\ m.cmd = "append" => /\ m.n \in 1..Chunks /\ Len(stageTx) <= m.n - 1
                         /\ ready => stageTx = Upto(m.op, m.n - 1)
  /\ m.cmd = "write" => (ready => stageTx = Upto(m.op, Chunks))
  /\ m.cmd = "read" => stageTx = <<>>
  /\ m.cmd = "fetch" => stageRx \in {<<>>, Upto(m.op, Chunks)}

Cmds == {"info", "deinit", "reset", "init", "clear"} \cup Later
ReqMsg == [cmd : Cmds, seq : 0..(SeqMod - 1), op : Nat, n : Nat]
RespMsg == [cmd : Cmds, seq : 0..(SeqMod - 1), ok : BOOLEAN, total : Nat, data : Seq(Nat \X Nat)]

Shape ==
  /\ output \in Seq([part : Parts, msg : ReqMsg])
  /\ input \in Seq([part : Parts, msg : RespMsg])
  /\ held \in {NoPiece} \cup [part : {1}, msg : ReqMsg] /\ (Hid => held = NoPiece)
  /\ reply \in {NoReply} \cup RespMsg /\ (~Hid => reply = NoReply)
  /\ {got, stageTx, stageRx} \subseteq Seq(Nat \X Nat) /\ wire \in Seq(Seq(Nat \X Nat))
  /\ \A i \in 1..Len(input) : input[i].msg.cmd # "fetch" => input[i].msg.data = <<>>
  /\ reply # NoReply /\ reply.cmd # "fetch" => reply.data = <<>>
  /\ faults \in 0..MaxFaults /\ connects \in 0..MaxConnects /\ lost \in Nat

\* The bus: whole packets, each transfer at most once, in order.
BusInv ==
  /\ \A i \in 1..Len(wire) : TransferOf(wire[i]) \in 1..op
  /\ \A i, j \in 1..Len(wire) : i < j => TransferOf(wire[i]) < TransferOf(wire[j])

\* What the client knows of the transfer it is in.
CallInv ==
  /\ call = "none" => phase = "send"
  /\ call \in Transfers <=> result = "pending"
  /\ call \in Transfers => op > 0
  /\ call \notin Transfers \cup {"none"} => step = 1
  /\ BeforeExecute => Below(op)
  /\ call = "write" => got = <<>>
  /\ call = "read" => got = Upto(op, IF step > 3 THEN step - 3 ELSE 0)
  /\ call = "read" /\ step >= 3 => Executed
  /\ call \in Transfers /\ step >= 2 /\ phase = "send" => NothingUnderWay /\ Prepared(step)
  /\ Hid /\ phase = "read" /\ handle = "open" => input = <<>>

\* What the firmware will find.
RequestInv ==
  \A i \in Ends(output) : LET m == output[i].msg IN
    /\ m.cmd \in Later => (\A j \in Ends(output) : i <= j) /\ StageFits(m)
    /\ m.cmd \in Transfers => m.op \in 1..op /\ Below(m.op) /\ (BeforeExecute => m.op < op)

\* The answers under way, but for k that were there when the user connected.
Ours(k) == {i \in Ends(input) : i > k}
OurReply(k) == reply # NoReply /\ k <= Len(input)

\* Nothing is under way behind the frame of the latest request.
LatestIsLast(k) ==
  /\ \A i, j \in Ours(k) : i < j => Age(input[i].msg) # 0
  /\ \A i \in Ours(k) : reply # NoReply \/ Ends(output) # {} => Age(input[i].msg) # 0
  /\ OurReply(k) /\ Ends(output) # {} => Age(reply) # 0
  /\ \A i, j \in Ends(output) : i < j => Age(output[i].msg) # 0

\* Whoever sends a request while another is under way has met a fault.
Young(k) ==
  LET left == faults + 1 - k - Stray
      i1 == IF phase = "send" THEN 1 ELSE 0
      o1 == IF phase \in {"send", "last"} THEN 1 ELSE 0
  IN /\ Stray <= faults
     /\ \A i \in Ours(k) : Age(input[i].msg) + i1 <= left
     /\ OurReply(k) => Age(reply) + o1 <= left
     /\ \A i \in Ends(output) : Age(output[i].msg) + o1 <= left

\* An answer the client would take is the answer to what it asked.
Right(r) ==
  Fits(r) /\ ~Refused(r) /\ call \in Transfers =>
    Prepared(step + 1) /\ (r.cmd = "fetch" => r.data = <<<<op, Len(got) + 1>>>>)

AnswerInv(k) ==
  phase # "send" =>
    /\ \A i \in Ends(output) :
         Age(output[i].msg) = 0 => output[i].msg = [Request EXCEPT !.seq = output[i].msg.seq]
    /\ \A i \in Ours(k) : Right(input[i].msg)
    /\ OurReply(k) => Right(reply)

\* One answer may be left from before the user connected: until the adapter is
\* enabled nobody relies on what it says.
PipeInv(k) ==
  /\ k = 1 => Hid /\ ~enabled /\ (call \in Transfers => step = 0) /\ (input # <<>> \/ reply # NoReply)
  /\ LatestIsLast(k) /\ Young(k) /\ AnswerInv(k)

Pipe == handle = "open" => \E k \in {0, 1} : PipeInv(k)

IInv == TypeOK /\ Shape /\ BusInv /\ CallInv /\ RequestInv /\ Pipe

(***************************************************************************)
(* While the user has connected only once, whatever was lost, repeated or  *)
(* late, no answer under way can be taken for another than the one the     *)
(* client waits for, and what the firmware has staged is what the service  *)
(* relies on (the sequence numbers of hid_bridge_client.cpp and            *)
(* vcom_bridge_client.cpp, the staging of bridge_service.cpp).             *)
(***************************************************************************)
InStep == connects <= 1 => IInv
=============================================================================
