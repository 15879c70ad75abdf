---------------------------- MODULE FwUploadTab ----------------------------
(***************************************************************************)
(* The FW Upload (I2C) tab and the main frame around it.  The tool has one *)
(* thread: an operation runs in the handler of its button and, where the   *)
(* ISP client polls, lets PumpUiMessages dispatch what the user did in the *)
(* meantime.  A handler that runs there may start another operation, so    *)
(* operations nest, and all of them share busy_, cancel_requested_, the    *)
(* bridge and the image of the main frame.                                 *)
(*                                                                         *)
(* An operation is a list of ISP packets.  What they do and how a rejected *)
(* block is repeated is in NuvoIspI2c; here the target takes a packet or   *)
(* not, answers it in time or not, and keeps the blocks.                   *)
(***************************************************************************)
EXTENDS Integers, Sequences, SequencesExt

CONSTANTS
  Images,       \* the binaries the user can load, sequences of blocks
  Beyond,       \* what is read behind the end of an image
  ConnectTries, \* handshakes that fit into long_response_timeout_ms
  MaxPolls,     \* polls that fit into the time-out of one response
  MaxClicks     \* bound on what the user does

ASSUME TabAssumption ==
  /\ \A i \in Images : i # <<>> /\ i \in Seq({i[k] : k \in DOMAIN i})
  /\ ConnectTries \in Nat \ {0} /\ MaxPolls \in Nat /\ MaxClicks \in Nat

VARIABLES
  service,     \* IsConnected of the service
  connected, hostEnabled, busy, cancel, ready, \* members of the tab
  image,       \* firmware_image_data_ of the main frame, <<>> when none is loaded
  stack,       \* the operations under way, the running one last
  pumping,     \* is the running operation in PumpUiMessages?
  flash,       \* the blocks in the APROM of the target
  heard,       \* has the target answered the last packet?
  report,      \* how the last operation ended
  clicks

bridge == <<service, connected, hostEnabled>>
vars == <<bridge, busy, cancel, ready, image, stack, pumping, flash, heard, report, clicks>>

\* OnGetDeviceId does what OnConnectTarget does, OnResetTarget what OnRunAprom does.
Operations == {"connect", "program", "run"}
NoImage == <<>>

Init ==
  /\ service = FALSE /\ connected = FALSE /\ hostEnabled = FALSE
  /\ busy = FALSE /\ cancel = FALSE /\ ready = FALSE
  /\ image \in Images \cup {NoImage}
  /\ stack = <<>> /\ pumping = FALSE
  /\ flash = <<>> /\ heard = FALSE
  /\ report = [op |-> "none", result |-> "none", overruled |-> FALSE, whole |-> TRUE]
  /\ clicks = 0

-----------------------------------------------------------------------------
(* The running operation. *)

Top == Last(stack)
Running == stack # <<>> /\ ~pumping
WithTop(f) == Append(Front(stack), f)

\* ConnectTarget is CONNECT and SYNC, and ProgramAprom synchronises again.
Packets(f) ==
  <<"connect", "sync">> \o
    CASE f.op = "connect" -> <<"fwver", "id">>
      [] f.op = "program" -> <<"sync">> \o [i \in 1..f.total |-> "block"]
      [] f.op = "run" -> <<"run">>

Handshake == 2
FirstBlock == 4
Sent == Top.step > Len(Packets(Top))
Packet == Packets(Top)[Top.step]

\* Mutant of Payload: the offset is not added.
PayloadUnmoved == IF image = NoImage THEN Beyond ELSE image[1]

\* The block of the image as it is in memory now.
Payload == LET i == Top.step - FirstBlock + 1
           IN IF i <= Len(image) THEN image[i] ELSE Beyond

\* Mutant of End: no guard resets busy_.
EndBusy(result, isReady) ==
  /\ stack' = Front(stack) /\ pumping' = (Len(stack) > 1)
  /\ busy' = busy /\ ready' = isReady
  /\ report' = [op |-> Top.op, result |-> result, overruled |-> Top.overruled,
                whole |-> flash = Top.image \/ Top.swapped \/ Top.overruled]
  /\ UNCHANGED <<bridge, cancel, image, clicks>>

\* The destructor of BusyGuard, and what the handler shows.
End(result, isReady) ==
  /\ stack' = Front(stack) /\ pumping' = (Len(stack) > 1)
  /\ busy' = FALSE /\ ready' = isReady
  /\ report' = [op |-> Top.op, result |-> result, overruled |-> Top.overruled,
                whole |-> flash = Top.image \/ Top.swapped \/ Top.overruled]
  /\ UNCHANGED <<bridge, cancel, image, clicks>>

Keep == UNCHANGED <<bridge, busy, cancel, image, report, clicks>>

\* ThrowIfCancelled, the test behind ConnectTarget, and the one in the catch.
Stopped ==
  /\ Running /\ cancel
  /\ End("stopped", FALSE) /\ UNCHANGED <<flash, heard>>

Continues == Running /\ ~cancel /\ Top.tries < ConnectTries

\* I2cMasterWriteAllowFinalNack: the packet goes out, and the target may take it.
Send ==
  /\ Continues /\ ~Top.sent /\ ~Sent /\ Packet # "run"
  /\ service /\ hostEnabled
  /\ Top.op = "program" /\ Top.step > Handshake => Top.total > 0
  /\ \E took \in BOOLEAN :
       /\ stack' = WithTop([Top EXCEPT !.sent = TRUE, !.took = took, !.polls = 0])
       /\ flash' = IF ~took \/ Packet # "block" THEN flash
                   ELSE IF Top.step = FirstBlock THEN <<Payload>> ELSE Append(flash, Payload)
  /\ heard' = FALSE
  /\ UNCHANGED <<ready, pumping>> /\ Keep

\* RunAprom, ResetTarget: nobody answers.
SendNoResponse ==
  /\ Continues /\ ~Sent /\ Packet = "run"
  /\ service /\ hostEnabled
  /\ heard' = FALSE
  /\ End("sent", FALSE) /\ UNCHANGED flash

\* ReadResponse returns the answer.  Behind CONNECT and SYNC the handler of
\* Program says "Target Ready" and ProgramAprom takes the size of the image;
\* a block that was accepted is followed by a poll.
Answer ==
  /\ Continues /\ Top.sent /\ Top.took
  /\ LET begins == Top.op = "program" /\ Top.step = Handshake
     IN /\ stack' = WithTop([Top EXCEPT !.step = @ + 1, !.sent = FALSE,
                                       !.total = IF begins THEN Len(image) ELSE @])
        /\ ready' = IF begins THEN TRUE ELSE ready
  /\ pumping' = (Packet = "block") /\ heard' = TRUE
  /\ UNCHANGED flash /\ Keep

\* The wait for an answer polls, but for GetFirmwareVersion and GetDeviceId.
Poll ==
  /\ Continues /\ Top.sent /\ Packet \notin {"fwver", "id"} /\ Top.polls < MaxPolls
  /\ stack' = WithTop([Top EXCEPT !.polls = @ + 1]) /\ pumping' = TRUE
  /\ UNCHANGED <<ready, flash, heard>> /\ Keep

\* PumpUiMessages finds the queue empty.
PumpEnds ==
  /\ stack # <<>> /\ pumping
  /\ pumping' = FALSE
  /\ UNCHANGED <<ready, stack, flash, heard>> /\ Keep

\* Mutant of HandshakeFails: the time ConnectTarget has is not over in the end.
HandshakeFailsForever ==
  /\ Continues /\ ~Sent /\ Top.step <= Handshake
  /\ stack' = WithTop([Top EXCEPT !.step = 1, !.sent = FALSE]) /\ pumping' = TRUE
  /\ UNCHANGED <<ready, flash, heard>> /\ Keep

\* CONNECT or SYNC cannot be sent or is not answered in time: ConnectTarget
\* polls and starts again.
HandshakeFails ==
  /\ Continues /\ ~Sent /\ Top.step <= Handshake
  /\ stack' = WithTop([Top EXCEPT !.step = 1, !.sent = FALSE, !.tries = @ + 1])
  /\ pumping' = TRUE
  /\ UNCHANGED <<ready, flash, heard>> /\ Keep

\* ConnectTarget gives up, or a later packet is not sent, answered or accepted,
\* or the image that is in memory now is empty.
Fails ==
  /\ Running /\ ~cancel
  /\ Top.tries = ConnectTries \/ (Top.step > Handshake /\ ~Sent)
  /\ End("failed", FALSE) /\ UNCHANGED <<flash, heard>>

\* Mutant of Completes: the handler does not look at cancel_requested_.
CompletesUnasked ==
  /\ Running /\ Sent
  /\ End("complete", TRUE) /\ UNCHANGED <<flash, heard>>

Completes ==
  /\ Continues /\ Sent
  /\ End("complete", TRUE) /\ UNCHANGED <<flash, heard>>

Operation ==
  \/ Stopped \/ Send \/ SendNoResponse \/ Answer \/ Poll \/ PumpEnds
  \/ HandshakeFails \/ Fails \/ Completes

-----------------------------------------------------------------------------
(* The user, whenever messages are dispatched. *)

Click ==
  /\ stack = <<>> \/ pumping
  /\ clicks < MaxClicks /\ clicks' = clicks + 1

\* Every operation under way, changed by g.
Each(g(_)) == [i \in DOMAIN stack |-> g(stack[i])]
AsStopped(f) == [f EXCEPT !.stopped = TRUE, !.overruled = FALSE]
AsOverruled(f) == [f EXCEPT !.overruled = TRUE]
AsSwapped(f) == [f EXCEPT !.swapped = TRUE]

\* The enabled buttons of UpdateEnableState.
CanStart(o) == connected /\ ~busy /\ (o = "program" => image # NoImage)

NewOperation(o) ==
  [op |-> o, step |-> 1, sent |-> FALSE, took |-> FALSE, polls |-> 0, tries |-> 0, total |-> 0,
   image |-> IF o = "program" THEN image ELSE NoImage,
   stopped |-> FALSE, overruled |-> FALSE, swapped |-> FALSE]

\* OnConnectTarget, OnProgram, OnRunAprom and their like, up to the handshake.
Start(o) ==
  /\ Click /\ CanStart(o)
  /\ hostEnabled' = TRUE
  /\ cancel' = FALSE /\ busy' = TRUE /\ ready' = FALSE
  /\ stack' = Append(Each(AsOverruled), NewOperation(o)) /\ pumping' = FALSE
  /\ UNCHANGED <<service, connected, image, flash, heard, report>>

\* EnsureHostEnabled throws; the catch takes an old cancel_requested_ for a stop.
StartFails(o) ==
  /\ Click /\ CanStart(o) /\ ~hostEnabled
  /\ ready' = FALSE
  /\ report' = [op |-> o, result |-> IF cancel THEN "stopped" ELSE "failed",
                overruled |-> FALSE, whole |-> TRUE]
  /\ UNCHANGED <<bridge, busy, cancel, image, stack, pumping, flash, heard>>

Stop ==
  /\ Click /\ busy
  /\ cancel' = TRUE /\ ready' = FALSE
  /\ stack' = Each(AsStopped)
  /\ UNCHANGED <<bridge, busy, image, pumping, flash, heard, report>>

\* Mutant of OnDisconnected: the operations under way are not told.
OnDisconnectedUntold ==
  /\ service' = FALSE /\ connected' = FALSE /\ hostEnabled' = FALSE
  /\ busy' = FALSE /\ UNCHANGED cancel /\ ready' = FALSE
  /\ stack' = Each(AsStopped)

\* With the Disconnect of the service that goes before it.
OnDisconnected ==
  /\ service' = FALSE /\ connected' = FALSE /\ hostEnabled' = FALSE
  /\ busy' = FALSE /\ cancel' = TRUE /\ ready' = FALSE
  /\ stack' = Each(AsStopped)

\* Disconnect, or Reset MCU with the command sent.
Disconnect ==
  /\ Click /\ service
  /\ OnDisconnected
  /\ UNCHANGED <<image, pumping, flash, heard, report>>

\* Mutant of Connect: a new connection forgets the old stop.
ConnectForgets ==
  /\ Click /\ ~service
  /\ service' = TRUE /\ connected' = TRUE /\ cancel' = FALSE
  /\ UNCHANGED <<hostEnabled, busy, ready, stack, image, pumping, flash, heard, report>>

Connect ==
  /\ Click /\ ~service
  /\ \/ /\ service' = TRUE /\ connected' = TRUE
        /\ UNCHANGED <<hostEnabled, busy, cancel, ready, stack>>
     \/ OnDisconnected
  /\ UNCHANGED <<image, pumping, flash, heard, report>>

EnableHost ==
  /\ Click /\ connected /\ ~hostEnabled /\ ~busy
  /\ hostEnabled' = TRUE
  /\ UNCHANGED <<service, connected, busy, cancel, ready, image, stack, pumping, flash, heard, report>>

DisableHost ==
  /\ Click /\ connected /\ hostEnabled /\ ~busy
  /\ hostEnabled' = FALSE /\ ready' = FALSE
  /\ UNCHANGED <<service, connected, busy, cancel, image, stack, pumping, flash, heard, report>>

\* Load BIN is never disabled; Load INI and Reset INI ask for a closed bridge.
LoadImage ==
  /\ Click
  /\ image' \in Images \cup (IF service THEN {} ELSE {NoImage})
  /\ stack' = Each(AsSwapped)
  /\ UNCHANGED <<bridge, busy, cancel, ready, pumping, flash, heard, report>>

User ==
  \/ \E o \in Operations : Start(o) \/ StartFails(o)
  \/ Stop \/ Disconnect \/ Connect \/ EnableHost \/ DisableHost \/ LoadImage

Next == Operation \/ User

Spec == Init /\ [][Next]_vars

\* The thread runs; the user may stop clicking.
FairSpec == Spec /\ WF_vars(Operation)

-----------------------------------------------------------------------------
(* Properties *)

Blocks == {Beyond} \cup UNION {{i[k] : k \in DOMAIN i} : i \in Images}
Frames == [op : Operations, step : Nat \ {0}, sent : BOOLEAN, took : BOOLEAN,
           polls : 0..MaxPolls, tries : 0..ConnectTries,
           total : {0} \cup {Len(i) : i \in Images}, image : Images \cup {NoImage},
           stopped : BOOLEAN, overruled : BOOLEAN, swapped : BOOLEAN]

\* A packet under way is one of the operation's.
InRange(f) == f.step <= Len(Packets(f)) + IF f.sent THEN 0 ELSE 1

(***************************************************************************)
(* The members of the tab agree: connected_ with the service, an enabled   *)
(* host with a connection, busy_ with an operation under way.              *)
(***************************************************************************)
TypeOK ==
  /\ {service, connected, hostEnabled, busy, cancel, ready, pumping, heard} \subseteq BOOLEAN
  /\ connected = service /\ (hostEnabled => connected)
  /\ image \in Images \cup {NoImage}
  /\ stack \in Seq(Frames) /\ (\A i \in DOMAIN stack : InRange(stack[i]))
  /\ busy \/ pumping => stack # <<>>
  /\ flash \in Seq(Blocks)
  /\ report \in [op : Operations \cup {"none"}, overruled : BOOLEAN, whole : BOOLEAN,
                 result : {"none", "stopped", "sent", "failed", "complete"}]
  /\ clicks \in 0..MaxClicks

(***************************************************************************)
(* An operation that Stop or a disconnect has ended sends nothing more,    *)
(* also on a bridge that was connected again before it noticed, unless     *)
(* another operation was started meanwhile and overruled the stop.         *)
(***************************************************************************)
StoppedIsSilent == [][(Send \/ SendNoResponse) => (Top.stopped => Top.overruled)]_vars

(***************************************************************************)
(* While an operation is under way it has been told to end, or Stop is     *)
(* enabled, or one that was started in its pump has taken busy_ with it.   *)
(***************************************************************************)
StopReachable ==
  \A i \in DOMAIN stack : busy \/ cancel \/ stack[i].overruled

(***************************************************************************)
(* "Target Ready" is shown only with a connected bridge; once no operation *)
(* runs, also only with an enabled host and a target that has answered.    *)
(***************************************************************************)
ReadyEarned == ready =>
  /\ service
  /\ stack = <<>> => (hostEnabled /\ heard) \/ report.overruled

(***************************************************************************)
(* "Program APROM complete": the target holds the image that was loaded    *)
(* when Program was pressed, unless Load BIN replaced it meanwhile or an   *)
(* operation ran in the pump.                                              *)
(***************************************************************************)
CompleteIsImage == report.op = "program" /\ report.result = "complete" => report.whole

\* Every operation ends, however they nest, once the user leaves them alone.
OperationsEnd == stack # <<>> ~> stack = <<>>

-----------------------------------------------------------------------------
(* The inductive invariant behind StopReachable, ReadyEarned, CompleteIsImage. *)

\* Who was told to end will notice, or has been overruled.
Told == \A i \in DOMAIN stack : stack[i].stopped => cancel \/ stack[i].overruled

\* An operation under another one was told to end before, or is overruled by it.
Nested == \A i \in 1..(Len(stack) - 1) : stack[i].stopped \/ stack[i].overruled

Untouched(f) == ~f.stopped /\ ~f.overruled /\ ~f.swapped

\* What Program has done: the blocks up to the one under way are in the flash.
Programmed(f) ==
  LET done == f.step - FirstBlock + IF f.sent /\ f.took THEN 1 ELSE 0
  IN /\ image = f.image /\ image # NoImage
     /\ f.total = IF f.step > Handshake THEN Len(image) ELSE 0
     /\ done > 0 => flash = SubSeq(image, 1, done)

Leading(f) ==
  /\ busy \/ cancel \/ f.overruled
  /\ cancel \/ service
  /\ f.step = 1 \/ f.sent \/ heard \/ f.stopped \/ f.overruled
  /\ f.op = "program" /\ Untouched(f) => Programmed(f)

IInv ==
  /\ TypeOK /\ (busy => hostEnabled) /\ Told /\ Nested
  /\ stack # <<>> => Leading(Top)
  /\ ReadyEarned /\ CompleteIsImage
=============================================================================
