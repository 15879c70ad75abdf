---------------------------- MODULE XmodemSender ----------------------------
(***************************************************************************)
(* The XMODEM sender of core/xmodem_sender.cpp, driven by the XMODEM tab,  *)
(* and a receiver as the XMODEM protocol has it (the bootloader of the     *)
(* target, which is not part of this repository).                          *)
(*                                                                         *)
(* The two lines of the UART are sequences: what was written and not yet   *)
(* read.  The sender reads one byte per block it has sent, whatever that   *)
(* byte answers.  Two CONSTANTs say whether it can be an old one: an       *)
(* answer that comes after the time-out (LateAnswers), or a prompt that    *)
(* was waiting before the block was sent (QueuedPrompts).                  *)
(***************************************************************************)
EXTENDS Integers, Sequences, FiniteSets

CONSTANTS
  Blocks,       \* blocks of 128 bytes the image fills
  NumberSpace,  \* packet_no is an uint8_t: 256
  MaxRetries,   \* max_retries
  LateAnswers,  \* may an answer come after response_timeout_ms?
  QueuedPrompts, \* may the receiver prompt again before its prompt is read?
  MaxNoise,     \* bound on lost and damaged transmissions
  MaxPrompts    \* bound on what the receiver sends unasked

ASSUME XmodemAssumption ==
  /\ Blocks \in Nat \ {0} /\ NumberSpace \in Nat /\ NumberSpace > 2
  /\ MaxRetries \in Nat \ {0} /\ LateAnswers \in BOOLEAN /\ QueuedPrompts \in BOOLEAN
  /\ MaxNoise \in Nat /\ MaxPrompts \in Nat

VARIABLES
  pc,            \* where Send is; "idle" outside it
  last, count,   \* last_sync, sync_count
  no,            \* packet_no
  next,          \* the block at offset
  retry,         \* retry of the block, or of EOT
  outcome,       \* of the transfer: "none", "busy", "complete", "failed", "stopped"
  toTarget, toHost,        \* the lines
  phase, expected, stored, \* the receiver
  noise, prompts           \* what is used of the bounds

sender == <<pc, last, count, no, next, retry, outcome>>
receiver == <<phase, expected, stored>>
vars == <<sender, receiver, toTarget, toHost, noise, prompts>>

Block(i, n) == [what |-> "SOH", block |-> i, no |-> n]
Control(c) == [what |-> c, block |-> 0, no |-> 0]
Garbage == Control("garbage")
Bytes == {"C", "ACK", "NAK", "CAN", "garbage"}
Silence == "none"  \* last_sync is -1

kRequiredSyncCount == 2

Init ==
  /\ pc = "idle" /\ last = Silence /\ count = 0 /\ no = 1 /\ next = 1 /\ retry = 0
  /\ outcome = "none"
  /\ toTarget = <<>> /\ toHost = <<>>
  /\ phase = "ready" /\ expected = 1 /\ stored = <<>>
  /\ noise = 0 /\ prompts = 0

-----------------------------------------------------------------------------
(* The lines. *)

\* What is written arrives, or is lost, or a block arrives damaged.
Put(item) ==
  \/ toTarget' = Append(toTarget, item) /\ UNCHANGED noise
  \/ /\ noise < MaxNoise /\ noise' = noise + 1
     /\ \/ UNCHANGED toTarget
        \/ item.what = "SOH" /\ toTarget' = Append(toTarget, Garbage)

Reply(byte) ==
  \/ toHost' = Append(toHost, byte) /\ UNCHANGED noise
  \/ /\ noise < MaxNoise /\ noise' = noise + 1
     /\ \/ UNCHANGED toHost
        \/ toHost' = Append(toHost, "garbage")

-----------------------------------------------------------------------------
(* The sender. *)

\* ReadByte returns b.
ReadByte(b) ==
  /\ toHost # <<>> /\ b = Head(toHost)
  /\ toHost' = Tail(toHost)

\* ReadByte returns -1.
NoByte ==
  /\ toHost = <<>> /\ (LateAnswers \/ toTarget = <<>>)
  /\ UNCHANGED toHost

Finish(result) ==
  /\ pc' = "idle" /\ outcome' = result
  /\ UNCHANGED <<last, count, no, next, retry>>

\* Send: purges both directions and waits for the receiver.
Send ==
  /\ pc = "idle" /\ outcome = "none"
  /\ pc' = "sync" /\ outcome' = "busy"
  /\ toTarget' = <<>> /\ toHost' = <<>>
  /\ UNCHANGED <<last, count, no, next, retry, receiver, noise, prompts>>

\* WaitForReceiver: kRequiredSyncCount equal prompts in a row.
SyncByte(b) ==
  /\ pc = "sync" /\ ReadByte(b) /\ b \in {"C", "NAK"}
  /\ last' = b /\ count' = IF b = last THEN count + 1 ELSE 1
  /\ pc' = IF count' >= kRequiredSyncCount THEN "send" ELSE "sync"
  /\ UNCHANGED <<no, next, retry, outcome, toTarget, receiver, noise, prompts>>

SyncOther(b) ==
  /\ pc = "sync" /\ ReadByte(b) /\ b \notin {"C", "NAK"}
  /\ last' = Silence /\ count' = 0
  /\ pc' = IF b = "CAN" THEN "synccan" ELSE "sync"
  /\ UNCHANGED <<no, next, retry, outcome, toTarget, receiver, noise, prompts>>

\* What follows one CAN: another one ends the transfer, anything else is eaten.
SyncCanOther(b) ==
  /\ pc = "synccan" /\ ((ReadByte(b) /\ b # "CAN") \/ NoByte)
  /\ pc' = "sync"
  /\ UNCHANGED <<last, count, no, next, retry, outcome, toTarget, receiver, noise, prompts>>

HandshakeTimeout ==
  /\ pc = "sync" /\ Finish("failed")
  /\ UNCHANGED <<toTarget, toHost, receiver, noise, prompts>>

\* The target cancels: CAN CAN, answered with ACK.
TargetCancels ==
  /\ pc \in {"synccan", "answercan"} /\ ReadByte("CAN")
  /\ Put(Control("ACK"))
  /\ Finish("failed")
  /\ UNCHANGED <<receiver, prompts>>

\* WriteAll of the block.
Transmit ==
  /\ pc = "send"
  /\ Put(Block(next, no))
  /\ pc' = "answer"
  /\ UNCHANGED <<last, count, no, next, retry, outcome, toHost, receiver, prompts>>

\* Mutants of Acked: any byte but a NAK or CAN counts; the number does not wrap;
\* the last block is not sent.
AckedAny ==
  /\ pc = "answer" /\ \E b \in {"ACK", "garbage"} : ReadByte(b)
  /\ no' = (no + 1) % NumberSpace /\ retry' = 0
  /\ IF next < Blocks THEN pc' = "send" /\ next' = next + 1 ELSE pc' = "eot" /\ UNCHANGED next
  /\ UNCHANGED <<last, count, outcome, toTarget, receiver, noise, prompts>>
AckedUnwrapped ==
  /\ pc = "answer" /\ ReadByte("ACK")
  /\ no' = no + 1 /\ retry' = 0
  /\ IF next < Blocks THEN pc' = "send" /\ next' = next + 1 ELSE pc' = "eot" /\ UNCHANGED next
  /\ UNCHANGED <<last, count, outcome, toTarget, receiver, noise, prompts>>
AckedShort ==
  /\ pc = "answer" /\ ReadByte("ACK")
  /\ no' = (no + 1) % NumberSpace /\ retry' = 0
  /\ IF next + 1 < Blocks THEN pc' = "send" /\ next' = next + 1 ELSE pc' = "eot" /\ UNCHANGED next
  /\ UNCHANGED <<last, count, outcome, toTarget, receiver, noise, prompts>>

Acked ==
  /\ pc = "answer" /\ ReadByte("ACK")
  /\ no' = (no + 1) % NumberSpace /\ retry' = 0
  /\ IF next < Blocks THEN pc' = "send" /\ next' = next + 1 ELSE pc' = "eot" /\ UNCHANGED next
  /\ UNCHANGED <<last, count, outcome, toTarget, receiver, noise, prompts>>

CanRead ==
  /\ pc = "answer" /\ ReadByte("CAN")
  /\ pc' = "answercan"
  /\ UNCHANGED <<last, count, no, next, retry, outcome, toTarget, receiver, noise, prompts>>

\* Anything but an ACK, or nothing in time: the block was not accepted.
NotAcked ==
  \/ pc = "answer" /\ (NoByte \/ \E b \in Bytes \ {"ACK", "CAN"} : ReadByte(b))
  \/ pc = "answercan" /\ (NoByte \/ \E b \in Bytes \ {"CAN"} : ReadByte(b))

\* Mutants of Resend: the retry is not counted; it takes a new number.
ResendForever ==
  /\ NotAcked
  /\ pc' = "send"
  /\ UNCHANGED <<last, count, no, next, retry, outcome, toTarget, receiver, noise, prompts>>
ResendRenumbered ==
  /\ NotAcked /\ retry + 1 < MaxRetries
  /\ pc' = "send" /\ retry' = retry + 1 /\ no' = (no + 1) % NumberSpace
  /\ UNCHANGED <<last, count, next, outcome, toTarget, receiver, noise, prompts>>

Resend ==
  /\ NotAcked /\ retry + 1 < MaxRetries
  /\ pc' = "send" /\ retry' = retry + 1
  /\ UNCHANGED <<last, count, no, next, outcome, toTarget, receiver, noise, prompts>>

\* After max_retries the transfer is cancelled.
GiveUp ==
  /\ NotAcked /\ retry + 1 >= MaxRetries
  /\ Put(Control("CAN"))
  /\ Finish("failed")
  /\ UNCHANGED <<receiver, prompts>>

SendEot ==
  /\ pc = "eot"
  /\ Put(Control("EOT"))
  /\ pc' = "eotanswer"
  /\ UNCHANGED <<last, count, no, next, retry, outcome, toHost, receiver, prompts>>

EotAcked ==
  /\ pc = "eotanswer" /\ ReadByte("ACK")
  /\ Finish("complete")
  /\ UNCHANGED <<toTarget, receiver, noise, prompts>>

EotNotAcked == pc = "eotanswer" /\ (NoByte \/ \E b \in Bytes \ {"ACK"} : ReadByte(b))

EotAgain ==
  /\ EotNotAcked /\ retry + 1 < MaxRetries
  /\ pc' = "eot" /\ retry' = retry + 1
  /\ UNCHANGED <<last, count, no, next, outcome, toTarget, receiver, noise, prompts>>

EotGiveUp ==
  /\ EotNotAcked /\ retry + 1 >= MaxRetries
  /\ Finish("failed")
  /\ UNCHANGED <<toTarget, receiver, noise, prompts>>

\* Where Send lets the UI run: while it reads, and after a block was accepted.
Reading == {"sync", "synccan", "answer", "answercan", "eotanswer"}
Polls == pc \in Reading \/ (pc \in {"send", "eot"} /\ retry = 0 /\ (next > 1 \/ pc = "eot"))

\* The Cancel button, from the message pump: CancelTransfer writes CAN three
\* times, the next ThrowIfCancelled ends Send.
Cancel ==
  /\ Polls
  /\ Put(Control("CAN"))
  /\ Finish("stopped")
  /\ UNCHANGED <<toHost, receiver, prompts>>

\* A read or write of the port fails (the adapter is unplugged).
PortFails ==
  /\ pc # "idle" /\ Finish("failed")
  /\ UNCHANGED <<toTarget, toHost, receiver, noise, prompts>>

Sender ==
  \/ \E b \in Bytes : SyncByte(b) \/ SyncOther(b) \/ SyncCanOther(b)
  \/ HandshakeTimeout \/ TargetCancels
  \/ Transmit \/ Acked \/ CanRead \/ Resend \/ GiveUp
  \/ SendEot \/ EotAcked \/ EotAgain \/ EotGiveUp

-----------------------------------------------------------------------------
(* The receiver. *)

\* It speaks when nothing reaches it.
Quiet == toTarget = <<>> /\ (QueuedPrompts \/ (toHost = <<>> /\ pc \in Reading))
Unasked ==
  /\ prompts < MaxPrompts /\ prompts' = prompts + 1
  /\ UNCHANGED <<sender, toTarget>>

\* It prompts until the first block (C for a CRC, NAK for a checksum), and asks
\* again for a block that stays out.
Prompt ==
  /\ Unasked /\ UNCHANGED receiver
  /\ \/ phase = "ready" /\ (QueuedPrompts \/ Quiet) /\ \E c \in {"C", "NAK"} : Reply(c)
     \/ phase = "data" /\ Quiet /\ Reply("NAK")

Listening == phase \in {"ready", "data"}

\* It gives up: CAN CAN, of which the second may be lost.
ReceiverCancels ==
  /\ Unasked /\ Listening /\ Quiet
  /\ phase' = "aborted" /\ UNCHANGED <<expected, stored>>
  /\ \/ toHost' = toHost \o <<"CAN", "CAN">> /\ UNCHANGED noise
     \/ noise < MaxNoise /\ noise' = noise + 1 /\ toHost' = Append(toHost, "CAN")

Take(item) ==
  /\ toTarget # <<>> /\ item = Head(toTarget)
  /\ toTarget' = Tail(toTarget)
  /\ UNCHANGED <<sender, prompts>>

StoreBlock(item) ==
  /\ Take(item) /\ Listening
  /\ item.what = "SOH" /\ item.no = expected
  /\ stored' = Append(stored, item.block)
  /\ expected' = (expected + 1) % NumberSpace /\ phase' = "data"
  /\ Reply("ACK")

\* The number before the expected one is a repetition.
Repetition(item) == phase = "data" /\ (item.no + 1) % NumberSpace = expected

RepeatAck(item) ==
  /\ Take(item)
  /\ item.what = "SOH" /\ Repetition(item)
  /\ Reply("ACK")
  /\ UNCHANGED receiver

\* Any other number cannot be put right: the receiver cancels.
OutOfStep(item) ==
  /\ Take(item) /\ Listening
  /\ item.what = "SOH" /\ item.no # expected /\ ~Repetition(item)
  /\ toHost' = toHost \o <<"CAN", "CAN">>
  /\ phase' = "outofstep"
  /\ UNCHANGED <<expected, stored, noise>>

BadBlock(item) ==
  /\ Take(item) /\ Listening
  /\ item.what = "garbage"
  /\ Reply("NAK")
  /\ UNCHANGED receiver

TakeEot(item) ==
  /\ Take(item) /\ Listening
  /\ item.what = "EOT"
  /\ phase' = "closed"
  /\ Reply("ACK")
  /\ UNCHANGED <<expected, stored>>

TakeCancel(item) ==
  /\ Take(item) /\ Listening
  /\ item.what = "CAN"
  /\ phase' = "aborted"
  /\ UNCHANGED <<expected, stored, toHost, noise>>

Ignore(item) ==
  /\ Take(item)
  /\ ~Listening \/ item.what = "ACK"
  /\ UNCHANGED <<receiver, toHost, noise>>

Receive(item) ==
  \/ StoreBlock(item) \/ RepeatAck(item) \/ OutOfStep(item) \/ BadBlock(item)
  \/ TakeEot(item) \/ TakeCancel(item) \/ Ignore(item)

Receiver == toTarget # <<>> /\ Receive(Head(toTarget))

Next == Send \/ Sender \/ Cancel \/ PortFails \/ Prompt \/ ReceiverCancels \/ Receiver

Spec == Init /\ [][Next]_vars

\* Every read has a time-out and every loop a limit; the receiver serves its UART.
FairSpec == Spec /\ WF_vars(Sender) /\ WF_vars(Receiver)

-----------------------------------------------------------------------------
(* Properties *)

Stages == {"idle", "sync", "synccan", "send", "answer", "answercan", "eot", "eotanswer"}
Items == {Block(i, n) : i \in 1..Blocks, n \in 0..(NumberSpace - 1)}
           \cup {Control(c) : c \in {"ACK", "CAN", "EOT", "garbage"}}

\* Numbers stay in their byte, counters below their limits, lines of known bytes.
TypeOK ==
  /\ pc \in Stages /\ last \in {"C", "NAK", Silence} /\ count \in 0..kRequiredSyncCount
  /\ no \in 0..(NumberSpace - 1) /\ next \in 1..Blocks /\ retry \in 0..(MaxRetries - 1)
  /\ outcome \in {"none", "busy", "complete", "failed", "stopped"}
  /\ toTarget \in Seq(Items) /\ toHost \in Seq(Bytes)
  /\ phase \in {"ready", "data", "closed", "aborted", "outofstep"}
  /\ expected \in 0..(NumberSpace - 1) /\ stored \in Seq(1..Blocks)
  /\ noise \in 0..MaxNoise /\ prompts \in 0..MaxPrompts

Upto(n) == [i \in 1..n |-> i]
Image == Upto(Blocks)

(***************************************************************************)
(* "XMODEM transfer complete." (xmodem_tab.cpp): the receiver holds the    *)
(* image, although a block is acknowledged by the next byte that comes.    *)
(***************************************************************************)
Complete == outcome = "complete" => stored = Image

(***************************************************************************)
(* Whatever is lost, damaged, repeated or late, the receiver never stores  *)
(* a block twice or behind a gap.                                          *)
(***************************************************************************)
InOrder == stored = Upto(Len(stored))

Starting == pc \in {"sync", "synccan"} \/ outcome = "none"
Sending == pc \in {"send", "answer", "answercan"}
Ending == pc \in {"eot", "eotanswer"}
Ended == pc = "idle" /\ outcome # "none"

\* The receiver waits for the block being sent, or has it already.
Behind == stored = Upto(next - 1) /\ expected = no
Ahead == stored = Upto(next) /\ expected = (no + 1) % NumberSpace /\ phase # "ready"

OnlyBlock == Block(next, no)
NoBlock == \A i \in 1..Len(toTarget) : toTarget[i].what # "SOH"
FirstBlock == \A i \in 1..Len(toTarget) :
  toTarget[i].what = "SOH" => i = 1 /\ toTarget[i] = OnlyBlock

OneAnswer ==
  \/ toHost = <<>> \/ \E b \in Bytes \ {"CAN"} : toHost = <<b>>
  \/ phase = "aborted" /\ toHost \in {<<"CAN">>, <<"CAN", "CAN">>}

StartInv == Starting => toTarget = <<>> /\ next = 1 /\ Behind
CanInv == pc \in {"synccan", "answercan"} =>
  toTarget = <<>> /\ toHost \in {<<>>, <<"CAN">>} /\ phase = "aborted"
SendInv ==
  /\ Sending => Behind \/ Ahead
  /\ pc = "send" => toTarget = <<>> /\ toHost = <<>>
  /\ pc = "answer" => /\ toTarget \in {<<>>, <<OnlyBlock>>, <<Garbage>>}
                      /\ toTarget # <<>> => toHost = <<>>
                      /\ toHost = <<"ACK">> => Ahead
EndInv ==
  /\ Ending => next = Blocks /\ stored = Image /\ NoBlock
  /\ Ended => \/ stored = Image /\ NoBlock
              \/ outcome # "complete" /\ (Behind \/ Ahead) /\ FirstBlock

(***************************************************************************)
(* The inductive invariant of a sender that gets its answers in time: one  *)
(* item is on one line at a time, so that the byte it reads answers the    *)
(* block it has just sent, and an ACK means that this block is stored.     *)
(***************************************************************************)
IInv ==
  /\ TypeOK
  /\ (outcome = "busy") = (pc # "idle")
  /\ pc \in {"sync", "synccan"} \/ outcome = "none" => count < kRequiredSyncCount
  /\ phase # "outofstep"
  /\ pc \in {"sync", "answer"} => OneAnswer
  /\ StartInv /\ CanInv /\ SendInv /\ EndInv

-----------------------------------------------------------------------------
(* The inductive invariant behind InOrder, whenever the answers come. *)

BlocksOnLine == {toTarget[i].block : i \in {j \in 1..Len(toTarget) : toTarget[j].what = "SOH"}}

\* The blocks sent that the receiver has not stored and that will not reach it.
Sent == IF pc \in {"answer", "answercan", "eot", "eotanswer"} THEN next ELSE next - 1
Lost == ((Len(stored) + 1)..Sent) \ BlocksOnLine

\* The line holds blocks in the order they were sent, the last one stored first.
LineInOrder ==
  /\ \A i \in 1..Len(toTarget) : toTarget[i].what = "SOH" =>
       /\ toTarget[i].no = toTarget[i].block % NumberSpace
       /\ Len(stored) <= toTarget[i].block /\ toTarget[i].block <= next
  /\ \A i, j \in 1..Len(toTarget) :
       i < j /\ toTarget[i].what = "SOH" /\ toTarget[j].what = "SOH" =>
         toTarget[i].block <= toTarget[j].block

(***************************************************************************)
(* An answer that comes late, or a prompt, makes the sender go on past a   *)
(* block that was lost; how far it can get ahead of a receiver that has    *)
(* not cancelled is how many transmissions were lost.                      *)
(***************************************************************************)
OrderInv ==
  /\ TypeOK /\ InOrder /\ LineInOrder /\ Len(stored) <= next
  /\ (Starting => next = 1) /\ (Starting \/ Sending => no = next % NumberSpace)
  /\ Listening => /\ expected = (Len(stored) + 1) % NumberSpace
                  /\ Cardinality(Lost) <= noise

Transfer == INSTANCE FileTransfer WITH status <- outcome, received <- stored

\* With answers that come in time, sender and receiver are a file transfer.
ImplementsTransfer == Transfer!Spec

(***************************************************************************)
(* Repeated prompts (README.md calls repeated C characters normal) and     *)
(* late answers put the sender ahead of the receiver.  If nothing was lost *)
(* or damaged the receiver catches up, unless it cancels meanwhile.        *)
(***************************************************************************)
Delivered == (outcome = "complete" /\ noise = 0) ~> (stored = Image \/ phase = "aborted")

\* Send returns, whatever the receiver does or does not do.
Terminates == pc # "idle" ~> pc = "idle"
=============================================================================
