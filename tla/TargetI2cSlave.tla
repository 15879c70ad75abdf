--------------------------- MODULE TargetI2cSlave ---------------------------
(***************************************************************************)
(* The I2C slave of the target's LDROM: the interrupt handler I2C_SlaveTRx *)
(* of i2c_transfer.c against the main loop of main.c, which copies the     *)
(* received packet, parses it and releases the response.  The 4 KB sample  *)
(* masks the interrupt meanwhile (MaskIrq); in the 2 KB sample the two     *)
(* calls are commented out.                                                *)
(*                                                                         *)
(* The master writes packets 1, 2, ...; a byte of a buffer is the number   *)
(* of the packet it belongs to or answers.  An event on the bus is one run *)
(* of the handler.  While the interrupt is masked none is run: the slave   *)
(* stretches the clock and the master waits.                               *)
(***************************************************************************)
EXTENDS Integers, Sequences

CONSTANTS
  PacketLen,  \* 64
  MaskIrq,    \* does main mask the I2C interrupt around ParseCmd?
  MaxPackets  \* bound on the writes of the master

ASSUME SlaveAssumption ==
  PacketLen \in Nat \ {0, 1} /\ MaskIrq \in BOOLEAN /\ MaxPackets \in Nat

Bytes == 0..(PacketLen - 1)
Blank == 0   \* no packet
Busy == -1   \* the 0xCC and 0xDD of a slave with no response

VARIABLES
  rcvbuf,   \* i2c_rcvbuf
  cmdbuf,   \* cmd_buff of main
  response, \* response_buff
  i2cReady, \* bI2cDataReady
  ispReady, \* bISPDataReady
  latched,  \* _bISPDataReady
  slvLen,   \* g_u8SlvDataLen
  main,     \* where main is: "wait", "copy", "clear", "parse", "out", "release"
  copied,   \* bytes memcpy has copied
  bus,      \* "idle", or what the master does: "write", "read"
  sent,     \* number of the packet written last or being written
  got       \* the bytes of the read under way or just done

isrVars == <<rcvbuf, i2cReady, ispReady, latched, slvLen>>
busVars == <<bus, sent, got>>
mainVars == <<main, copied, cmdbuf, response>>
vars == <<rcvbuf, cmdbuf, response, i2cReady, ispReady, latched, slvLen, main, copied,
          bus, sent, got>>

Blanks == [i \in Bytes |-> Blank]

Init ==
  /\ rcvbuf = Blanks /\ cmdbuf = Blanks /\ response = Blanks
  /\ i2cReady = FALSE /\ ispReady = FALSE /\ latched = FALSE /\ slvLen = 0
  /\ main = "wait" /\ copied = 0
  /\ bus = "idle" /\ sent = 0 /\ got = <<>>

-----------------------------------------------------------------------------
(* The interrupt handler, one action per status. *)

Enabled == ~(MaskIrq /\ main # "wait")

\* Mutants of AddressedWrite: a flag keeps the value of the last packet.
AddressedWriteOldAnswer ==
  /\ Enabled /\ bus = "idle" /\ sent < MaxPackets
  /\ bus' = "write" /\ sent' = sent + 1 /\ got' = <<>>
  /\ i2cReady' = FALSE /\ slvLen' = 0
  /\ UNCHANGED <<rcvbuf, ispReady, latched, mainVars>>
AddressedWriteOldPacket ==
  /\ Enabled /\ bus = "idle" /\ sent < MaxPackets
  /\ bus' = "write" /\ sent' = sent + 1 /\ got' = <<>>
  /\ ispReady' = FALSE /\ slvLen' = 0
  /\ UNCHANGED <<rcvbuf, i2cReady, latched, mainVars>>

\* 0x60: addressed for a write.
AddressedWrite ==
  /\ Enabled /\ bus = "idle" /\ sent < MaxPackets
  /\ bus' = "write" /\ sent' = sent + 1 /\ got' = <<>>
  /\ i2cReady' = FALSE /\ ispReady' = FALSE /\ slvLen' = 0
  /\ UNCHANGED <<rcvbuf, latched, mainVars>>

\* 0x80: a byte received and acknowledged, not yet the last.
ByteReceived ==
  /\ Enabled /\ bus = "write" /\ slvLen < PacketLen - 1
  /\ rcvbuf' = [rcvbuf EXCEPT ![slvLen] = sent]
  /\ slvLen' = slvLen + 1
  /\ i2cReady' = FALSE
  /\ UNCHANGED <<ispReady, latched, mainVars, busVars>>

\* Mutant of LastByteReceived: the length is compared one short of the packet.
LastByteReceivedOff ==
  /\ Enabled /\ bus = "write" /\ slvLen = PacketLen - 1
  /\ rcvbuf' = [rcvbuf EXCEPT ![slvLen] = sent]
  /\ i2cReady' = (slvLen + 1 = PacketLen - 1) /\ slvLen' = 0
  /\ bus' = "idle"
  /\ UNCHANGED <<ispReady, latched, mainVars, sent, got>>

\* 0x88: the last byte, refused: the packet is complete.
LastByteReceived ==
  /\ Enabled /\ bus = "write" /\ slvLen = PacketLen - 1
  /\ rcvbuf' = [rcvbuf EXCEPT ![slvLen] = sent]
  /\ i2cReady' = TRUE /\ slvLen' = 0
  /\ bus' = "idle"
  /\ UNCHANGED <<ispReady, latched, mainVars, sent, got>>

\* Mutant of WriteStopped: whatever was received counts as a packet.
WriteStoppedReady ==
  /\ Enabled /\ bus = "write" /\ slvLen > 0
  /\ slvLen' = 0 /\ i2cReady' = TRUE
  /\ bus' = "idle"
  /\ UNCHANGED <<rcvbuf, ispReady, latched, mainVars, sent, got>>

\* 0xA0: STOP, or a repeated START, before the packet is complete.
WriteStopped ==
  /\ Enabled /\ bus = "write"
  /\ slvLen' = 0
  /\ bus' = "idle"
  /\ UNCHANGED <<rcvbuf, i2cReady, ispReady, latched, mainVars, sent, got>>

\* 0xA8: addressed for a read; the flag is latched for the whole read.
AddressedRead ==
  /\ Enabled /\ bus = "idle"
  /\ latched' = ispReady
  /\ got' = <<IF ispReady THEN response[0] ELSE Busy>>
  /\ slvLen' = 1
  /\ bus' = "read"
  /\ UNCHANGED <<rcvbuf, i2cReady, ispReady, mainVars, sent>>

\* Mutant of ByteSent: the position is not wrapped to the size of the buffer.
ByteSentUnmasked ==
  /\ Enabled /\ bus = "read" /\ Len(got) < PacketLen
  /\ got' = Append(got, IF latched THEN response[slvLen] ELSE Busy)
  /\ slvLen' = slvLen + 1
  /\ UNCHANGED <<rcvbuf, i2cReady, ispReady, latched, mainVars, bus, sent>>

\* 0xB8: the master wants another byte, up to the PacketLen of a packet.
ByteSent ==
  /\ Enabled /\ bus = "read" /\ Len(got) < PacketLen
  /\ got' = Append(got, IF latched THEN response[slvLen] ELSE Busy)
  /\ slvLen' = (slvLen + 1) % PacketLen
  /\ UNCHANGED <<rcvbuf, i2cReady, ispReady, latched, mainVars, bus, sent>>

\* 0xC0: the master refuses the byte, the last of the packet or an earlier one.
ReadRefused ==
  /\ Enabled /\ bus = "read"
  /\ bus' = "idle"
  /\ UNCHANGED <<isrVars, mainVars, sent, got>>

Isr == AddressedWrite \/ ByteReceived \/ LastByteReceived \/ WriteStopped
         \/ AddressedRead \/ ByteSent \/ ReadRefused

-----------------------------------------------------------------------------
(* The main loop.  Seeing the flag and masking the interrupt are one step: *)
(* the few instructions between them are shorter than an address byte.     *)

SeePacket ==
  /\ main = "wait" /\ i2cReady
  /\ main' = "copy" /\ copied' = 0
  /\ UNCHANGED <<isrVars, cmdbuf, response, busVars>>

\* memcpy
CopyByte ==
  /\ main = "copy"
  /\ cmdbuf' = [cmdbuf EXCEPT ![copied] = rcvbuf[copied]]
  /\ copied' = copied + 1
  /\ main' = IF copied + 1 = PacketLen THEN "clear" ELSE main
  /\ UNCHANGED <<isrVars, response, busVars>>

ClearReady ==
  /\ main = "clear"
  /\ i2cReady' = FALSE
  /\ main' = "parse"
  /\ UNCHANGED <<rcvbuf, ispReady, latched, slvLen, copied, cmdbuf, response, busVars>>

\* ParseCmd begins: it clears the index and data of the response, then works.
ParseBegin ==
  /\ main = "parse"
  /\ response' = [i \in Bytes |-> IF i = 0 THEN response[0] ELSE Blank]
  /\ main' = "out"
  /\ UNCHANGED <<isrVars, copied, cmdbuf, busVars>>

\* ParseCmd ends: checksum and index of the answer to what was copied.
ParseEnd ==
  /\ main = "out"
  /\ response' = cmdbuf
  /\ main' = "release"
  /\ UNCHANGED <<isrVars, copied, cmdbuf, busVars>>

Release ==
  /\ main = "release"
  /\ ispReady' = TRUE
  /\ main' = "wait"
  /\ UNCHANGED <<rcvbuf, i2cReady, latched, slvLen, copied, cmdbuf, response, busVars>>

Main == SeePacket \/ CopyByte \/ ClearReady \/ ParseBegin \/ ParseEnd \/ Release

\* The chip is reset; a transfer under way ends unacknowledged.
Reset ==
  /\ rcvbuf' = Blanks /\ cmdbuf' = Blanks /\ response' = Blanks
  /\ i2cReady' = FALSE /\ ispReady' = FALSE /\ latched' = FALSE /\ slvLen' = 0
  /\ main' = "wait" /\ copied' = 0
  /\ bus' = "idle" /\ got' = <<>>
  /\ UNCHANGED sent

Next == Isr \/ Main \/ Reset

Spec == Init /\ [][Next]_vars

\* main does nothing else, and the loop always takes its next step.
FairSpec == Spec /\ WF_vars(Main)

-----------------------------------------------------------------------------
(* Properties *)

Packets == 1..MaxPackets

\* Buffers, flags and counters of the slave keep their ranges.
TypeOK ==
  /\ rcvbuf \in [Bytes -> 0..MaxPackets] /\ cmdbuf \in [Bytes -> 0..MaxPackets]
  /\ response \in [Bytes -> 0..MaxPackets]
  /\ i2cReady \in BOOLEAN /\ ispReady \in BOOLEAN /\ latched \in BOOLEAN
  /\ slvLen \in Bytes /\ copied \in 0..PacketLen
  /\ main \in {"wait", "copy", "clear", "parse", "out", "release"}
  /\ bus \in {"idle", "write", "read"} /\ sent \in 0..MaxPackets
  /\ Len(got) <= PacketLen /\ \A i \in 1..Len(got) : got[i] \in Busy..MaxPackets

(***************************************************************************)
(* ParseCmd works on one packet, never on the head of one and the tail of  *)
(* another (main.c copies i2c_rcvbuf while the handler may fill it).       *)
(***************************************************************************)
WholePacket ==
  main = "parse" => \E p \in Packets : cmdbuf = [i \in Bytes |-> p]

(***************************************************************************)
(* "Disable I2C IRQ until ParseCmd() is finished to prevent returning      *)
(* incomplete data prematurely" (main.c): a read never mixes two answers,  *)
(* or an answer and the busy pattern.                                      *)
(***************************************************************************)
AnswerWhole == \A i \in 1..Len(got) : got[i] = got[1]

(***************************************************************************)
(* And what it returns, if anything, is the answer to the last packet the  *)
(* master addressed to the slave: NuvoIspI2c tells answers apart by a      *)
(* checksum and an index that restart with every handshake.                *)
(***************************************************************************)
AnswerFresh == \A i \in 1..Len(got) : got[i] = got[1] /\ got[1] \in {Busy, sent}

\* The buffers hold the packet the master has addressed last, byte for byte.
Holds(buf, n) == sent \in Packets /\ \A i \in 0..(n - 1) : buf[i] = sent

WriteInv == bus = "write" => /\ ~i2cReady /\ ~ispReady /\ main = "wait" /\ got = <<>>
                             /\ Holds(rcvbuf, slvLen)
PacketInv == i2cReady => /\ ~ispReady /\ bus # "write" /\ main \in {"wait", "copy", "clear"}
                         /\ Holds(rcvbuf, PacketLen)
CopyInv ==
  /\ main = "copy" => i2cReady /\ copied < PacketLen /\ Holds(cmdbuf, copied)
  /\ main = "clear" => i2cReady /\ Holds(cmdbuf, PacketLen)
ParseInv == main \in {"parse", "out", "release"} =>
  /\ ~i2cReady /\ ~ispReady /\ bus # "write" /\ Holds(cmdbuf, PacketLen)
  /\ main = "release" => Holds(response, PacketLen)
AnswerInv == ispReady => /\ main = "wait" /\ bus # "write" /\ Holds(response, PacketLen)
ReadInv == bus = "read" => /\ got # <<>> /\ slvLen = Len(got) % PacketLen
                           /\ latched => ispReady
                           /\ got[1] = IF latched THEN sent ELSE Busy

(***************************************************************************)
(* The inductive invariant of the masked slave: a packet is in the receive *)
(* buffer, in main's hands or answered, one of the three at a time, and    *)
(* each place holds all of it.                                             *)
(***************************************************************************)
IInv ==
  /\ TypeOK /\ WriteInv /\ PacketInv /\ CopyInv /\ ParseInv /\ AnswerInv /\ ReadInv
  /\ got \in Seq(Busy..MaxPackets) /\ AnswerFresh

\* The mailbox the buffers and flags make.
Mailbox == INSTANCE PacketMailbox WITH
  None <- Blank,
  inbox <- IF i2cReady THEN rcvbuf[0] ELSE IF main \in {"parse", "out", "release"} THEN cmdbuf[0] ELSE Blank,
  outbox <- IF ispReady THEN response[0] ELSE Blank,
  seen <- IF Len(got) = PacketLen /\ got[1] # Busy THEN got[PacketLen] ELSE Blank

\* Handler and main loop together are the mailbox NuvoIspI2c takes them for.
ImplementsMailbox == Mailbox!Spec

(***************************************************************************)
(* A packet that was written whole is answered, unless the master writes   *)
(* again or the chip is reset: the flag of a packet is never cleared for   *)
(* another one's sake.                                                     *)
(***************************************************************************)
Written == bus # "write" /\ \A i \in Bytes : rcvbuf[i] = sent
Answered == Written /\ sent > 0 ~> ispReady \/ bus = "write" \/ rcvbuf = Blanks
=============================================================================
