---------------------------- MODULE PacketMailbox ----------------------------
(***************************************************************************)
(* What NuvoIspI2c takes the I2C slave of the target for: a mailbox of one *)
(* packet and one answer.  A write empties both sides and, when it is      *)
(* complete, leaves its packet; the target turns the packet into an answer *)
(* in one step; a read sees the whole answer or nothing.                   *)
(***************************************************************************)
CONSTANTS Packets, None

VARIABLES
  inbox,  \* the packet waiting for the target, or None
  outbox, \* the packet whose answer can be read, or None
  seen    \* the packet whose answer the last complete read returned, or None

vars == <<inbox, outbox, seen>>

Init == inbox = None /\ outbox = None /\ seen = None

Begin == inbox' = None /\ outbox' = None /\ seen' = None

Deliver == inbox' \in Packets /\ outbox' = None /\ seen' = None

Answer == inbox # None /\ outbox' = inbox /\ inbox' = None /\ UNCHANGED seen

Read == outbox # None /\ seen' = outbox /\ UNCHANGED <<inbox, outbox>>

StartRead == seen' = None /\ UNCHANGED <<inbox, outbox>>

Next == Begin \/ Deliver \/ Answer \/ Read \/ StartRead

Spec == Init /\ [][Next]_vars
=============================================================================
