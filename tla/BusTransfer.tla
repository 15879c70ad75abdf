---------------------------- MODULE BusTransfer ----------------------------
(***************************************************************************)
(* What the I2C ISP client relies on when it writes or reads a packet      *)
(* through the bridge.  A transfer that is reported to have succeeded took *)
(* place, whole; none takes place twice, and they take place in the order  *)
(* they were asked for.  One that is reported to have failed may have      *)
(* taken place, or may still do so until a later one has.                  *)
(***************************************************************************)
EXTENDS Integers, Sequences

VARIABLES
  op,     \* the transfers asked for so far; the current one
  result, \* of the current one: "none", "pending", "ok", "failed"
  bus     \* the transfers that took place on the bus, in their order

vars == <<op, result, bus>>

Init == op = 0 /\ result = "none" /\ bus = <<>>

Ask ==
  /\ result # "pending"
  /\ op' = op + 1 /\ result' = "pending" /\ UNCHANGED bus

TakePlace ==
  \E o \in 1..op :
    /\ \A i \in 1..Len(bus) : bus[i] < o
    /\ bus' = Append(bus, o) /\ UNCHANGED <<op, result>>

Succeed ==
  /\ result = "pending"
  /\ bus # <<>> /\ bus[Len(bus)] = op
  /\ result' = "ok" /\ UNCHANGED <<op, bus>>

Fail ==
  /\ result = "pending"
  /\ result' = "failed" /\ UNCHANGED <<op, bus>>

Next == Ask \/ TakePlace \/ Succeed \/ Fail

Spec == Init /\ [][Next]_vars
=============================================================================
