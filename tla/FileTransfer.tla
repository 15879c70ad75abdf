---------------------------- MODULE FileTransfer ----------------------------
(***************************************************************************)
(* What a file transfer promises: the receiver gets the blocks once each   *)
(* and in order, and a transfer reported complete has delivered them all.  *)
(***************************************************************************)
EXTENDS Integers, Sequences

CONSTANT Blocks  \* the number of blocks of the file

VARIABLES
  status,   \* "none", "busy", "complete", "failed" or "stopped"
  received  \* the blocks the receiver has stored, in the order it stored them

vars == <<status, received>>

Init == status = "none" /\ received = <<>>

Begin == status = "none" /\ status' = "busy" /\ UNCHANGED received

\* A block on its way may still arrive when the sender has given up.
Accept ==
  /\ Len(received) < Blocks /\ received' = Append(received, Len(received) + 1)
  /\ status \in {"busy", "failed", "stopped"} /\ UNCHANGED status

Complete ==
  /\ status = "busy" /\ Len(received) = Blocks
  /\ status' = "complete" /\ UNCHANGED received

Fail == status = "busy" /\ status' \in {"failed", "stopped"} /\ UNCHANGED received

Next == Begin \/ Accept \/ Complete \/ Fail

Spec == Init /\ [][Next]_vars
=============================================================================
