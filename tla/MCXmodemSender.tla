--------------------------- MODULE MCXmodemSender ---------------------------
(* Instances of XmodemSender: few blocks, packet numbers that wrap early. *)
EXTENDS XmodemSender
=============================================================================
