-------------------------- MODULE MCTargetI2cSlave --------------------------
(* Instances of TargetI2cSlave: packets of a few bytes, a few writes. *)
EXTENDS TargetI2cSlave
=============================================================================
