-------------------------- MODULE MCBridgeService --------------------------
(* BridgeService for TLC. *)
EXTENDS BridgeService
=============================================================================
