-------------------------- MODULE MCNuvoIspI2cLive --------------------------
(***************************************************************************)
(* Liveness of NuvoIspI2c on the instance of MCNuvoIspI2c.  The history    *)
(* variable clean says that since the update began nothing but blocks, or  *)
(* answers to them, was damaged: the case the resend of a block is for.    *)
(***************************************************************************)
EXTENDS MCNuvoIspI2c

VARIABLE clean

LiveInit == Init /\ clean = TRUE

LiveNext ==
  /\ Next
  /\ clean' = IF pc = "idle" /\ pc' # "idle" THEN op' = "program" ELSE clean /\ RepairNext

(***************************************************************************)
(* Every wait of the client has a timeout and every retry loop a limit, so *)
(* an operation always has a next step and takes it.  Nothing is asked of  *)
(* the target.                                                             *)
(***************************************************************************)
LiveSpec == LiveInit /\ [][LiveNext]_<<vars, clean>> /\ WF_vars(Host)

\* Whatever the bus and the target do, an operation ends and gives the tab back.
Terminates == pc # "idle" ~> pc = "idle"

\* Fewer damaged blocks than program_retry_count never fail an update, when
\* the target's main loop runs (ProgramAprom, SendResendPacket).
Repaired ==
  WF_vars(ParseCmd /\ UNCHANGED hostVars) =>
    (outcome = "busy" /\ clean ~> outcome = "done" \/ ~clean)
=============================================================================
