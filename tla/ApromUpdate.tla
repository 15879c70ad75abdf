---------------------------- MODULE ApromUpdate ----------------------------
(***************************************************************************)
(* What Program APROM promises its user, whatever happens on the way: when *)
(* the tool says the program is complete, the application region holds the *)
(* binary, and nothing touches it until the next Program APROM.  While an  *)
(* update runs, or after one failed, the content may be anything.          *)
(***************************************************************************)
CONSTANTS
  Contents,  \* what the application region can hold
  Binary     \* the content that is the loaded binary, the rest erased

VARIABLES
  status,    \* of the last update: "none", "busy", "done" or "failed"
  content    \* of the application region

vars == <<status, content>>

Init == status = "none" /\ content \in Contents

Begin == status' = "busy" /\ UNCHANGED content

Change == status \in {"busy", "failed"} /\ content' \in Contents /\ UNCHANGED status

Complete == status = "busy" /\ content = Binary /\ status' = "done" /\ UNCHANGED content

Abandon == status = "busy" /\ status' = "failed" /\ UNCHANGED content

Next == Begin \/ Change \/ Complete \/ Abandon

Spec == Init /\ [][Next]_vars
=============================================================================
