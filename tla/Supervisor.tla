----------------------------- MODULE Supervisor -----------------------------
(***************************************************************************)
(* What libsled promises about bringing the sled into motion, seen from    *)
(* outside: one phase, climbed one step at a time and left at any moment.  *)
(***************************************************************************)
VARIABLE phase

Phases == {"offline", "configuring", "starting", "enabling", "homing", "ready",
           "moving"}

Init == phase = "offline"

\* A report of the drive, an answer of it or a client takes the next step.
Climb == \/ phase = "offline"     /\ phase' = "configuring"
         \/ phase = "configuring" /\ phase' = "starting"
         \/ phase = "starting"    /\ phase' = "enabling"
         \/ phase = "enabling"    /\ phase' = "homing"
         \/ phase = "homing"      /\ phase' = "ready"
         \/ phase = "ready"       /\ phase' = "moving"

\* The setpoint handshake ends.
Arrive == phase = "moving" /\ phase' = "ready"

\* A fault, or the voltage, takes the drive out of operation.
Disable == phase \in {"homing", "ready", "moving"} /\ phase' = "enabling"

\* The link, the drive's network state or the CAN device is lost.
Lose == phase # "offline" /\ phase' = "offline"

Next == Climb \/ Arrive \/ Disable \/ Lose

Spec == Init /\ [][Next]_phase
=============================================================================
