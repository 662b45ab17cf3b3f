----------------------------- MODULE MCAccelBuilds -----------------------------
(***************************************************************************)
(* The system in two builds of the device.  In one the undriven write      *)
(* enables have either value, the data lines show anything and images have *)
(* a black corner; in the other no undriven enable writes, and images have *)
(* any corner.                                                             *)
(***************************************************************************)
EXTENDS MCAccelSystem

VARIABLE build

MCImages == MCDarkCorner \cup MCAnyCorner

Quiet == INSTANCE AccelSystem WITH FloatWrEna <- MCNoWrites, BusData <- MCPowerUp

BuildInit ==
  /\ build \in {"float", "quiet"}
  /\ IF build = "float" THEN SysInit /\ img \in MCDarkCorner ELSE Quiet!SysInit

FloatNext == build = "float" /\ SysNext /\ img' \in MCDarkCorner /\ UNCHANGED build
QuietNext == build = "quiet" /\ Quiet!SysNext /\ UNCHANGED build

BuildNext == FloatNext \/ QuietNext

BuildSpec == /\ BuildInit /\ [][BuildNext]_<<sysVars, build>>
             /\ WF_<<sysVars, build>>(BuildNext)

=============================================================================
