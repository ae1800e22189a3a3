-------------------------------- MODULE DriveSafety -------------------------------
(* What the state machine promises the rest of the vehicle, without its table:   *)
(* five phases, and for each change of phase the commands that may cause it.     *)
(* SystemStateMachine implements it (its phase is a function of current_state).  *)
CONSTANTS DriveOrders,    \* events that may set the vehicle in motion
          Acknowledgements,  \* events that may release a halted vehicle
          Alarms          \* events that may halt it

VARIABLES phase,          \* "off", "starting", "standby", "motion" or "halted"
          order           \* the last event heard

safetyVars == <<phase, order>>

SafetyInit == phase = "off" /\ order = "NONE"

(* A new start is possible at any time, from any phase.                          *)
PowerUp  == phase' = "starting" /\ order' = "NONE"
PowerOff == phase' = "off" /\ order' \in {"NONE", "SHUTDOWN"}

(* An event that leaves the phase as it is, the refused ones included.           *)
Hear == phase' = phase

StartUp == phase = "starting" /\ phase' = "standby" /\ order' = "INIT_COMPLETE"

Depart == phase = "standby" /\ phase' = "motion" /\ order' \in DriveOrders

(* Motion ends without anybody's leave.                                          *)
Rest == phase = "motion" /\ phase' = "standby"

Halt == phase # "off" /\ phase' = "halted" /\ order' \in Alarms

Acknowledge == phase = "halted" /\ phase' = "standby" /\ order' \in Acknowledgements

SafetyNext == PowerUp \/ PowerOff \/ Hear \/ StartUp \/ Depart \/ Rest \/ Halt \/ Acknowledge

SafetySpec == SafetyInit /\ [][SafetyNext]_safetyVars
===================================================================================
