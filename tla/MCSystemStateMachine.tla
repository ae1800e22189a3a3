--------------------------- MODULE MCSystemStateMachine ---------------------------
(* The instance of SystemStateMachine that TLC checks.  Ticks stand for seconds  *)
(* of the timeout table; what matters is which states have a timeout, and that   *)
(* the clock can run past each of them.                                          *)
EXTENDS SystemStateMachine

MCTimeout == [s \in States |->
                IF s \in {"BOOT", "INIT", "MOVE", "PAUSED", "DOCK", "CONFIG"} THEN 1 ELSE 0]

(* The safety runs hand every event to the machine.                              *)
MCRaised == Events
===================================================================================
