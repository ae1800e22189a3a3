------------------------------- MODULE MCSafetyChain ------------------------------
(* The instance of SafetyChain that TLC checks: one tick of timeout for each     *)
(* state that has one, and a clock that can pass it.                             *)
EXTENDS SafetyChain

MCTimeout == [s \in States |->
                IF s \in {"BOOT", "INIT", "MOVE", "PAUSED", "DOCK", "CONFIG"} THEN 1 ELSE 0]
===================================================================================
