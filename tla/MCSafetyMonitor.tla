------------------------------- MODULE MCSafetyMonitor -------------------------------
EXTENDS SafetyMonitor

(* Distances 0 .. 4 in steps of the factory zones (500, 1000 and 2000 mm are 1, 2 and 3) *)
MCViews == {{}, {0, 3}, {1, 4}, {3, 4}}

MCFactory == [emergency |-> 1, warning |-> 2, safe |-> 3]

(* An import may leave the emergency zone out of its text, which sets it to 0           *)
MCLimits == {MCFactory, [emergency |-> 0, warning |-> 2, safe |-> 3]}
======================================================================================
