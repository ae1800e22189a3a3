-------------------------------- MODULE SafetyMonitor --------------------------------
(* safety_monitor.c: the monitor's state, its E-Stop flags, the LiDAR zones and the   *)
(* flags of the events that other components report.  Each function runs to its end;  *)
(* statistics, LED patterns of a state and the text of reasons are left out.          *)
EXTENDS Integers, FiniteSetsExt

CONSTANTS Views,        \* what the LiDAR may see: sets of distances
          MaxDistance,  \* UINT16_MAX: the start of the search for the minimum
          Limits,       \* the zone limits that a configuration may set
          Factory       \* the limits set by init and by the factory reset

ASSUME MonitorAssumption ==
  /\ MaxDistance \in Nat
  /\ \A v \in Views : v \subseteq 0 .. MaxDistance
  /\ Factory \in Limits
  /\ \A l \in Limits : /\ l.emergency \in Nat /\ l.warning \in Nat /\ l.safe \in Nat
                      /\ l.emergency < l.warning /\ l.warning < l.safe

VARIABLES mon,      \* safety_monitor_instance
          latched,  \* the latch of hal_estop.c is TRIGGERED
          view      \* the points that the next scan will hold

vars == <<mon, latched, view>>

States == {"INIT", "SAFE", "WARNING", "CRITICAL", "ESTOP", "FAULT"}
Bands  == {"emergency", "warning", "safe", "clear"}

(* safety_monitor_t                                                                   *)
Monitors == [initialized : BOOLEAN, state : States, hw : BOOLEAN, sw : BOOLEAN,
             enabled : BOOLEAN, limits : Limits, near : Bands,
             configured : {"none", "danger", "other"}, violation : BOOLEAN,
             interlock_open : BOOLEAN, sensor_fault : BOOLEAN,
             communication_ok : BOOLEAN, watchdog_ok : BOOLEAN]

(* The instance after memset: state 0 is INIT, communication_ok and watchdog_ok FALSE *)
Cleared == [initialized |-> FALSE, state |-> "INIT", hw |-> FALSE, sw |-> FALSE,
            enabled |-> FALSE, limits |-> Factory, near |-> "clear", configured |-> "none",
            violation |-> FALSE, interlock_open |-> FALSE, sensor_fault |-> FALSE,
            communication_ok |-> FALSE, watchdog_ok |-> FALSE]

Init == mon = Cleared /\ latched \in BOOLEAN /\ view \in Views
--------------------------------------------------------------------------------------
(* safety_monitor_transition_state: a move the switch refuses changes nothing         *)
Allowed == [s \in States |->
  CASE s = "INIT" -> {"SAFE", "FAULT", "ESTOP"}
    [] s = "SAFE" -> States
    [] s = "WARNING" -> States \ {"INIT"}
    [] s \in {"CRITICAL", "ESTOP"} -> States \ {"INIT", "SAFE"}
    [] s = "FAULT" -> States \ {"INIT"}]

Moved(m, s) == IF s \in Allowed[m.state] THEN [m EXCEPT !.state = s] ELSE m

(* safety_monitor_trigger_emergency_stop: the procedures (LEDs and relays) come first, *)
(* and their failure ends the call                                                     *)
Triggered(m, ok) == IF ok THEN [Moved(m, "ESTOP") EXCEPT !.sw = TRUE] ELSE m

(* safety_monitor_check_estop; its second test can never hold, for the flag was just  *)
(* made equal to what is tested                                                       *)
EstopChecked(m) ==
  LET read == [m EXCEPT !.hw = latched]
  IN  IF latched /\ ~m.sw THEN Moved(read, "ESTOP") ELSE read

(* safety_monitor_handle_zone_violation, by the flags that the last scan left         *)
ViolationHandled(m, ok) ==
  LET seen == [m EXCEPT !.violation = TRUE]
  IN  CASE m.near = "emergency" -> Triggered(seen, ok)
        [] m.near = "warning" /\ m.state = "SAFE" -> Moved(seen, "WARNING")
        [] OTHER -> seen

(* The minimum distance of a scan; a scan without a point in range counts as 0        *)
NearestOrMax(scan) == Min(scan \cup {MaxDistance})

Nearest(scan) == LET d == Min(scan \cup {MaxDistance}) IN IF d = MaxDistance THEN 0 ELSE d

Band(scan, l) == LET d == Nearest(scan)
                 IN  CASE d < l.emergency -> "emergency"
                       [] d >= l.emergency /\ d < l.warning -> "warning"
                       [] d >= l.warning /\ d < l.safe -> "safe"
                       [] OTHER -> "clear"

(* safety_monitor_check_basic_zones                                                   *)
ScannedKeepsWarning(m, ok) ==
  LET band == Band(view, m.limits)
      seen == [m EXCEPT !.near = band, !.violation = band # "clear"]
  IN  IF m.enabled /\ band # "clear" THEN ViolationHandled(seen, ok) ELSE seen

ScannedForgets(m, ok) ==
  LET band == Band(view, m.limits)
      seen == [m EXCEPT !.near = band, !.violation = band # "clear"]
  IN  CASE ~m.enabled -> m
        [] m.enabled /\ band # "clear" -> ViolationHandled(seen, ok)
        [] OTHER -> Moved(seen, "SAFE")

Scanned(m, ok) ==
  LET band == Band(view, m.limits)
      seen == [m EXCEPT !.near = band, !.violation = band # "clear"]
  IN  CASE ~m.enabled -> m
        [] m.enabled /\ band # "clear" -> ViolationHandled(seen, ok)
        [] OTHER -> IF m.state = "WARNING" THEN Moved(seen, "SAFE") ELSE seen

(* safety_monitor_check_zones: a configured danger or emergency zone repeats the last *)
(* scan's violation, zones of another kind drop it                                    *)
ZonesChecked(m) ==
  IF m.configured = "none" THEN m ELSE [m EXCEPT !.violation = @ /\ m.configured = "danger"]

(* safety_monitor_check_watchdog                                                      *)
WatchdogChecked(m) == [m EXCEPT !.watchdog_ok = TRUE]

(* safety_monitor_reset: the flags are cleared before the transition is tried         *)
ResetDoneAnyway(m) == Moved([m EXCEPT !.sw = FALSE, !.interlock_open = FALSE,
                                      !.sensor_fault = FALSE, !.communication_ok = TRUE], "SAFE")

ResetDone(m) ==
  IF m.hw THEN m
  ELSE Moved([m EXCEPT !.sw = FALSE, !.violation = FALSE, !.interlock_open = FALSE,
                       !.sensor_fault = FALSE, !.communication_ok = TRUE,
                       !.watchdog_ok = TRUE], "SAFE")

(* The handlers of an open interlock, a faulty sensor and a lost communication         *)
Raised(m) == IF m.state \in {"SAFE", "WARNING"} THEN Moved(m, "CRITICAL") ELSE m

Reported(m, e, ok) ==
  CASE e = "ESTOP_TRIGGERED"    -> Moved(m, "ESTOP")
    [] e = "ZONE_VIOLATION"     -> ViolationHandled(m, ok)
    [] e = "INTERLOCK_OPEN"     -> Raised([m EXCEPT !.interlock_open = TRUE])
    [] e = "SENSOR_FAULT"       -> Raised([m EXCEPT !.sensor_fault = TRUE])
    [] e = "COMMUNICATION_LOST" -> Raised([m EXCEPT !.communication_ok = FALSE])
    [] e = "WATCHDOG_TIMEOUT"   -> Moved([m EXCEPT !.watchdog_ok = FALSE], "FAULT")
    [] e = "EMERGENCY_STOP"     -> Triggered(m, ok)
    [] e = "SAFETY_RESET"       -> ResetDone(m)

Events == {"ESTOP_TRIGGERED", "ZONE_VIOLATION", "INTERLOCK_OPEN", "SENSOR_FAULT",
           "COMMUNICATION_LOST", "WATCHDOG_TIMEOUT", "EMERGENCY_STOP", "SAFETY_RESET"}
--------------------------------------------------------------------------------------
(* safety_monitor_init; the E-Stop HAL may refuse, which leaves the cleared instance   *)
Start == /\ ~mon.initialized
         /\ mon' = [Cleared EXCEPT !.initialized = TRUE, !.enabled = TRUE]
         /\ UNCHANGED <<latched, view>>

Deinit == mon.initialized /\ mon' = Cleared /\ UNCHANGED <<latched, view>>

(* safety_monitor_process_event, and the public functions that do the same: trigger_  *)
(* emergency_stop, trigger_lidar_emergency_stop and reset                              *)
ProcessEvent == /\ mon.initialized
                /\ \E e \in Events, ok \in BOOLEAN : mon' = Reported(mon, e, ok)
                /\ UNCHANGED <<latched, view>>

(* main calls the check of the zones by itself as well                                *)
CheckZonesOn(ok) == mon.initialized /\ mon' = Scanned(mon, ok) /\ UNCHANGED <<latched, view>>
CheckZones == \E ok \in BOOLEAN : CheckZonesOn(ok)

(* The checks whose period has elapsed, in the order of safety_monitor_update; without *)
(* an answer of the E-Stop HAL nothing else is checked                                 *)
Update(estop, zones, watchdog) ==
  LET first  == IF estop THEN EstopChecked(mon) ELSE mon
      second == IF zones THEN ZonesChecked(first) ELSE first
  IN  /\ mon.initialized
      /\ mon' = IF watchdog THEN WatchdogChecked(second) ELSE second
      /\ UNCHANGED <<latched, view>>

(* safety_monitor_update_with_lidar: zones only if the LiDAR is well                   *)
UpdateWithLidar(estop, zones, watchdog) ==
  LET first == IF estop THEN EstopChecked(mon) ELSE mon
  IN  /\ mon.initialized
      /\ \E ok \in BOOLEAN :
           LET second == IF zones THEN Scanned(first, ok) ELSE first
           IN  mon' = IF watchdog THEN WatchdogChecked(second) ELSE second
      /\ UNCHANGED <<latched, view>>

AnyUpdate == \E estop, zones, watchdog \in BOOLEAN :
  Update(estop, zones, watchdog) \/ UpdateWithLidar(estop, zones, watchdog)

(* safety_monitor_set_basic_zones: the caller's copy of the flags comes with the limits: *)
(* all clear (import, factory reset) or as they were read a moment before               *)
SetBasicZonesUnchecked ==
  /\ mon.initialized
  /\ mon' = [mon EXCEPT !.limits = [emergency |-> @.warning, warning |-> @.warning, safe |-> @.safe]]
  /\ UNCHANGED <<latched, view>>

SetBasicZones == /\ mon.initialized
                 /\ \E l \in Limits, on \in BOOLEAN, near \in {mon.near, "clear"} :
                      mon' = [mon EXCEPT !.limits = l, !.enabled = on, !.near = near]
                 /\ UNCHANGED <<latched, view>>

(* safety_monitor_set_zone_config: of the zones, only an enabled danger or emergency    *)
(* zone matters; none is ever removed                                                  *)
SetZoneConfig == /\ mon.initialized
                 /\ \E kind \in {"danger", "other"} : mon' = [mon EXCEPT !.configured = kind]
                 /\ UNCHANGED <<latched, view>>

(* The button and its reset, by other threads; the world in front of the LiDAR         *)
Button == latched' = ~latched /\ UNCHANGED <<mon, view>>
World  == view' \in Views /\ UNCHANGED <<mon, latched>>

Next == \/ Start \/ Deinit \/ ProcessEvent \/ CheckZones \/ AnyUpdate
        \/ SetBasicZones \/ SetZoneConfig \/ Button \/ World

Spec == Init /\ [][Next]_vars

(* Scans keep coming, and on a board whose LEDs and relays are there the emergency       *)
(* procedures do not fail at every one of them                                          *)
FairSpec == Spec /\ WF_vars(CheckZonesOn(TRUE))
--------------------------------------------------------------------------------------
(* The monitor keeps its type.                                                        *)
TypeOK ==
  /\ mon \in Monitors
  /\ latched \in BOOLEAN
  /\ view \in Views

(* While safety_monitor_is_estop_active answers yes, the state is ESTOP or FAULT,       *)
(* whatever resets, faults and scans came between the button and the flags.             *)
StopIsNotSafe == mon.hw \/ mon.sw => mon.state \in {"ESTOP", "FAULT"}

(* A monitor that stopped is declared safe again by a reset only, with the button last   *)
(* read as released, and with nothing left of what stopped it: no scan, no end of a     *)
(* violation, no mended fault does it by itself.                                        *)
Clean(m) == ~(m.hw \/ m.sw \/ m.violation \/ m.interlock_open \/ m.sensor_fault)
            /\ m.communication_ok /\ m.watchdog_ok

ResumesClean == [][mon.state \in {"ESTOP", "CRITICAL", "FAULT"} /\ mon'.state = "SAFE"
                     => ~mon.hw /\ Clean(mon')]_vars

(* What the table of the code makes of the stops: ESTOP and CRITICAL are left only for   *)
(* each other, for FAULT and by another init, so that the reset is refused there (after  *)
(* it has cleared the flags), and CRITICAL does not fall back to WARNING.  The document  *)
(* of the safety architecture has both ways.                                            *)
StopsLast == [][mon.state \in {"ESTOP", "CRITICAL"} /\ mon'.initialized
                  => mon'.state \in {"ESTOP", "CRITICAL", "FAULT"}]_vars

(* An obstacle that stays in the emergency zone, or a scan without points, stops the    *)
(* vehicle, and stops it again after every reset, also when procedures fail now and then. *)
Obstructed == /\ mon.initialized /\ mon.enabled /\ mon.limits.emergency > 0
              /\ view = {} \/ \E d \in view : d < mon.limits.emergency

CloseStops == <>[]Obstructed => []<>(mon.state = "ESTOP")

(* A warning does not outlast the obstacle, although the update without a scan clears   *)
(* the violation that it reported.                                                     *)
WarningEnds == <>[](mon.enabled /\ Band(view, mon.limits) = "clear") => <>[](mon.state # "WARNING")
======================================================================================
