------------------------------- MODULE SystemStates -------------------------------
(* The pure part of app/core/system_state_machine.c: the states, the events, the *)
(* transition table with its conditions, what entering a state does to the       *)
(* machine's flags, and system_state_machine_process_event as a function from    *)
(* one machine record to the next.  SystemStateMachine wraps these operators in  *)
(* atomic operations; SafetyChain interleaves the pieces of process_event.       *)
EXTENDS Naturals

CONSTANTS Faults,    \* the members of system_fault_t other than SYSTEM_FAULT_NONE
          NoFault,   \* SYSTEM_FAULT_NONE
          Timeout,   \* default_state_timeouts_ms, in ticks; 0 is "no timeout"
          MaxAge     \* the age at which a model's clock stops counting

States == {"INIT", "IDLE", "MOVE", "DOCK", "FAULT", "ESTOP", "SHUTDOWN",
           "BOOT", "PAUSED", "CONFIG", "SAFE"}

Events == {"INIT_COMPLETE", "MOVE_COMMAND", "DOCK_COMMAND", "STOP_COMMAND",
           "ESTOP_TRIGGERED", "FAULT_DETECTED", "FAULT_CLEARED", "ESTOP_RESET",
           "SHUTDOWN", "TIMEOUT", "ERROR", "BOOT_COMPLETE", "PAUSE_COMMAND",
           "RESUME_COMMAND", "CONFIG_COMMAND", "CONFIG_COMPLETE",
           "CONFIG_FAILED", "SAFE_RESET"}

ASSUME FaultAssumption   == NoFault \notin Faults
ASSUME TimeoutAssumption == Timeout \in [States -> Nat]
ASSUME AgeAssumption     == MaxAge \in Nat /\ \A s \in States : Timeout[s] < MaxAge

Machine == [initialized      : BOOLEAN,
            current_state    : States,
            previous_state   : States,
            last_event       : Events \cup {"NONE"},
            current_fault    : Faults \cup {NoFault},
            age              : 0 .. MaxAge,       \* now - state_entry_time
            system_ready     : BOOLEAN,
            safety_ok        : BOOLEAN,
            communication_ok : BOOLEAN,
            sensors_ok       : BOOLEAN,
            location_ok      : BOOLEAN,
            target_valid     : BOOLEAN]

(* <<from_state, event, to_state, condition>>.  No two rows share a state and    *)
(* an event, so the first match of the code's scan is the only one.  The         *)
(* SHUTDOWN row for SYSTEM_EVENT_NONE is left out: process_event refuses NONE.   *)
Transitions ==
  { <<"INIT",   "INIT_COMPLETE",   "IDLE",     "always">>,
    <<"INIT",   "ESTOP_TRIGGERED", "ESTOP",    "always">>,
    <<"INIT",   "FAULT_DETECTED",  "FAULT",    "always">>,
    <<"IDLE",   "MOVE_COMMAND",    "MOVE",     "move_ready">>,
    <<"IDLE",   "DOCK_COMMAND",    "DOCK",     "safety_ok">>,
    <<"IDLE",   "ESTOP_TRIGGERED", "ESTOP",    "always">>,
    <<"IDLE",   "FAULT_DETECTED",  "FAULT",    "always">>,
    <<"IDLE",   "SHUTDOWN",        "SHUTDOWN", "always">>,
    <<"IDLE",   "CONFIG_COMMAND",  "CONFIG",   "safety_ok">>,
    <<"MOVE",   "STOP_COMMAND",    "IDLE",     "always">>,
    <<"MOVE",   "DOCK_COMMAND",    "DOCK",     "safety_ok">>,
    <<"MOVE",   "ESTOP_TRIGGERED", "ESTOP",    "always">>,
    <<"MOVE",   "FAULT_DETECTED",  "FAULT",    "always">>,
    <<"MOVE",   "TIMEOUT",         "IDLE",     "always">>,
    <<"MOVE",   "PAUSE_COMMAND",   "PAUSED",   "always">>,
    <<"DOCK",   "STOP_COMMAND",    "IDLE",     "always">>,
    <<"DOCK",   "MOVE_COMMAND",    "MOVE",     "move_ready">>,
    <<"DOCK",   "ESTOP_TRIGGERED", "ESTOP",    "always">>,
    <<"DOCK",   "FAULT_DETECTED",  "FAULT",    "always">>,
    <<"DOCK",   "TIMEOUT",         "IDLE",     "always">>,
    <<"FAULT",  "FAULT_CLEARED",   "IDLE",     "always">>,
    <<"FAULT",  "ESTOP_TRIGGERED", "ESTOP",    "always">>,
    <<"FAULT",  "SHUTDOWN",        "SHUTDOWN", "always">>,
    <<"FAULT",  "SAFE_RESET",      "SAFE",     "safety_verified">>,
    <<"ESTOP",  "ESTOP_RESET",     "IDLE",     "no_fault">>,
    <<"ESTOP",  "FAULT_DETECTED",  "FAULT",    "always">>,
    <<"ESTOP",  "SHUTDOWN",        "SHUTDOWN", "always">>,
    <<"ESTOP",  "SAFE_RESET",      "SAFE",     "safety_verified">>,
    <<"BOOT",   "BOOT_COMPLETE",   "INIT",     "always">>,
    <<"BOOT",   "ESTOP_TRIGGERED", "ESTOP",    "always">>,
    <<"BOOT",   "FAULT_DETECTED",  "FAULT",    "always">>,
    <<"PAUSED", "RESUME_COMMAND",  "MOVE",     "move_ready">>,
    <<"PAUSED", "STOP_COMMAND",    "IDLE",     "always">>,
    <<"PAUSED", "ESTOP_TRIGGERED", "ESTOP",    "always">>,
    <<"PAUSED", "FAULT_DETECTED",  "FAULT",    "always">>,
    <<"PAUSED", "TIMEOUT",         "IDLE",     "always">>,
    <<"CONFIG", "CONFIG_COMPLETE", "IDLE",     "always">>,
    <<"CONFIG", "CONFIG_FAILED",   "FAULT",    "always">>,
    <<"CONFIG", "ESTOP_TRIGGERED", "ESTOP",    "always">>,
    <<"CONFIG", "TIMEOUT",         "IDLE",     "always">>,
    <<"SAFE",   "SAFE_RESET",      "IDLE",     "system_ready">>,
    <<"SAFE",   "FAULT_DETECTED",  "FAULT",    "always">> }

(* The transition_condition_* functions; estop is what hal_estop_is_triggered    *)
(* answers at that moment.                                                       *)
SystemReady(m) == /\ m.system_ready /\ m.safety_ok
                  /\ m.communication_ok /\ m.sensors_ok
                  /\ m.current_fault = NoFault

MoveReady(m) == m.safety_ok /\ m.location_ok /\ m.target_valid

SafetyVerified(m, estop) == /\ m.safety_ok /\ m.communication_ok /\ m.sensors_ok
                            /\ ~estop
                            /\ m.current_fault = NoFault

Holds(condition, m, estop) ==
  CASE condition = "always"          -> TRUE
    [] condition = "safety_ok"       -> m.safety_ok
    [] condition = "no_fault"        -> m.current_fault = NoFault
    [] condition = "move_ready"      -> MoveReady(m)
    [] condition = "system_ready"    -> SystemReady(m)
    [] condition = "safety_verified" -> SafetyVerified(m, estop)

(* The scan of the table in process_event: the rows that fire, and the state the *)
(* machine will take (its own state when no row fires).                          *)
RowsFrom(table) == [s \in States |-> { t \in table : t[1] = s }]

RowsStopInEstop     == RowsFrom(Transitions \cup {<<"ESTOP", "STOP_COMMAND", "IDLE", "always">>})
RowsTimeoutInEstop  == RowsFrom(Transitions \cup {<<"ESTOP", "TIMEOUT", "IDLE", "always">>})
RowsNoPauseTimeout  == RowsFrom(Transitions \ {<<"PAUSED", "TIMEOUT", "IDLE", "always">>})
RowsNoFaultInSafe   == RowsFrom(Transitions \ {<<"SAFE", "FAULT_DETECTED", "FAULT", "always">>})

Rows == RowsFrom(Transitions)

Firing(m, e, estop) ==
  { t \in Rows[m.current_state] : t[2] = e /\ Holds(t[4], m, estop) }

NextState(m, e, estop) ==
  IF Firing(m, e, estop) = {} THEN m.current_state
                              ELSE (CHOOSE t \in Firing(m, e, estop) : TRUE)[3]

(* The assignments of process_event once a row fired, before enter_state.        *)
CommitWrongField(m, new) == [m EXCEPT !.previous_state = m.last_event,
                                      !.current_state = new, !.age = 0]
Commit(m, new) == [m EXCEPT !.previous_state = m.current_state,
                            !.current_state  = new,
                            !.age            = 0]

(* enter_state: what the new state does to each flag.                            *)
ReadyAfter(s, ready) ==
  s = "IDLE" \/ (s \in {"MOVE", "DOCK", "PAUSED"} /\ ready)

TargetKeptInMotion(s, target) == s \in {"PAUSED", "MOVE", "DOCK"} /\ target
TargetAfter(s, target)        == s = "PAUSED" /\ target

Enter(m, s) ==
  [m EXCEPT !.system_ready     = ReadyAfter(s, @),
            !.safety_ok        = \/ s \in {"IDLE", "SAFE"}
                                 \/ s \notin {"INIT", "BOOT", "ESTOP"} /\ @,
            !.communication_ok = s \notin {"INIT", "BOOT"} /\ @,
            !.sensors_ok       = s \notin {"INIT", "BOOT"} /\ @,
            !.location_ok      = s = "PAUSED" /\ @,
            !.target_valid     = TargetAfter(s, @)]

(* system_state_machine_process_event, run without interference.                 *)
ProcessEvent(m, e, estop) ==
  LET heard == [m EXCEPT !.last_event = e]
      new   == NextState(m, e, estop)
  IN  IF new = m.current_state THEN heard ELSE Enter(Commit(heard, new), new)

(* check_safety_status, check_communication_status and check_sensor_status.      *)
CheckStatus(m, monitorSafe) ==
  [m EXCEPT !.safety_ok        = monitorSafe,
            !.communication_ok = TRUE,
            !.sensors_ok       = TRUE,
            !.location_ok      = TRUE]

(* The timeout test of system_state_machine_update.                              *)
Expired(m) == Timeout[m.current_state] > 0 /\ m.age > Timeout[m.current_state]

(* g_state_machine before the first init and after deinit: all bytes zero, and   *)
(* SYSTEM_STATE_INIT is 0.                                                       *)
Zeroed == [initialized |-> FALSE, current_state |-> "INIT", previous_state |-> "INIT",
           last_event |-> "NONE", current_fault |-> NoFault, age |-> 0,
           system_ready |-> FALSE, safety_ok |-> FALSE, communication_ok |-> FALSE,
           sensors_ok |-> FALSE, location_ok |-> FALSE, target_valid |-> FALSE]

(* What system_state_machine_init leaves, also when it returns the error of      *)
(* hal_estop_init or hal_led_init.                                               *)
Booted == [Zeroed EXCEPT !.initialized    = TRUE,
                         !.current_state  = "BOOT",
                         !.previous_state = "BOOT"]

(* system_state_machine_validate_transition: the pairs the table connects.       *)
Edges == { <<t[1], t[3]>> : t \in Transitions }
===================================================================================
