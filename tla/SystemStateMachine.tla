---------------------------- MODULE SystemStateMachine ----------------------------
(* system_state_machine.c driven by one caller at a time: every public function  *)
(* is one action.  The E-Stop input and the safety monitor's verdict are         *)
(* environment variables that change freely between calls (EStop and             *)
(* SafetyMonitor say how they really change).                                    *)
EXTENDS SystemStates

CONSTANT Raised   \* the events that callers hand to process_event

ASSUME RaisedAssumption == Raised \subseteq Events

VARIABLES sm,           \* g_state_machine
          estop,        \* hal_estop_is_triggered
          monitorSafe,  \* safety_monitor_is_safe, FALSE when it returns an error
          fresh         \* history: a target was granted since the last entry to MOVE

vars == <<sm, estop, monitorSafe, fresh>>

Motion      == {"MOVE", "DOCK"}
Operational == {"IDLE", "MOVE", "DOCK", "PAUSED"}

(* The history variable follows the machine: an entry to MOVE uses the target up.*)
Spend(m, n) == fresh /\ ~(n.current_state = "MOVE" /\ m.current_state # "MOVE")

Becomes(next) == \E n \in {next} : sm' = n /\ fresh' = Spend(sm, n)

Init == /\ sm = Zeroed
        /\ estop = FALSE
        /\ monitorSafe \in BOOLEAN
        /\ fresh = FALSE

SystemInit == Becomes(Booted) /\ UNCHANGED <<estop, monitorSafe>>

Deinit == sm.initialized /\ Becomes(Zeroed) /\ UNCHANGED <<estop, monitorSafe>>

(* process_event, and the enter_* wrappers that only choose the event.           *)
Process(e) == /\ sm.initialized
              /\ Becomes(ProcessEvent(sm, e, estop))
              /\ UNCHANGED <<estop, monitorSafe>>

ResumeFromPause == sm.current_state = "PAUSED" /\ Process("RESUME_COMMAND")

TriggerFault(f) ==
  /\ sm.initialized
  /\ Becomes(ProcessEvent([sm EXCEPT !.current_fault = f], "FAULT_DETECTED", estop))
  /\ UNCHANGED <<estop, monitorSafe>>

ClearFault ==
  /\ sm.initialized
  /\ Becomes(ProcessEvent([sm EXCEPT !.current_fault = NoFault], "FAULT_CLEARED", estop))
  /\ UNCHANGED <<estop, monitorSafe>>

SetLocationOk(ok) == /\ sm.initialized
                     /\ sm' = [sm EXCEPT !.location_ok = ok]
                     /\ UNCHANGED <<estop, monitorSafe, fresh>>

SetTargetValid(valid) == /\ sm.initialized
                         /\ sm' = [sm EXCEPT !.target_valid = valid]
                         /\ fresh' = valid
                         /\ UNCHANGED <<estop, monitorSafe>>

(* system_state_machine_update: refresh the flags, then the state's timeout,     *)
(* then the E-Stop input.  hal_estop_update, which runs first, is a change of    *)
(* estop just before this action.                                                *)
UpdateElseEstop ==
  /\ sm.initialized
  /\ \E checked \in {CheckStatus(sm, monitorSafe)} :
        Becomes(IF Expired(sm) THEN ProcessEvent(checked, "TIMEOUT", estop)
                ELSE IF estop THEN ProcessEvent(checked, "ESTOP_TRIGGERED", estop) ELSE checked)
  /\ UNCHANGED <<estop, monitorSafe>>

Update ==
  /\ sm.initialized
  /\ \E checked \in {CheckStatus(sm, monitorSafe)} :
     \E timed \in {IF Expired(sm) THEN ProcessEvent(checked, "TIMEOUT", estop) ELSE checked} :
     \E done \in {IF estop THEN ProcessEvent(timed, "ESTOP_TRIGGERED", estop) ELSE timed} :
        Becomes(done)
  /\ UNCHANGED <<estop, monitorSafe>>

EStopInput  == estop' \in BOOLEAN /\ UNCHANGED <<sm, monitorSafe, fresh>>
MonitorInput == monitorSafe' \in BOOLEAN /\ UNCHANGED <<sm, estop, fresh>>

Tick == /\ sm.initialized /\ sm.age < MaxAge
        /\ sm' = [sm EXCEPT !.age = @ + 1]
        /\ UNCHANGED <<estop, monitorSafe, fresh>>

Next == \/ SystemInit \/ Deinit \/ ResumeFromPause \/ ClearFault \/ Update
        \/ \E e \in Raised : Process(e)
        \/ \E f \in Faults : TriggerFault(f)
        \/ \E b \in BOOLEAN : SetLocationOk(b) \/ SetTargetValid(b)
        \/ EStopInput \/ MonitorInput \/ Tick

Spec == Init /\ [][Next]_vars
-----------------------------------------------------------------------------------
(* Every variable stays within its type.                                         *)
TypeOK == /\ sm \in Machine
          /\ estop \in BOOLEAN
          /\ monitorSafe \in BOOLEAN
          /\ fresh \in BOOLEAN

(* system_ready, the flag the status API reports, is true exactly in the states  *)
(* that accept drive commands, along every path through enter_state.             *)
ReadyMatchesState ==
  sm.initialized => (sm.system_ready <=> sm.current_state \in Operational)

(* The recovery state never holds an active fault: the verification is made on   *)
(* the way in only, and stays true until the state is left, whatever faults,     *)
(* timeouts and emergencies are raised meanwhile.                                *)
SafeHasNoFault == sm.current_state = "SAFE" => sm.current_fault = NoFault

(* The pair of states the status API reports is always a move of the table, also *)
(* after an update that made two transitions.                                    *)
HistoryIsTable == \/ <<sm.previous_state, sm.current_state>> \in Edges
                  \/ sm = Zeroed
                  \/ sm.previous_state = "BOOT" /\ sm.current_state = "BOOT"

(* A target that still counts as valid was granted after the last entry to MOVE: *)
(* none survives the state it was granted for, except into PAUSED.               *)
TargetIsFresh == sm.target_valid => fresh

(* Every movement that begins, from standby or from docking, consumes a target   *)
(* of its own, so that no grant of set_target_valid starts two movements,        *)
(* whatever lies between them.  Taking up a paused movement again is not a new   *)
(* one, and is left free.                                                        *)
OneMovePerTarget ==
  [][sm'.current_state = "MOVE" /\ sm.current_state \notin {"MOVE", "PAUSED"} => fresh]_vars

(* What the code makes of a resume: it needs a target granted since the movement *)
(* began, because the entry to MOVE used up the one it had.  The tests resume    *)
(* the same movement without one, and are refused.                               *)
ResumeNeedsTarget ==
  [][sm'.current_state = "MOVE" /\ sm.current_state = "PAUSED" => fresh]_vars

(* E-Stop is latched: no timeout, stop, move or dock command leaves it, only a   *)
(* reset, a fault, a shutdown or a new init.                                     *)
EstopLatched ==
  [][sm.current_state = "ESTOP" /\ sm'.current_state # "ESTOP" =>
       \/ sm' \in {Booted, Zeroed}
       \/ /\ sm'.last_event \in {"ESTOP_RESET", "FAULT_DETECTED", "SHUTDOWN", "SAFE_RESET"}
          /\ sm'.current_state \in {"IDLE", "FAULT", "SHUTDOWN", "SAFE"}]_vars

(* An update that finds the E-Stop pressed never leaves the machine driving, nor *)
(* ready to: it ends in ESTOP, or stays in one of the two states without an      *)
(* ESTOP_TRIGGERED row.                                                          *)
UpdateObeysEstop ==
  [][Update /\ estop => sm'.current_state \in {"ESTOP", "SAFE", "SHUTDOWN"}]_vars

(* What the code makes of SAFE's own reset: it never fires, since it asks for    *)
(* the system_ready that the entry cleared, and only a fault, an init or a       *)
(* deinit leaves the state.  The table and the tests mean the reset to lead to   *)
(* IDLE.                                                                         *)
SafeOnlyFaults ==
  [][sm.current_state = "SAFE" =>
       sm'.current_state \in {"SAFE", "FAULT"} \/ sm' \in {Booted, Zeroed}]_vars
-----------------------------------------------------------------------------------
(* The refinement mapping to DriveSafety.                                        *)
Phase(m) == IF ~m.initialized \/ m.current_state = "SHUTDOWN" THEN "off"
            ELSE IF m.current_state \in {"BOOT", "INIT"} THEN "starting"
            ELSE IF m.current_state \in {"ESTOP", "FAULT", "SAFE"} THEN "halted"
            ELSE IF m.current_state \in Motion THEN "motion" ELSE "standby"

Drive == INSTANCE DriveSafety WITH
           DriveOrders      <- {"MOVE_COMMAND", "DOCK_COMMAND", "RESUME_COMMAND"},
           Acknowledgements <- {"ESTOP_RESET", "FAULT_CLEARED", "SAFE_RESET"},
           Alarms           <- {"ESTOP_TRIGGERED", "FAULT_DETECTED", "CONFIG_FAILED"},
           phase            <- Phase(sm),
           order            <- sm.last_event

(* The machine implements DriveSafety: no path of calls, timeouts and updates    *)
(* takes a halted vehicle to motion without an acknowledgement and then an order,*)
(* or an unstarted one to motion at all.                                         *)
DriveIsSafe == Drive!SafetySpec
===================================================================================
