-------------------------------- MODULE SafetyManager --------------------------------
(* safety_manager.c on top of hal_estop.c: estop_callback runs in whichever thread *)
(* latched the button, while main's safety_manager_update copies the latch it read  *)
(* a moment before into the same flag.  Nothing is locked.                          *)
EXTENDS EStop

CONSTANTS NoFault,   \* SAFETY_FAULT_NONE
          Faults,    \* the other values of safety_fault_t
          Calls      \* the public functions that some caller uses, of CallNames

CallNames == {"trigger_fault", "clear_fault", "trigger_interlock", "recovery"}

ASSUME CallsAssumption == NoFault \notin Faults /\ Calls \subseteq CallNames

VARIABLES mgr,    \* g_safety_manager: estop_triggered, level, status and current_fault
          pass    \* main's pass through safety_manager_update: where it is, what it read

vars == <<high, state, run, held, mgr, pass>>

Levels == {"NORMAL", "WARNING", "CRITICAL", "EMERGENCY"}

(* safety_manager_init                                                              *)
Init == /\ EstopInit
        /\ mgr = [estop_triggered |-> FALSE, level |-> "NORMAL", status |-> "OK", fault |-> NoFault]
        /\ pass = [step |-> "estop", latched |-> FALSE, level |-> "NORMAL"]

(* safety_manager_is_safe                                                           *)
IsSafe == mgr.level = "NORMAL" /\ ~mgr.estop_triggered /\ mgr.fault = NoFault

--------------------------------------------------------------------------------------
(* estop_callback, called by hal_estop_update or hal_estop_handle_emergency.         *)
CallbackTriggered == mgr' = IF mgr.estop_triggered THEN mgr
                            ELSE [mgr EXCEPT !.estop_triggered = TRUE, !.level = "EMERGENCY"]

(* The level is not lowered: the next update does that.                              *)
CallbackSafe == mgr' = [mgr EXCEPT !.estop_triggered = FALSE]

Notify(t) == /\ Notified(t)
             /\ IF run[t].to = "TRIGGERED" THEN CallbackTriggered ELSE CallbackSafe
             /\ UNCHANGED pass
--------------------------------------------------------------------------------------
(* main's loop: hal_estop_update within system_state_machine_update, then            *)
(* safety_manager_update, which may find that its interval has not elapsed.          *)
Continue(here, next) == pass.step = here /\ pass' = [pass EXCEPT !.step = next]

Begin == Continue("estop", "updating") /\ ReadPin("main") /\ UNCHANGED mgr

NotDue == /\ run["main"].step = "idle" /\ Continue("updating", "estop")
          /\ UNCHANGED <<estopVars, mgr>>

Due == /\ run["main"].step = "idle" /\ Continue("updating", "sample")
       /\ UNCHANGED <<estopVars, mgr>>

(* update_safety_status: hal_estop_get_state, then the copy.                         *)
Sample == /\ pass.step = "sample"
          /\ pass' = [pass EXCEPT !.step = "store", !.latched = (state = "TRIGGERED")]
          /\ UNCHANGED <<estopVars, mgr>>

StoreRelease == /\ Continue("store", "judge")
                /\ mgr' = [mgr EXCEPT !.estop_triggered = @ /\ pass.latched]
                /\ UNCHANGED estopVars

StoreLatch == /\ Continue("store", "judge")
              /\ mgr' = [mgr EXCEPT !.estop_triggered = @ \/ pass.latched]
              /\ UNCHANGED estopVars

Store == /\ Continue("store", "judge")
         /\ mgr' = [mgr EXCEPT !.estop_triggered = pass.latched]
         /\ UNCHANGED estopVars

(* check_safety_conditions: E-Stop, then the fault; the circuit and the sensors are   *)
(* always found in order.  The level is written after the flags were read.           *)
LevelDue ==
  IF mgr.estop_triggered THEN "EMERGENCY" ELSE IF mgr.fault # NoFault THEN "CRITICAL" ELSE "NORMAL"

Judge == /\ pass.step = "judge"
         /\ pass' = [pass EXCEPT !.step = "level", !.level = LevelDue]
         /\ UNCHANGED <<estopVars, mgr>>

WriteLevel == /\ Continue("level", "estop")
              /\ mgr' = [mgr EXCEPT !.level = pass.level]
              /\ UNCHANGED estopVars
--------------------------------------------------------------------------------------
(* The functions for the rest of the application: safety_manager_trigger_fault,      *)
(* clear_fault, trigger_interlock (FAULT_DETECTED raises the level and records no     *)
(* fault) and safety_recovery.                                                       *)
TriggerFault == /\ "trigger_fault" \in Calls
                /\ \E f \in Faults : mgr' = [mgr EXCEPT !.fault = f, !.level = "CRITICAL"]
ClearFault == "clear_fault" \in Calls /\ mgr' = [mgr EXCEPT !.fault = NoFault]
Interlock  == "trigger_interlock" \in Calls /\ mgr' = [mgr EXCEPT !.level = "CRITICAL"]
Recovery   == "recovery" \in Calls /\ mgr' = [mgr EXCEPT !.fault = NoFault, !.level = "NORMAL"]

Call == (TriggerFault \/ ClearFault \/ Interlock \/ Recovery) /\ UNCHANGED <<estopVars, pass>>
--------------------------------------------------------------------------------------
Main == \/ Begin \/ NotDue \/ Due \/ Sample \/ Store \/ Judge \/ WriteLevel
        \/ (Compare("main") \/ Latch("main")) /\ UNCHANGED <<mgr, pass>>
        \/ Notify("main")

Monitor == \/ Update("monitor") /\ UNCHANGED <<mgr, pass>>
           \/ Notify("monitor")

Operator == \/ Reset /\ UNCHANGED <<mgr, pass>>
            \/ Notify("operator")

Next == \/ Main \/ Monitor \/ Operator \/ Call
        \/ (ResetBegin \/ HandleEmergency \/ Button) /\ UNCHANGED <<mgr, pass>>

Spec == Init /\ [][Next]_vars

(* Both threads run on, a call that began returns, and the interval between checks,  *)
(* which is finite, elapses again and again.                                         *)
FairSpec == /\ Spec
            /\ WF_vars(Main) /\ SF_vars(Due)
            /\ WF_vars(Monitor) /\ WF_vars(Operator)
--------------------------------------------------------------------------------------
(* Every variable stays within its type.                                             *)
TypeOK == /\ EstopTypeOK
          /\ mgr \in [estop_triggered : BOOLEAN, level : Levels, status : {"OK"},
                      fault : Faults \cup {NoFault}]
          /\ pass \in [step : {"estop", "updating", "sample", "store", "judge", "level"},
                       latched : BOOLEAN, level : Levels]

(* From the pass that saw the latched button until a later pass sees it gone, the    *)
(* manager does not call the system safe, whatever callbacks, faults, interlocks and  *)
(* recoveries come between.                                                          *)
SeenLatchIsUnsafe ==
  ~AutoReset /\ pass.latched /\ pass.step # "store" => ~IsSafe

(* A latch that stays becomes known, also when no callback told of it (the button    *)
(* was pressed while a reset of the SAFE latch was waiting), and stays known.        *)
LatchBecomesKnown == <>[](state = "TRIGGERED") => <>[]~IsSafe

(* A latch that was reset is forgotten, although hal_estop_reset calls nobody back    *)
(* and a callback may come late.                                                     *)
ReleaseBecomesKnown == <>[](state = "SAFE") => <>[]~mgr.estop_triggered
======================================================================================
