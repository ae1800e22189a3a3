----------------------------------- MODULE EStop -----------------------------------
(* hal_estop.c: the latch of the emergency stop button.  hal_estop_update runs in *)
(* the monitor thread (every millisecond) and in main's loop; hal_estop_reset and *)
(* hal_estop_handle_emergency run in any caller.  They share estop_status without *)
(* a lock, so each is cut at its reads and writes of it and of the pin.           *)
EXTENDS Naturals

CONSTANTS AutoReset,   \* estop_config.auto_reset_enabled
          Unreliable   \* the pin cannot be read: fopen fails and reads as released, or
                       \* fscanf fails and val, never assigned, holds anything

ASSUME ConfigAssumption == AutoReset \in BOOLEAN /\ Unreliable \in BOOLEAN

VARIABLES high,   \* the pin's level: TRUE while the button is released (active low)
          state,  \* estop_status.state
          run,    \* for each thread, its call: where it is and what it read or decided
          held    \* history: the pin has been low since the reset under way armed

estopVars == <<high, state, run, held>>

EstopStates == {"SAFE", "TRIGGERED", "RESETTING"}
Updaters    == {"monitor", "main"}
Threads     == Updaters \cup {"operator"}

Waiting == [step |-> "idle", seen |-> TRUE, to |-> "SAFE"]

Go(t, next) == run' = [run EXCEPT ![t].step = next]
Return(t)   == run' = [run EXCEPT ![t] = Waiting]

EstopInit == /\ high \in BOOLEAN
             /\ state = "SAFE"
             /\ run = [t \in Threads |-> Waiting]
             /\ held = FALSE

(* gpio_get_value                                                                *)
Reads(value) == value \in BOOLEAN /\ (Unreliable \/ value = high)
------------------------------------------------------------------------------------
(* hal_estop_update, in thread t: read the pin, compare with the state, write the *)
(* state, call estop_callback.                                                    *)
ReadPin(t) == /\ run[t].step = "idle"
              /\ \E value \in BOOLEAN :
                   /\ Reads(value)
                   /\ run' = [run EXCEPT ![t] = [step |-> "compare", seen |-> value, to |-> "SAFE"]]
              /\ UNCHANGED <<high, state, held>>

Compare(t) ==
  /\ run[t].step = "compare"
  /\ \/ /\ ~run[t].seen /\ state = "SAFE"
        /\ run' = [run EXCEPT ![t].step = "latch", ![t].to = "TRIGGERED"]
     \/ /\ run[t].seen /\ state = "TRIGGERED" /\ AutoReset
        /\ run' = [run EXCEPT ![t].step = "latch", ![t].to = "SAFE"]
     \/ /\ IF run[t].seen THEN state # "TRIGGERED" \/ ~AutoReset ELSE state # "SAFE"
        /\ Return(t)
  /\ UNCHANGED <<high, state, held>>

Latch(t) == /\ run[t].step = "latch"
            /\ state' = run[t].to
            /\ Go(t, "notify")
            /\ UNCHANGED <<high, held>>

(* The call of estop_callback returns; what it did is the callback's business.    *)
Notified(t) == /\ run[t].step = "notify"
               /\ Return(t)
               /\ UNCHANGED <<high, state, held>>

Update(t) == ReadPin(t) \/ Compare(t) \/ Latch(t)
------------------------------------------------------------------------------------
(* hal_estop_reset: the state is not looked at.  The pin must read released before *)
(* RESETTING is written and again after the debounce time; nothing calls back.    *)
ResetBegin == /\ run["operator"].step = "idle"
              /\ Reads(TRUE)
              /\ Go("operator", "arm")
              /\ UNCHANGED <<high, state, held>>

ResetArm == /\ run["operator"].step = "arm"
            /\ state' = "RESETTING"
            /\ held' = ~high
            /\ Go("operator", "debounce")
            /\ UNCHANGED high

ResetNoRecheck ==
  /\ run["operator"].step = "debounce"
  /\ run' = [run EXCEPT !["operator"].step = "settle", !["operator"].to = "SAFE"]
  /\ UNCHANGED <<high, state, held>>

ResetRecheck ==
  /\ run["operator"].step = "debounce"
  /\ \E value \in BOOLEAN :
       /\ Reads(value)
       /\ run' = [run EXCEPT !["operator"].step = "settle",
                             !["operator"].to   = IF value THEN "SAFE" ELSE "TRIGGERED"]
  /\ UNCHANGED <<high, state, held>>

ResetSettleOnlySafe ==
  /\ run["operator"].step = "settle"
  /\ state' = IF run["operator"].to = "SAFE" THEN "SAFE" ELSE "RESETTING"
  /\ Return("operator")
  /\ UNCHANGED <<high, held>>

ResetSettle == /\ run["operator"].step = "settle"
               /\ state' = run["operator"].to
               /\ Return("operator")
               /\ UNCHANGED <<high, held>>

Reset == ResetArm \/ ResetRecheck \/ ResetSettle

(* hal_estop_handle_emergency: the write, then the callback.                      *)
HandleEmergency == /\ run["operator"].step = "idle"
                   /\ state' = "TRIGGERED"
                   /\ run' = [run EXCEPT !["operator"].step = "notify",
                                         !["operator"].to   = "TRIGGERED"]
                   /\ UNCHANGED <<high, held>>

(* The button is pressed or released.                                             *)
Button == /\ high' = ~high
          /\ held' = (held /\ ~high')
          /\ UNCHANGED <<state, run>>

EstopSteps == \/ \E t \in Updaters : Update(t)
              \/ Reset \/ ResetBegin \/ HandleEmergency \/ Button

EstopNext == EstopSteps \/ \E t \in Threads : Notified(t)

EstopSpec == EstopInit /\ [][EstopNext]_estopVars
------------------------------------------------------------------------------------
(* Every variable stays within its type.                                          *)
EstopTypeOK ==
  /\ high \in BOOLEAN /\ held \in BOOLEAN
  /\ state \in EstopStates
  /\ run \in [Threads -> [step : {"idle", "compare", "latch", "notify", "arm", "debounce", "settle"},
                          seen : BOOLEAN, to : {"SAFE", "TRIGGERED"}]]

(* A button that was pressed when a reset armed, and stayed pressed through the   *)
(* debounce, is not reset to SAFE.                                                *)
ResetKeepsHeldButton == [][ResetSettle /\ held => state' # "SAFE"]_estopVars

(* A button held down is latched for good, whatever resets, auto-resets and       *)
(* readings of an earlier level are under way.                                    *)
HeldButtonLatches == <>[]~high => <>[](state = "TRIGGERED")
====================================================================================
