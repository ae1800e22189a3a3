------------------------------ MODULE GraduatedResponse ------------------------------
(* graduated_response_system.c driven by the detector: the level of the response follows *)
(* the level of the system, upwards after a transition, downwards after a minimum stay.   *)
EXTENDS CriticalModules

CONSTANTS Delay,     \* transition_timeout_ms, in ticks
          MinStay,   \* min_time_in_level
          Requests,  \* the levels that set_level is called with
          MaxCalls   \* bound of the calls that only tests make: set_level, handle_recovery,
                     \* stop and deinit

ASSUME ResponseAssumption ==
  Delay \in Nat /\ MinStay \in Nat /\ MaxCalls \in Nat /\ Requests \subseteq Levels

VARIABLES resp,   \* g_response_status with its two flags
          calls   \* the calls from outside so far

vars == <<det, mods, cond, linked, resp, calls>>

AtRest == [mode |-> "off", level |-> NORMAL, moving |-> FALSE, target |-> NORMAL,
           waited |-> 0, stayed |-> 0]

Init == DetectorInit /\ resp = AtRest /\ calls = 0
--------------------------------------------------------------------------------------
(* graduated_response_init, start, stop and deinit                                    *)
InitResponse == /\ resp.mode = "off" /\ resp' = [AtRest EXCEPT !.mode = "ready"]
                /\ UNCHANGED <<detVars, calls>>

SetResponseMode(from, to) == /\ resp.mode \in from /\ resp' = [resp EXCEPT !.mode = to]
                             /\ UNCHANGED detVars

StartResponse  == SetResponseMode({"ready"}, "active") /\ UNCHANGED calls
StopResponse   == SetResponseMode({"active"}, "ready")
DeinitResponse == SetResponseMode({"ready", "active"}, "off")

(* graduated_response_set_level; the current level as the new one is a no-op, also while *)
(* a transition to another is under way                                                *)
LevelSet(r, new) == IF new = r.level THEN r
                    ELSE [r EXCEPT !.moving = TRUE, !.target = new, !.waited = 0]

(* The end of a transition in graduated_response_update                                *)
Settled(r) == IF r.moving /\ r.waited >= Delay
              THEN [r EXCEPT !.moving = FALSE, !.level = r.target, !.waited = 0, !.stayed = 0]
              ELSE r

(* graduated_response_handle_auto_recovery                                             *)
FollowedDown(r, system) ==
  IF system < r.level /\ r.stayed >= MinStay THEN LevelSet(r, system) ELSE r

FollowedAtOnce(r, system) == LevelSet(r, system)

Followed(r, system) ==
  IF system < r.level /\ r.stayed < MinStay THEN r ELSE LevelSet(r, system)

Update == LET r == Settled(resp)
          IN  /\ resp.mode = "active"
              /\ resp' = IF r.moving THEN r ELSE Followed(r, Determined(det, mods))
              /\ UNCHANGED <<detVars, calls>>

SetLevel == /\ resp.mode # "off"
            /\ \E l \in Requests : resp' = LevelSet(resp, l)
            /\ UNCHANGED detVars

Recover == (\E m \in Modules : HandleRecovery(m)) /\ UNCHANGED resp

Outside == /\ calls < MaxCalls /\ calls' = calls + 1
           /\ \/ SetLevel \/ Recover \/ StopResponse \/ DeinitResponse
              \/ (StopDetector \/ DeinitDetector \/ Unlink) /\ UNCHANGED resp

(* Time passes for the modules and the response alike, up to the bounds                 *)
Capped(t, bound) == IF t < bound THEN t + 1 ELSE t

Tick == /\ mods' = Older(mods)
        /\ resp' = [resp EXCEPT !.waited = IF resp.moving THEN Capped(@, Delay) ELSE @,
                          !.stayed = Capped(@, MinStay)]
        /\ UNCHANGED <<det, cond, linked, calls>>

Detector == Check \/ InitDetector \/ StartDetector \/ Link \/ Change

Next == \/ Detector /\ UNCHANGED <<resp, calls>>
        \/ InitResponse \/ StartResponse \/ Update \/ Outside \/ Tick

Spec == Init /\ [][Next]_vars

(* The safety monitor's update checks the modules, the response is updated, time passes  *)
FairSpec == /\ Spec /\ WF_vars(Tick) /\ WF_vars(Update)
            /\ WF_vars(Check /\ UNCHANGED <<resp, calls>>)
--------------------------------------------------------------------------------------
(* The detector and the response keep their types.                                     *)
TypeOK == /\ DetectorTypeOK
          /\ resp \in [mode : {"off", "ready", "active"}, level : Levels, moving : BOOLEAN,
                       target : Levels, waited : 0 .. Delay, stayed : 0 .. MinStay]
          /\ calls \in 0 .. MaxCalls

(* A module is recorded as offline exactly while its health says so, and only after it    *)
(* has not been seen for longer than its timeout, whatever recoveries were declared.      *)
OfflineIsUnseen == \A m \in Modules :
  /\ mods[m].offline <=> mods[m].health = "OFFLINE"
  /\ mods[m].offline => mods[m].unseen > Config[m].offline

(* A critical module that its configuration lets raise the level to the top. (The code      *)
(* raises it there for every critical module, also for one with a lower max_level.)       *)
Vital(m) == Config[m].critical /\ Config[m].max_level = EMERGENCY

(* While a module without which the vehicle must not run is failed or offline, the level   *)
(* of the system is EMERGENCY: no recovery of another module hides it.                    *)
LossIsEmergency == (\E m \in Modules : Vital(m) /\ Down(mods[m])) => det.level = EMERGENCY

(* Without a call from outside, the response comes down only after the minimum stay,       *)
(* however often the system's level changed during the transition.                        *)
SlowDescent == [][calls = 0 /\ resp'.level < resp.level /\ resp'.mode = "active"
                    => resp.stayed >= MinStay]_vars

(* The loss of such a module reaches the response and keeps it at EMERGENCY.                *)
LossReachesResponse ==
  \A m \in Modules : Vital(m) =>
    (<>[](det.mode = "active" /\ resp.mode = "active" /\ cond[m] \in {"silent", "fault"})
       => <>[](resp.level = EMERGENCY))
======================================================================================
