------------------------------- MODULE CriticalModules -------------------------------
(* critical_module_detector.c over safety_rs485_integration.c: each configured module  *)
(* is read in turn; from what it answers, or for how long it did not, follow its health, *)
(* its response level, at most one safety action, and the level of the whole system.     *)
(* Time is counted in periods of the check (100 ms).                                    *)
EXTENDS Integers

CONSTANTS Modules,     \* the addresses in g_module_configs
          Config,      \* for each: critical, offline, failure, threshold, log_only, and
                       \* max_level, which nothing reads
          Conditions,  \* what each module may do, of Answers
          MaxUnseen    \* bound of the time a module has not been seen

Answers == {"well", "slow", "warning", "critical", "fault", "silent"}

ASSUME DetectorAssumption ==
  /\ Config \in [Modules -> [critical : BOOLEAN, offline : Nat, failure : Nat,
                             threshold : Nat, log_only : BOOLEAN, max_level : 0 .. 4]]
  /\ Conditions \in [Modules -> SUBSET Answers]
  /\ MaxUnseen \in Nat
  /\ \A m \in Modules : Config[m].offline < MaxUnseen /\ Config[m].failure <= MaxUnseen

VARIABLES det,     \* the detector: off, ready or active, its counters, the overall level
          mods,    \* g_module_assessments
          cond,    \* how each module answers
          linked   \* g_safety_rs485_initialized

detVars == <<det, mods, cond, linked>>

(* safety_response_level_t                                                            *)
NORMAL == 0    MONITORING == 1    WARNING == 2    CRITICAL == 3    EMERGENCY == 4
Levels == NORMAL .. EMERGENCY

Healths == {"UNKNOWN", "HEALTHY", "DEGRADED", "FAILING", "FAILED", "OFFLINE"}

Unassessed == [health |-> "UNKNOWN", level |-> NORMAL, failures |-> 0, unseen |-> 0,
               offline |-> FALSE, acted |-> FALSE]

DetectorInit == /\ det = [mode |-> "off", degraded |-> FALSE, failed |-> FALSE,
                          lost |-> FALSE, level |-> NORMAL]
                /\ mods = [m \in Modules |-> Unassessed]
                /\ cond \in {f \in [Modules -> Answers] : \A m \in Modules : f[m] \in Conditions[m]}
                /\ linked = FALSE
--------------------------------------------------------------------------------------
(* critical_module_detector_init, start, stop and deinit: only init clears            *)
InitDetector == /\ det.mode = "off"
                /\ det' = [mode |-> "ready", degraded |-> FALSE, failed |-> FALSE,
                           lost |-> FALSE, level |-> NORMAL]
                /\ mods' = [m \in Modules |-> Unassessed]
                /\ UNCHANGED <<cond, linked>>

SetMode(from, to) == /\ det.mode \in from /\ det' = [det EXCEPT !.mode = to]
                     /\ UNCHANGED <<mods, cond, linked>>

StartDetector  == SetMode({"ready"}, "active")
StopDetector   == SetMode({"active"}, "ready")
DeinitDetector == SetMode({"ready", "active"}, "off")

(* safety_rs485_init and deinit                                                       *)
Link   == ~linked /\ linked' = TRUE /\ UNCHANGED <<det, mods, cond>>
Unlink == linked /\ linked' = FALSE /\ UNCHANGED <<det, mods, cond>>

(* critical_module_check_single_module: an answer is judged by the status in it; a      *)
(* module that is well but slow, or that often failed before, is only watched closer.   *)
(* The mark of the safety action stays.                                               *)
Judgement(c) == CASE c = "fault"    -> [health |-> "FAILED",   level |-> EMERGENCY]
                  [] c = "critical" -> [health |-> "FAILING",  level |-> CRITICAL]
                  [] c = "warning"  -> [health |-> "DEGRADED", level |-> WARNING]
                  [] c = "slow"     -> [health |-> "DEGRADED", level |-> MONITORING]
                  [] OTHER          -> [health |-> "HEALTHY",  level |-> NORMAL]

SeenKeepsOffline(a, c) ==
  [a EXCEPT !.failures = 0, !.unseen = 0,
            !.health = Judgement(c).health, !.level = Judgement(c).level]

Seen(a, c) == [a EXCEPT !.failures = 0, !.unseen = 0, !.offline = FALSE,
                        !.health = Judgement(c).health, !.level = Judgement(c).level]

(* A module that does not answer is offline once its timeout has passed. The failures   *)
(* are counted up to the threshold that they are compared with.                         *)
Missed(a, m) ==
  LET missed == [a EXCEPT !.failures = IF @ < Config[m].threshold THEN @ + 1 ELSE @]
  IN  IF a.unseen > Config[m].offline /\ ~a.offline
      THEN [missed EXCEPT !.offline = TRUE, !.health = "OFFLINE", !.level = WARNING]
      ELSE missed

(* critical_module_check_all_modules asks for the action once; unless it only logs, it   *)
(* fails without the RS485 integration, and is asked for again by the next check         *)
ActionDue(a, m) == a.failures >= Config[m].threshold /\ a.unseen >= Config[m].failure

Acted(a, m) == [a EXCEPT !.acted = @ \/ (ActionDue(a, m) /\ (linked \/ Config[m].log_only))]

Checked(m) == LET a == IF linked /\ cond[m] # "silent" THEN Seen(mods[m], cond[m])
                                                       ELSE Missed(mods[m], m)
              IN  Acted(a, m)

(* critical_module_determine_response_level, from the counters of the last check         *)
Highest(judged, from) ==
  IF \E m \in Modules : judged[m].level = EMERGENCY THEN EMERGENCY
  ELSE CHOOSE l \in from .. CRITICAL :
         /\ \A m \in Modules : judged[m].level <= l
         /\ l = from \/ \E m \in Modules : judged[m].level = l

Determined(d, judged) ==
  CASE d.lost -> EMERGENCY
    [] ~d.lost /\ d.failed -> Highest(judged, CRITICAL)
    [] ~d.lost /\ ~d.failed /\ d.degraded -> Highest(judged, WARNING)
    [] OTHER -> Highest(judged, NORMAL)

Down(a) == a.health \in {"FAILED", "OFFLINE"}

CountedFailed(judged) == [det EXCEPT !.degraded = FALSE,
  !.failed = \E m \in Modules : Down(judged[m]),
  !.lost   = \E m \in Modules : judged[m].health = "FAILED" /\ Config[m].critical]

Counted(judged) == [det EXCEPT
  !.degraded = \E m \in Modules : judged[m].health \in {"DEGRADED", "FAILING"},
  !.failed   = \E m \in Modules : Down(judged[m]),
  !.lost     = \E m \in Modules : Down(judged[m]) /\ Config[m].critical]

Check == LET judged == [m \in Modules |-> Checked(m)]
         IN  /\ det.mode = "active"
             /\ mods' = judged
             /\ det' = [Counted(judged) EXCEPT !.level = Determined(Counted(judged), judged)]
             /\ UNCHANGED <<cond, linked>>

(* critical_module_handle_recovery, for any module and in any mode; the counters stay    *)
HandleRecovery(m) ==
  /\ mods' = [mods EXCEPT ![m].acted = FALSE, ![m].failures = 0, ![m].offline = FALSE,
                          ![m].health = "HEALTHY", ![m].level = NORMAL]
  /\ UNCHANGED <<det, cond, linked>>

(* The world: a module changes its behaviour; time passes                               *)
Change == /\ \E m \in Modules : \E c \in Conditions[m] : cond' = [cond EXCEPT ![m] = c]
          /\ UNCHANGED <<det, mods, linked>>

Older(judged) == [m \in Modules |-> [judged[m] EXCEPT !.unseen = IF @ < MaxUnseen THEN @ + 1 ELSE @]]
--------------------------------------------------------------------------------------
DetectorTypeOK ==
  /\ det \in [mode : {"off", "ready", "active"}, degraded : BOOLEAN, failed : BOOLEAN,
              lost : BOOLEAN, level : Levels]
  /\ mods \in [Modules -> [health : Healths, level : Levels, failures : Nat,
                           unseen : 0 .. MaxUnseen, offline : BOOLEAN, acted : BOOLEAN]]
  /\ \A m \in Modules : mods[m].failures <= Config[m].threshold
  /\ cond \in [Modules -> Answers]
  /\ linked \in BOOLEAN
======================================================================================
