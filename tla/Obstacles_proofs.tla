------------------------------- MODULE Obstacles_proofs -------------------------------
(* Theorems about the two parts that measure and judge obstacles: the safety monitor, for *)
(* every set of views, limits and distances, and the LiDAR HAL, for any reads, any length *)
(* of a rotation and any number of threads.                                              *)
EXTENDS SafetyMonitor, HalLidar, WellFoundedInduction, TLAPS
--------------------------------------------------------------------------------------
(* SafetyMonitor                                                                         *)

(* What StopIsNotSafe says of one instance.                                                  *)
Honest(m) == m.hw \/ m.sw => m.state \in {"ESTOP", "FAULT"}

(* A step of the monitor within a call: it keeps the type, does not hide a stop, leaves  *)
(* ESTOP and CRITICAL for each other only, and declares nothing safe that stands.        *)
Stopped == {"ESTOP", "CRITICAL"}
Halted  == {"ESTOP", "CRITICAL", "FAULT"}
Keeps(m, n) == /\ n \in Monitors /\ Honest(n) /\ n.initialized = m.initialized
               /\ m.state \in Stopped => n.state \in Stopped
               /\ m.state \in Halted => n.state \in Halted

LEMMA KeepsIsTransitive ==
  ASSUME NEW a, NEW b, NEW c, Keeps(a, b), Keeps(b, c)
  PROVE  Keeps(a, c)
  BY DEF Keeps

(* safety_monitor_transition_state accepts ESTOP and FAULT in every state, and SAFE in    *)
(* none of the stopped ones.                                                             *)
LEMMA MovedWhere ==
  ASSUME NEW m \in Monitors, NEW s \in States
  PROVE  /\ Moved(m, s) \in Monitors
         /\ Moved(m, s) = [m EXCEPT !.state = Moved(m, s).state]
         /\ Moved(m, s).state \in {m.state, s}
         /\ s \in {"ESTOP", "FAULT"} => Moved(m, s).state = s
         /\ s = "SAFE" /\ m.state \in Stopped => Moved(m, s) = m
<1>1. Allowed[m.state] \in SUBSET States
  BY DEF Allowed, States, Monitors
<1>2. s \in {"ESTOP", "FAULT"} => s \in Allowed[m.state]
  BY DEF Allowed, States, Monitors
<1>3. m.state \in Stopped => "SAFE" \notin Allowed[m.state]
  BY DEF Allowed, States, Monitors, Stopped, Halted
<1>4. Moved(m, s) = IF s \in Allowed[m.state] THEN [m EXCEPT !.state = s] ELSE m
  BY DEF Moved
<1>5. m.state \in States /\ m = [m EXCEPT !.state = m.state]
  BY DEF Monitors
<1>6. [m EXCEPT !.state = s] \in Monitors /\ [m EXCEPT !.state = s].state = s
  BY DEF Monitors
<1> QED
  BY <1>2, <1>3, <1>4, <1>5, <1>6

LEMMA TriggeredKeeps ==
  ASSUME NEW m \in Monitors, Honest(m), NEW ok \in BOOLEAN
  PROVE  Keeps(m, Triggered(m, ok))
<1>1. Moved(m, "ESTOP") \in Monitors /\ Moved(m, "ESTOP").state = "ESTOP"
  BY MovedWhere DEF States
<1>2. Moved(m, "ESTOP").initialized = m.initialized
  <2>1. Moved(m, "ESTOP") = [m EXCEPT !.state = Moved(m, "ESTOP").state]
    BY MovedWhere DEF States
  <2> QED
    BY <2>1 DEF Monitors
<1> DEFINE stopped == [Moved(m, "ESTOP") EXCEPT !.sw = TRUE]
<1>3. stopped \in Monitors /\ stopped.state = "ESTOP" /\ stopped.initialized = m.initialized
  BY <1>1, <1>2 DEF Monitors
<1>4. Triggered(m, ok) = IF ok THEN stopped ELSE m
  BY DEF Triggered
<1> HIDE DEF stopped
<1> QED
  BY <1>3, <1>4 DEF Keeps, Honest, Stopped, Halted

LEMMA EstopCheckedKeeps ==
  ASSUME NEW m \in Monitors, Honest(m), latched \in BOOLEAN
  PROVE  Keeps(m, EstopChecked(m))
<1> DEFINE read == [m EXCEPT !.hw = latched]
<1>1. /\ read \in Monitors /\ read.hw = latched /\ read.sw = m.sw /\ read.state = m.state
      /\ read.initialized = m.initialized
  BY DEF Monitors
<1>2. EstopChecked(m) = IF latched /\ ~m.sw THEN Moved(read, "ESTOP") ELSE read
  BY DEF EstopChecked
<1> HIDE DEF read
<1>3. CASE latched /\ ~m.sw
  <2>1. /\ Moved(read, "ESTOP") \in Monitors /\ Moved(read, "ESTOP").state = "ESTOP"
        /\ Moved(read, "ESTOP") = [read EXCEPT !.state = Moved(read, "ESTOP").state]
    BY <1>1, MovedWhere DEF States
  <2>2. Moved(read, "ESTOP").initialized = read.initialized
    BY <1>1, <2>1 DEF Monitors
  <2> QED
    BY <1>1, <1>2, <1>3, <2>1, <2>2 DEF Keeps, Honest, Stopped, Halted
<1>4. CASE ~(latched /\ ~m.sw)
  BY <1>1, <1>2, <1>4 DEF Keeps, Honest
<1> QED
  BY <1>3, <1>4

LEMMA ViolationHandledKeeps ==
  ASSUME NEW m \in Monitors, Honest(m), NEW ok \in BOOLEAN
  PROVE  Keeps(m, ViolationHandled(m, ok))
<1> DEFINE seen == [m EXCEPT !.violation = TRUE]
<1>1. /\ seen \in Monitors /\ Honest(seen) /\ Keeps(m, seen)
      /\ seen.state = m.state /\ seen.initialized = m.initialized
  BY DEF Monitors, Honest, Keeps
<1>2. Keeps(seen, Triggered(seen, ok))
  BY <1>1, TriggeredKeeps
<1>3. m.state = "SAFE" => Keeps(seen, Moved(seen, "WARNING"))
  <2>1. /\ Moved(seen, "WARNING") \in Monitors
        /\ Moved(seen, "WARNING") = [seen EXCEPT !.state = Moved(seen, "WARNING").state]
    BY <1>1, MovedWhere DEF States
  <2>2. /\ Moved(seen, "WARNING").hw = seen.hw /\ Moved(seen, "WARNING").sw = seen.sw
        /\ Moved(seen, "WARNING").initialized = seen.initialized
    BY <1>1, <2>1 DEF Monitors
  <2> QED
    BY <1>1, <2>1, <2>2 DEF Keeps, Honest, Stopped, Halted
<1>4. ViolationHandled(m, ok) \in {Triggered(seen, ok), seen}
        \/ (m.state = "SAFE" /\ ViolationHandled(m, ok) = Moved(seen, "WARNING"))
  BY DEF ViolationHandled
<1> HIDE DEF seen
<1>5. /\ Keeps(m, Triggered(seen, ok))
      /\ m.state = "SAFE" => Keeps(m, Moved(seen, "WARNING"))
  BY <1>1, <1>2, <1>3, KeepsIsTransitive
<1> QED
  BY <1>1, <1>4, <1>5

LEMMA ScannedKeeps ==
  ASSUME NEW m \in Monitors, Honest(m), NEW ok \in BOOLEAN
  PROVE  Keeps(m, Scanned(m, ok))
<1> DEFINE band == Band(view, m.limits)
           seen == [m EXCEPT !.near = band, !.violation = band # "clear"]
<1>1. band \in Bands
  BY DEF Band, Bands
<1>2. /\ seen \in Monitors /\ seen.state = m.state /\ seen.hw = m.hw /\ seen.sw = m.sw
      /\ seen.initialized = m.initialized
  BY <1>1 DEF Monitors
<1>3. Scanned(m, ok) \in {m, seen, ViolationHandled(seen, ok)}
        \/ (m.state = "WARNING" /\ Scanned(m, ok) = Moved(seen, "SAFE"))
  BY DEF Scanned
<1> HIDE DEF seen
<1>4. Honest(seen) /\ Keeps(m, seen) /\ Keeps(m, m)
  BY <1>2 DEF Honest, Keeps
<1>5. Keeps(m, ViolationHandled(seen, ok))
  BY <1>2, <1>4, ViolationHandledKeeps, KeepsIsTransitive
<1>6. ASSUME m.state = "WARNING" PROVE Keeps(m, Moved(seen, "SAFE"))
  <2>1. /\ Moved(seen, "SAFE") \in Monitors
        /\ Moved(seen, "SAFE") = [seen EXCEPT !.state = Moved(seen, "SAFE").state]
    BY <1>2, MovedWhere DEF States
  <2>2. /\ Moved(seen, "SAFE").hw = m.hw /\ Moved(seen, "SAFE").sw = m.sw
        /\ Moved(seen, "SAFE").initialized = m.initialized
    BY <1>2, <2>1 DEF Monitors
  <2> QED
    BY <1>6, <2>1, <2>2 DEF Keeps, Honest, Stopped, Halted
<1> QED
  BY <1>3, <1>4, <1>5, <1>6

(* The checks of an update that touch neither state nor stop.                            *)
LEMMA SideChecksKeep ==
  ASSUME NEW m \in Monitors, Honest(m)
  PROVE  Keeps(m, m) /\ Keeps(m, ZonesChecked(m)) /\ Keeps(m, WatchdogChecked(m))
<1>1. Keeps(m, m)
  BY DEF Keeps
<1>2. ZonesChecked(m) \in {m, [m EXCEPT !.violation = @ /\ m.configured = "danger"]}
  BY DEF ZonesChecked
<1>3. Keeps(m, [m EXCEPT !.violation = @ /\ m.configured = "danger"])
  BY DEF Keeps, Monitors, Honest
<1>4. Keeps(m, WatchdogChecked(m))
  BY DEF WatchdogChecked, Keeps, Monitors, Honest
<1> QED
  BY <1>1, <1>2, <1>3, <1>4

(* What an event may leave: StopsLast, where a fault is the way out of a stop, and       *)
(* ResumesClean.                                                                         *)
Follows(m, n) == /\ n \in Monitors /\ Honest(n) /\ n.initialized = m.initialized
                 /\ m.state \in Stopped => n.state \in Stopped \cup {"FAULT"}
                 /\ m.state \in Halted /\ n.state = "SAFE" => ~m.hw /\ Clean(n)

LEMMA KeepsFollows ==
  ASSUME NEW m, NEW n, Keeps(m, n)
  PROVE  Follows(m, n)
  BY DEF Keeps, Follows, Halted

(* A transition that raises a flag of the monitor but not one of the E-Stop.             *)
LEMMA MovedFollows ==
  ASSUME NEW m \in Monitors, Honest(m), NEW n \in Monitors, NEW s \in States,
         n.hw = m.hw, n.sw = m.sw, n.state = m.state, n.initialized = m.initialized,
         s \in {"ESTOP", "FAULT"} \/ m.state \in {"SAFE", "WARNING"}
  PROVE  Follows(m, Moved(n, s))
<1>1. /\ Moved(n, s) \in Monitors /\ Moved(n, s).state \in {m.state, s}
      /\ s \in {"ESTOP", "FAULT"} => Moved(n, s).state = s
      /\ Moved(n, s) = [n EXCEPT !.state = Moved(n, s).state]
  BY MovedWhere
<1>2. /\ Moved(n, s).hw = m.hw /\ Moved(n, s).sw = m.sw
      /\ Moved(n, s).initialized = m.initialized
  BY <1>1 DEF Monitors
<1> QED
  BY <1>1, <1>2 DEF Follows, Honest, Stopped, Halted

LEMMA RaisedFollows ==
  ASSUME NEW m \in Monitors, Honest(m), NEW n \in Monitors,
         n.hw = m.hw, n.sw = m.sw, n.state = m.state, n.initialized = m.initialized
  PROVE  Follows(m, Raised(n))
<1>1. CASE n.state \in {"SAFE", "WARNING"}
  <2>1. Follows(m, Moved(n, "CRITICAL"))
    BY <1>1, MovedFollows DEF States
  <2> QED
    BY <1>1, <2>1 DEF Raised
<1>2. CASE n.state \notin {"SAFE", "WARNING"}
  BY <1>2 DEF Raised, Follows, Honest, Stopped, Halted
<1> QED
  BY <1>1, <1>2

(* A reset clears the stop of the software only where the button is released, and its     *)
(* transition to SAFE is refused where the monitor is stopped.                            *)
LEMMA ResetFollows ==
  ASSUME NEW m \in Monitors, Honest(m)
  PROVE  Follows(m, ResetDone(m))
<1> DEFINE n == [m EXCEPT !.sw = FALSE, !.violation = FALSE, !.interlock_open = FALSE,
                          !.sensor_fault = FALSE, !.communication_ok = TRUE,
                          !.watchdog_ok = TRUE]
<1>1. /\ n \in Monitors /\ n.state = m.state /\ n.hw = m.hw /\ n.sw = FALSE
      /\ n.initialized = m.initialized
  BY DEF Monitors
<1>2. ResetDone(m) = IF m.hw THEN m ELSE Moved(n, "SAFE")
  BY DEF ResetDone
<1> HIDE DEF n
<1>3. CASE m.hw
  BY <1>2, <1>3 DEF Follows, Stopped, Halted
<1>4. CASE ~m.hw
  <2>1. /\ Moved(n, "SAFE") \in Monitors
        /\ Moved(n, "SAFE") = [n EXCEPT !.state = Moved(n, "SAFE").state]
        /\ m.state \in Stopped => Moved(n, "SAFE") = n
    BY <1>1, MovedWhere DEF States
  <2>2. /\ Moved(n, "SAFE").hw = FALSE /\ Moved(n, "SAFE").sw = FALSE
        /\ Moved(n, "SAFE").initialized = m.initialized
        /\ Clean(Moved(n, "SAFE"))
    <3>1. Clean(n)
      BY <1>1, <1>4 DEF n, Clean, Monitors
    <3> QED
      BY <1>1, <1>4, <2>1, <3>1 DEF Monitors, Clean
  <2> QED
    BY <1>1, <1>2, <1>4, <2>1, <2>2 DEF Follows, Honest
<1> QED
  BY <1>3, <1>4

LEMMA ReportedFollows ==
  ASSUME NEW m \in Monitors, Honest(m), NEW e \in Events, NEW ok \in BOOLEAN
  PROVE  Follows(m, Reported(m, e, ok))
<1>1. CASE e = "ESTOP_TRIGGERED"
  BY <1>1, MovedFollows DEF Reported, States
<1>2. CASE e = "ZONE_VIOLATION"
  BY <1>2, ViolationHandledKeeps, KeepsFollows DEF Reported
<1>3. CASE e = "INTERLOCK_OPEN"
  <2> DEFINE n == [m EXCEPT !.interlock_open = TRUE]
  <2>1. n \in Monitors /\ n.hw = m.hw /\ n.sw = m.sw /\ n.state = m.state
        /\ n.initialized = m.initialized
    BY DEF Monitors
  <2>2. Reported(m, e, ok) = Raised(n)
    BY <1>3 DEF Reported
  <2> QED
    BY <2>1, <2>2, RaisedFollows
<1>4. CASE e = "SENSOR_FAULT"
  <2> DEFINE n == [m EXCEPT !.sensor_fault = TRUE]
  <2>1. n \in Monitors /\ n.hw = m.hw /\ n.sw = m.sw /\ n.state = m.state
        /\ n.initialized = m.initialized
    BY DEF Monitors
  <2>2. Reported(m, e, ok) = Raised(n)
    BY <1>4 DEF Reported
  <2> QED
    BY <2>1, <2>2, RaisedFollows
<1>5. CASE e = "COMMUNICATION_LOST"
  <2> DEFINE n == [m EXCEPT !.communication_ok = FALSE]
  <2>1. n \in Monitors /\ n.hw = m.hw /\ n.sw = m.sw /\ n.state = m.state
        /\ n.initialized = m.initialized
    BY DEF Monitors
  <2>2. Reported(m, e, ok) = Raised(n)
    BY <1>5 DEF Reported
  <2> QED
    BY <2>1, <2>2, RaisedFollows
<1>6. CASE e = "WATCHDOG_TIMEOUT"
  <2> DEFINE n == [m EXCEPT !.watchdog_ok = FALSE]
  <2>1. n \in Monitors /\ n.hw = m.hw /\ n.sw = m.sw /\ n.state = m.state
        /\ n.initialized = m.initialized
    BY DEF Monitors
  <2>2. Reported(m, e, ok) = Moved(n, "FAULT") /\ "FAULT" \in States
    BY <1>6 DEF Reported, States
  <2> QED
    BY <2>1, <2>2, MovedFollows
<1>7. CASE e = "EMERGENCY_STOP"
  BY <1>7, TriggeredKeeps, KeepsFollows DEF Reported
<1>8. CASE e = "SAFETY_RESET"
  BY <1>8, ResetFollows DEF Reported
<1> QED
  BY <1>1, <1>2, <1>3, <1>4, <1>5, <1>6, <1>7, <1>8 DEF Events
---------------------------------------------------------------------------------------
(* The inductive invariant: the type, honest flags, and INIT before init.                *)
IInv == TypeOK /\ Honest(mon) /\ (~mon.initialized => mon.state = "INIT")

LEMMA UpdatesKeep ==
  ASSUME IInv, NEW estop \in BOOLEAN, NEW zones \in BOOLEAN, NEW watchdog \in BOOLEAN,
         Update(estop, zones, watchdog) \/ UpdateWithLidar(estop, zones, watchdog)
  PROVE  Keeps(mon, mon')
<1> DEFINE first == IF estop THEN EstopChecked(mon) ELSE mon
<1>1. mon \in Monitors /\ Honest(mon) /\ latched \in BOOLEAN
  BY DEF IInv, TypeOK
<1>2. Keeps(mon, first)
  BY <1>1, EstopCheckedKeeps, SideChecksKeep
<1>3. first \in Monitors /\ Honest(first)
  BY <1>2 DEF Keeps
<1>4. ASSUME NEW second, Keeps(first, second),
             mon' = IF watchdog THEN WatchdogChecked(second) ELSE second
      PROVE  Keeps(mon, mon')
  <2>1. second \in Monitors /\ Honest(second)
    BY <1>4 DEF Keeps
  <2>2. Keeps(second, mon')
    BY <1>4, <2>1, SideChecksKeep
  <2> QED
    BY <1>2, <1>4, <2>2, KeepsIsTransitive
<1>5. CASE Update(estop, zones, watchdog)
  <2> DEFINE second == IF zones THEN ZonesChecked(first) ELSE first
  <2>1. Keeps(first, second)
    BY <1>3, SideChecksKeep
  <2>2. mon' = IF watchdog THEN WatchdogChecked(second) ELSE second
    BY <1>5 DEF Update
  <2> QED
    BY <1>4, <2>1, <2>2
<1>6. CASE UpdateWithLidar(estop, zones, watchdog)
  <2>1. PICK ok \in BOOLEAN :
          mon' = IF watchdog THEN WatchdogChecked(IF zones THEN Scanned(first, ok) ELSE first)
                 ELSE IF zones THEN Scanned(first, ok) ELSE first
    BY <1>6 DEF UpdateWithLidar
  <2> DEFINE second == IF zones THEN Scanned(first, ok) ELSE first
  <2>2. Keeps(first, second)
    BY <1>3, ScannedKeeps, SideChecksKeep
  <2> QED
    BY <1>4, <2>1, <2>2
<1> QED
  BY <1>5, <1>6

(* What a step may do with the instance: begin anew, keep it, or follow the rules.        *)
Begun == [Cleared EXCEPT !.initialized = TRUE, !.enabled = TRUE]
Steps(m, n) == \/ n = Cleared
               \/ ~m.initialized /\ n = Begun
               \/ n = m
               \/ m.initialized /\ Follows(m, n)

LEMMA StepFollows ==
  ASSUME IInv, [Next]_vars
  PROVE  /\ mon' \in Monitors /\ latched' \in BOOLEAN /\ view' \in Views
         /\ Steps(mon, mon')
<1> USE DEF IInv, TypeOK
<1>0. mon \in Monitors /\ Honest(mon)
  OBVIOUS
<1>c. Cleared \in Monitors /\ Begun \in Monitors
  BY MonitorAssumption DEF Cleared, Begun, Monitors, States, Bands
<1>f. ASSUME mon.initialized, Follows(mon, mon') PROVE mon' \in Monitors /\ Steps(mon, mon')
  BY <1>f DEF Follows, Steps
<1>s. ASSUME mon' = mon PROVE mon' \in Monitors /\ Steps(mon, mon')
  BY <1>s, <1>0 DEF Steps
<1>1. CASE Start
  BY <1>1, <1>c DEF Start, Steps, Begun
<1>2. CASE Deinit
  BY <1>2, <1>c DEF Deinit, Steps
<1>3. CASE ProcessEvent
  <2>1. PICK e \in Events, ok \in BOOLEAN : mon' = Reported(mon, e, ok)
    BY <1>3 DEF ProcessEvent
  <2>2. Follows(mon, mon')
    BY <1>0, <2>1, ReportedFollows
  <2> QED
    BY <1>3, <1>f, <2>2 DEF ProcessEvent
<1>4. CASE CheckZones
  <2>1. PICK ok \in BOOLEAN : mon' = Scanned(mon, ok)
    BY <1>4 DEF CheckZones, CheckZonesOn
  <2>2. Follows(mon, mon')
    BY <1>0, <2>1, ScannedKeeps, KeepsFollows
  <2> QED
    BY <1>4, <1>f, <2>2 DEF CheckZones, CheckZonesOn
<1>5. CASE AnyUpdate
  <2>1. Follows(mon, mon')
    BY <1>5, UpdatesKeep, KeepsFollows DEF AnyUpdate
  <2> QED
    BY <1>5, <1>f, <2>1 DEF AnyUpdate, Update, UpdateWithLidar
<1>6. CASE SetBasicZones
  <2>1. PICK l \in Limits, on \in BOOLEAN, near \in {mon.near, "clear"} :
          mon' = [mon EXCEPT !.limits = l, !.enabled = on, !.near = near]
    BY <1>6 DEF SetBasicZones
  <2>2. Follows(mon, mon')
    BY <1>0, <2>1 DEF Follows, Monitors, Bands, Honest, Halted
  <2> QED
    BY <1>6, <1>f, <2>2 DEF SetBasicZones
<1>7. CASE SetZoneConfig
  <2>1. PICK kind \in {"danger", "other"} : mon' = [mon EXCEPT !.configured = kind]
    BY <1>7 DEF SetZoneConfig
  <2>2. Follows(mon, mon')
    BY <1>0, <2>1 DEF Follows, Monitors, Honest, Halted
  <2> QED
    BY <1>7, <1>f, <2>2 DEF SetZoneConfig
<1>8. CASE Button
  BY <1>s, <1>8 DEF Button
<1>9. CASE World
  BY <1>s, <1>9 DEF World
<1>10. CASE UNCHANGED vars
  BY <1>s, <1>10 DEF vars
<1> QED
  BY <1>1, <1>2, <1>3, <1>4, <1>5, <1>6, <1>7, <1>8, <1>9, <1>10 DEF Next

LEMMA InvInductive ==
  IInv /\ [Next]_vars => IInv'
<1> SUFFICES ASSUME IInv, [Next]_vars PROVE IInv'
  OBVIOUS
<1>1. mon' \in Monitors /\ latched' \in BOOLEAN /\ view' \in Views /\ Steps(mon, mon')
  BY StepFollows
<1>2. Honest(mon) /\ (~mon.initialized => mon.state = "INIT")
  BY DEF IInv
<1>b. /\ ~Cleared.hw /\ ~Cleared.sw /\ Cleared.state = "INIT"
      /\ ~Begun.hw /\ ~Begun.sw /\ Begun.initialized
  BY DEF Cleared, Begun
<1>3. Honest(mon') /\ (~mon'.initialized => mon'.state = "INIT")
  BY <1>1, <1>2, <1>b DEF Steps, Honest, Follows
<1> QED
  BY <1>1, <1>3 DEF IInv, TypeOK, Honest

LEMMA InvInit == Init => IInv
  BY MonitorAssumption DEF Init, IInv, TypeOK, Honest, Cleared, Monitors, States, Bands

LEMMA SpecInv == Spec => []IInv
  BY InvInit, InvInductive, PTL DEF Spec

(* The monitor keeps its type, for every set of views and limits.                         *)
THEOREM MonitorTypeCorrect == Spec => []TypeOK
<1>1. IInv => TypeOK
  BY DEF IInv
<1> QED
  BY SpecInv, <1>1, PTL

(* Flags and state never disagree about a stop, whichever reset, fault or failing          *)
(* procedure comes between.                                                               *)
THEOREM FlagsAgree == Spec => []StopIsNotSafe
<1>1. IInv => StopIsNotSafe
  BY DEF IInv, Honest, StopIsNotSafe
<1> QED
  BY SpecInv, <1>1, PTL

(* Only a reset, and one that leaves nothing behind, declares a stopped monitor safe.     *)
THEOREM CleanResumes == Spec => ResumesClean
<1>1. IInv /\ [Next]_vars =>
        [mon.state \in {"ESTOP", "CRITICAL", "FAULT"} /\ mon'.state = "SAFE"
           => ~mon.hw /\ Clean(mon')]_vars
  <2> SUFFICES ASSUME IInv, [Next]_vars, mon.state \in {"ESTOP", "CRITICAL", "FAULT"},
                      mon'.state = "SAFE"
               PROVE  ~mon.hw /\ Clean(mon')
    OBVIOUS
  <2>1. Steps(mon, mon')
    BY StepFollows
  <2>2. Cleared.state = "INIT" /\ Begun.state = "INIT"
    BY DEF Cleared, Begun
  <2> QED
    BY <2>1, <2>2 DEF Steps, Follows, Halted
<1> QED
  BY SpecInv, <1>1, PTL DEF Spec, ResumesClean

(* A stopped monitor stays stopped until a fault or another init, a reset or not.         *)
THEOREM StopsRemain == Spec => StopsLast
<1>1. IInv /\ [Next]_vars =>
        [mon.state \in {"ESTOP", "CRITICAL"} /\ mon'.initialized
           => mon'.state \in {"ESTOP", "CRITICAL", "FAULT"}]_vars
  <2> SUFFICES ASSUME IInv, [Next]_vars, mon.state \in {"ESTOP", "CRITICAL"},
                      mon'.initialized
               PROVE  mon'.state \in {"ESTOP", "CRITICAL", "FAULT"}
    OBVIOUS
  <2>1. Steps(mon, mon') /\ mon.initialized
    BY StepFollows DEF IInv
  <2>2. ~Cleared.initialized
    BY DEF Cleared
  <2> QED
    BY <2>1, <2>2 DEF Steps, Follows, Stopped, Halted
<1> QED
  BY SpecInv, <1>1, PTL DEF Spec, StopsLast
--------------------------------------------------------------------------------------
(* HalLidar                                                                              *)
(* A set of natural numbers has a least member: what fails of the values of a read fails *)
(* first somewhere, where the value before it is as it should be.                        *)
LEMMA Least ==
  ASSUME NEW T, T \subseteq Nat, T # {}
  PROVE  \E m \in T : \A n \in T : m <= n
<1> DEFINE R == {ss \in Nat \X Nat : ss[1] < ss[2]}
<1>1. IsWellFoundedOn(R, Nat)
  BY NatLessThanWellFounded DEF OpToRel
<1> HIDE DEF R
<1>2. \E x \in T : \A y \in T : ~ (<<y, x>> \in R)
  BY <1>1, WFMin
<1>3. PICK x \in T : \A y \in T : ~ (<<y, x>> \in R)
  BY <1>2
<1>4. \A y \in T : ~ (y < x)
  BY <1>3 DEF R
<1> QED
  BY <1>4

(* One value more, as the parser takes it.                                               *)
Taken(points, d) == IF Len(points) = FullRotation THEN points ELSE Took(points, d)

(* g is the parse of the first n values of r.                                            *)
ParseOf(g, r, n) == /\ g = [i \in 0 .. n |-> g[i]]
                    /\ g[0] = <<>>
                    /\ \A i \in 1 .. n : g[i] = Taken(g[i - 1], r[i])

LEMMA ParseExists ==
  ASSUME NEW r, NEW k \in Nat
  PROVE  \E g : ParseOf(g, r, k)
<1> DEFINE T == {n \in Nat : ~ \E g : ParseOf(g, r, n)}
<1>1. SUFFICES ASSUME T # {} PROVE FALSE
  OBVIOUS
<1>2. PICK m \in T : \A n \in T : m <= n
  BY <1>1, Least
<1>3. CASE m = 0
  <2> DEFINE g == [i \in 0 .. 0 |-> <<>>]
  <2>1. ParseOf(g, r, 0)
    BY DEF ParseOf
  <2> QED
    BY <2>1, <1>3
<1>4. CASE m # 0
  <2>1. m - 1 \in Nat /\ m - 1 \notin T
    BY <1>2, <1>4
  <2>2. PICK g : ParseOf(g, r, m - 1)
    BY <2>1
  <2> DEFINE h == [i \in 0 .. m |-> IF i = m THEN Taken(g[m - 1], r[m]) ELSE g[i]]
  <2>3. h[0] = <<>>
    BY <1>4, <2>1, <2>2 DEF ParseOf
  <2>4. ASSUME NEW i \in 1 .. m PROVE h[i] = Taken(h[i - 1], r[i])
    <3>1. h[i - 1] = g[i - 1]
      BY <2>1
    <3>2. CASE i = m
      BY <3>1, <3>2
    <3>3. CASE i # m
      <4>1. i \in 1 .. m - 1 /\ h[i] = g[i]
        BY <2>1, <3>3
      <4> QED
        BY <4>1, <3>1, <2>2 DEF ParseOf
    <3> QED
      BY <3>2, <3>3
  <2>5. h = [i \in 0 .. m |-> h[i]]
    OBVIOUS
  <2> HIDE DEF h
  <2>6. ParseOf(h, r, m)
    BY <2>3, <2>4, <2>5 DEF ParseOf
  <2> QED
    BY <2>6
<1> QED
  BY <1>3, <1>4

LEMMA ParsedRecursion ==
  ASSUME NEW r \in Seq(Words \cup {Marker})
  PROVE  /\ Parsed(r)[0] = <<>>
         /\ \A i \in 1 .. Len(r) : Parsed(r)[i] = Taken(Parsed(r)[i - 1], r[i])
<1> DEFINE S == 0 .. Len(r)
           F(f) == [i \in S |-> IF i = 0 THEN <<>>
                                ELSE IF Len(f[i - 1]) = FullRotation THEN f[i - 1]
                                ELSE Took(f[i - 1], r[i])]
<1>1. Len(r) \in Nat
  OBVIOUS
<1>2. PICK g : ParseOf(g, r, Len(r))
  BY <1>1, ParseExists
<1>3. g = F(g)
  BY <1>1, <1>2 DEF ParseOf, Taken
<1>4. Parsed(r) = CHOOSE f : f = F(f)
  BY DEF Parsed
<1>5. Parsed(r) = F(Parsed(r))
  BY <1>3, <1>4
<1>6. 0 \in S /\ \A i \in 1 .. Len(r) : i \in S /\ i # 0
  BY <1>1
<1> QED
  BY <1>5, <1>6 DEF Taken

(* A distance is a natural number, and what the parser stores of one is again one.       *)
LEMMA WordsAreNat == Words \subseteq Nat /\ 0 \in Words /\ Marker \notin Words
<1>1. Words \subseteq Nat /\ 0 \in Words
  BY DEF Words
<1> QED
  BY <1>1, LidarAssumption

LEMMA NarrowedType == ASSUME NEW v \in Int PROVE Narrowed(v) \in Words
  BY DEF Narrowed, Words

LEMMA StoredType == ASSUME NEW d \in Words PROVE Stored(d) \in Words
<1>1. 4 * d \in Int
  BY DEF Words
<1> QED
  BY <1>1, NarrowedType DEF Stored

LEMMA TookType ==
  ASSUME NEW points \in Seq(Words), NEW d \in Words \cup {Marker}
  PROVE  /\ Took(points, d) \in Seq(Words)
         /\ Len(Took(points, d)) <= Len(points) + 1
<1>1. Marker \notin Words /\ 0 \in Words
  BY WordsAreNat
<1>2. CASE d = Marker
  <2>1. Took(points, d) = <<>>
    BY <1>1, <1>2 DEF Took
  <2> QED
    BY <2>1
<1>3. CASE d = 0
  BY <1>1, <1>3 DEF Took
<1>4. CASE d \notin {0, Marker}
  <2>1. Took(points, d) = Append(points, Stored(d)) /\ Stored(d) \in Words
    <3>1. d \in Words
      BY <1>4
    <3>2. Took(points, d) = Append(points, Stored(d))
      BY <1>4 DEF Took
    <3> QED
      BY <3>1, <3>2, StoredType
  <2> QED
    BY <2>1
<1> QED
  BY <1>2, <1>3, <1>4

LEMMA TakenType ==
  ASSUME NEW points \in Seq(Words), Len(points) <= FullRotation, NEW d \in Words \cup {Marker}
  PROVE  Taken(points, d) \in Seq(Words) /\ Len(Taken(points, d)) <= FullRotation
<1>1. FullRotation \in Nat \ {0} /\ Len(points) \in Nat
  BY LidarAssumption
<1>2. /\ Took(points, d) \in Seq(Words) /\ Len(Took(points, d)) \in Nat
      /\ Len(Took(points, d)) <= Len(points) + 1
  BY TookType
<1> QED
  BY <1>1, <1>2 DEF Taken

(* By the least place at which it fails: the parse of a read holds points, and no more   *)
(* than a rotation of them, after each value.                                            *)
LEMMA ParsedType ==
  ASSUME NEW r \in Seq(Words \cup {Marker}), NEW k \in 0 .. Len(r)
  PROVE  Parsed(r)[k] \in Seq(Words) /\ Len(Parsed(r)[k]) <= FullRotation
<1> DEFINE P == Parsed(r)
           Good(i) == P[i] \in Seq(Words) /\ Len(P[i]) <= FullRotation
           T == {i \in 0 .. Len(r) : ~Good(i)}
<1>1. P[0] = <<>> /\ \A i \in 1 .. Len(r) : P[i] = Taken(P[i - 1], r[i])
  BY ParsedRecursion
<1> HIDE DEF P
<1>2. SUFFICES ASSUME T # {} PROVE FALSE
  BY DEF P
<1>3. PICK m \in T : \A n \in T : m <= n
  <2>1. T \subseteq Nat
    OBVIOUS
  <2> HIDE DEF T
  <2> QED
    BY <1>2, <2>1, Least
<1>4. CASE m = 0
  <2>1. FullRotation \in Nat
    BY LidarAssumption
  <2>2. <<>> \in Seq(Words) /\ Len(<<>>) = 0
    OBVIOUS
  <2>3. Good(0)
    BY <2>1, <2>2, <1>1
  <2> QED
    BY <2>3, <1>3, <1>4
<1>5. CASE m # 0
  <2>1. m \in 1 .. Len(r) /\ m - 1 \in 0 .. Len(r) /\ ~(m <= m - 1)
    BY <1>3, <1>5
  <2>2. Good(m - 1)
    BY <2>1, <1>3
  <2>3. r[m] \in Words \cup {Marker}
    BY <2>1
  <2>4. Good(m)
    BY <2>1, <2>2, <2>3, <1>1, TakenType
  <2> QED
    BY <2>4, <1>3
<1> QED
  BY <1>4, <1>5

(* A full rotation ends the parse of a read: nothing after it counts.                     *)
LEMMA FullEndsParse ==
  ASSUME NEW r \in Seq(Words \cup {Marker}), NEW k \in 0 .. Len(r), Len(Parsed(r)[k]) = FullRotation
  PROVE  Found(r) = Parsed(r)[k]
<1> DEFINE P == Parsed(r)
           T == {i \in k .. Len(r) : P[i] # P[k]}
<1>1. \A i \in 1 .. Len(r) : P[i] = Taken(P[i - 1], r[i])
  BY ParsedRecursion
<1>2. Len(P[k]) = FullRotation
  OBVIOUS
<1>3. Found(r) = P[Len(r)] /\ Len(r) \in k .. Len(r)
  BY DEF Found
<1> HIDE DEF P
<1>4. SUFFICES ASSUME T # {} PROVE FALSE
  BY <1>3 DEF P
<1>5. PICK m \in T : \A n \in T : m <= n
  <2>1. T \subseteq Nat
    OBVIOUS
  <2> HIDE DEF T
  <2> QED
    BY <1>4, <2>1, Least
<1>6. m \in 1 .. Len(r) /\ m - 1 \in k .. Len(r) /\ ~(m <= m - 1)
  BY <1>5
<1>7. P[m - 1] = P[k]
  BY <1>5, <1>6
<1>8. P[m] = P[m - 1]
  BY <1>1, <1>2, <1>6, <1>7 DEF Taken
<1> QED
  BY <1>5, <1>7, <1>8

(* The nearest point exists, is no farther than the sensor reaches and is a distance.     *)
LEMMA MinDistanceType ==
  ASSUME NEW points \in Seq(Words)
  PROVE  /\ MinDistance(points) \in 0 .. FarthestDistance
         /\ \A i \in DOMAIN points : points[i] > 0 => MinDistance(points) <= points[i]
<1> DEFINE S == {FarthestDistance} \cup {points[i] : i \in Measured(points)}
<1>0. ASSUME NEW i \in DOMAIN points PROVE points[i] \in Nat
  <2>1. points[i] \in Words
    OBVIOUS
  <2> QED
    BY <2>1, WordsAreNat
<1>1. /\ FarthestDistance \in S /\ S \subseteq Nat
      /\ \A i \in DOMAIN points : points[i] > 0 => points[i] \in S
  BY <1>0, LidarAssumption DEF Measured
<1>2. MinDistance(points) = CHOOSE x \in S : \A y \in S : x <= y
  BY DEF MinDistance, Min
<1> HIDE DEF S
<1>3. \E x \in S : \A y \in S : x <= y
  BY <1>1, Least
<1>4. MinDistance(points) \in S /\ \A y \in S : MinDistance(points) <= y
  BY <1>2, <1>3
<1>5. MinDistance(points) \in Nat /\ MinDistance(points) <= FarthestDistance
  BY <1>1, <1>4
<1>6. \A i \in DOMAIN points : points[i] > 0 => MinDistance(points) <= points[i]
  BY <1>1, <1>4
<1>7. MinDistance(points) \in 0 .. FarthestDistance
  BY <1>5, LidarAssumption
<1> QED
  BY <1>6, <1>7
--------------------------------------------------------------------------------------
ThreadStates == [at : {"none", "test", "read", "reset", "open", "parse", "judge", "exited"},
                 read : Reads \cup {<<>>}, next : Nat \ {0}]
CallStates   == [op : {"none", "start", "stop", "check", "health", "deinit"},
                 at : {"none", "entry", "created", "join", "judging", "asked", "blocked"},
                 answer : {"none", "ok", "error", "active", "uninitialized"}]
HalStates    == [initialized : BOOLEAN, scanning : BOOLEAN, open : BOOLEAN,
                 owner : Callers \cup {Nobody}, scan_thread : Threads \cup {Nobody}]

LEMMA LidarInitType == LidarInit => LidarTypeOK
<1>1. Unborn \in ThreadStates
  BY DEF Unborn, ThreadStates
<1>6. Free \in CallStates
  BY DEF Free, CallStates
<1>7. <<>> \in Seq(Words)
  OBVIOUS
<1> SUFFICES ASSUME LidarInit PROVE LidarTypeOK
  OBVIOUS
<1>2. hal \in HalStates
  BY DEF LidarInit, HalStates
<1>3. scan \in [points : Seq(Words), complete : BOOLEAN] /\ judged \in Nat
  BY <1>7 DEF LidarInit
<1>4. thread \in [Threads -> ThreadStates] /\ call \in [Callers -> CallStates]
  BY <1>1, <1>6 DEF LidarInit
<1>5. phase \in {"init", "start", "serve", "stop", "closed"}
  BY DEF LidarInit
<1> QED
  BY <1>2, <1>3, <1>4, <1>5 DEF LidarTypeOK, HalStates, ThreadStates, CallStates

(* What a caller's step does to its own record and to the other's.                       *)
LEMMA CallMoves ==
  ASSUME call \in [Callers -> CallStates], NEW c \in Callers
  PROVE  /\ \A a \in {"ok", "error", "active", "uninitialized"} : Return(c, a) =>
              /\ call' \in [Callers -> CallStates]
              /\ call'[c].op = "none" /\ call'[c].at = "none"
              /\ \A d \in Callers \ {c} : call'[d] = call[d]
         /\ \A at \in {"created", "join", "judging", "asked", "blocked"} : GoOn(c, at) =>
              /\ call' \in [Callers -> CallStates]
              /\ call'[c].op = call[c].op /\ call'[c].at = at
              /\ \A d \in Callers \ {c} : call'[d] = call[d]
         /\ \A op \in {"start", "stop", "check", "health", "deinit"} : Call(c, op) =>
              /\ call' \in [Callers -> CallStates]
              /\ call[c].op = "none" /\ call'[c].op = op /\ call'[c].at = "entry"
              /\ \A d \in Callers \ {c} : call'[d] = call[d]
<1>1. ASSUME NEW a \in {"ok", "error", "active", "uninitialized"}, Return(c, a)
      PROVE  /\ call' \in [Callers -> CallStates]
             /\ call'[c].op = "none" /\ call'[c].at = "none"
             /\ \A d \in Callers \ {c} : call'[d] = call[d]
  <2> DEFINE new == [Free EXCEPT !.answer = a]
  <2>1. new \in CallStates /\ new.op = "none" /\ new.at = "none"
    BY DEF Free, CallStates
  <2> HIDE DEF new
  <2>2. call' = [call EXCEPT ![c] = new]
    BY <1>1 DEF Return, new
  <2> QED
    BY <2>1, <2>2
<1>2. ASSUME NEW at \in {"created", "join", "judging", "asked", "blocked"}, GoOn(c, at)
      PROVE  /\ call' \in [Callers -> CallStates]
             /\ call'[c].op = call[c].op /\ call'[c].at = at
             /\ \A d \in Callers \ {c} : call'[d] = call[d]
  <2> DEFINE new == [call[c] EXCEPT !.at = at]
  <2>1. new \in CallStates /\ new.op = call[c].op /\ new.at = at
    BY DEF CallStates
  <2> HIDE DEF new
  <2>2. call' = [call EXCEPT ![c] = new]
    BY <1>2 DEF GoOn, new
  <2> QED
    BY <2>1, <2>2
<1>3. ASSUME NEW op \in {"start", "stop", "check", "health", "deinit"}, Call(c, op)
      PROVE  /\ call' \in [Callers -> CallStates]
             /\ call[c].op = "none" /\ call'[c].op = op /\ call'[c].at = "entry"
             /\ \A d \in Callers \ {c} : call'[d] = call[d]
  <2> DEFINE new == [op |-> op, at |-> "entry", answer |-> "none"]
  <2>1. new.op = op /\ new.at = "entry"
    OBVIOUS
  <2>3. new \in CallStates
    BY DEF CallStates
  <2> HIDE DEF new
  <2>2. call' = [call EXCEPT ![c] = new]
    BY <1>3 DEF Call, new
  <2> QED
    BY <1>3, <2>1, <2>2, <2>3 DEF Call
<1> QED
  BY <1>1, <1>2, <1>3

(* What a scan thread's step does to its own record and to the others.                   *)
LEMMA ThreadMoves ==
  ASSUME thread \in [Threads -> ThreadStates], NEW t \in Threads
  PROVE  /\ \A x \in {"test", "read", "open", "parse", "judge", "exited"} :
              thread' = [thread EXCEPT ![t].at = x] =>
                /\ thread' \in [Threads -> ThreadStates]
                /\ thread'[t].at = x /\ thread'[t].read = thread[t].read /\ thread'[t].next = thread[t].next
                /\ \A u \in Threads \ {t} : thread'[u] = thread[u]
         /\ \A new \in ThreadStates : thread' = [thread EXCEPT ![t] = new] =>
                /\ thread' \in [Threads -> ThreadStates] /\ thread'[t] = new
                /\ \A u \in Threads \ {t} : thread'[u] = thread[u]
         /\ thread' = [thread EXCEPT ![t].next = @ + 1] =>
                /\ thread' \in [Threads -> ThreadStates]
                /\ thread'[t].at = thread[t].at /\ thread'[t].read = thread[t].read
                /\ thread'[t].next = thread[t].next + 1
                /\ \A u \in Threads \ {t} : thread'[u] = thread[u]
<1>1. ASSUME NEW x \in {"test", "read", "open", "parse", "judge", "exited"},
             thread' = [thread EXCEPT ![t].at = x]
      PROVE  /\ thread' \in [Threads -> ThreadStates]
             /\ thread'[t].at = x /\ thread'[t].read = thread[t].read /\ thread'[t].next = thread[t].next
             /\ \A u \in Threads \ {t} : thread'[u] = thread[u]
  <2> DEFINE new == [thread[t] EXCEPT !.at = x]
  <2>1. new \in ThreadStates /\ new.at = x /\ new.read = thread[t].read /\ new.next = thread[t].next
    BY DEF ThreadStates
  <2>2. thread' = [thread EXCEPT ![t] = new]
    BY <1>1
  <2> HIDE DEF new
  <2> QED
    BY <2>1, <2>2
<1>2. thread' = [thread EXCEPT ![t].next = @ + 1] =>
        /\ thread' \in [Threads -> ThreadStates]
        /\ thread'[t].at = thread[t].at /\ thread'[t].read = thread[t].read
        /\ thread'[t].next = thread[t].next + 1
        /\ \A u \in Threads \ {t} : thread'[u] = thread[u]
  <2> DEFINE new == [thread[t] EXCEPT !.next = @ + 1]
  <2>1. /\ new \in ThreadStates /\ new.at = thread[t].at /\ new.read = thread[t].read
        /\ new.next = thread[t].next + 1
    BY DEF ThreadStates
  <2> SUFFICES ASSUME thread' = [thread EXCEPT ![t] = new]
               PROVE  /\ thread' \in [Threads -> ThreadStates] /\ thread'[t] = new
                      /\ \A u \in Threads \ {t} : thread'[u] = thread[u]
    BY <2>1
  <2> HIDE DEF new
  <2> QED
    BY <2>1
<1>3. \A new \in ThreadStates : thread' = [thread EXCEPT ![t] = new] =>
        /\ thread' \in [Threads -> ThreadStates] /\ thread'[t] = new
        /\ \A u \in Threads \ {t} : thread'[u] = thread[u]
  OBVIOUS
<1> QED
  BY <1>1, <1>2, <1>3

(* Where a scan thread's step can take it; only the parser's steps write the scan.        *)
LEMMA StepType ==
  ASSUME LidarTypeOK, NEW t \in Threads, Step(t)
  PROVE  LidarTypeOK'
<1>1. /\ thread \in [Threads -> ThreadStates] /\ scan \in [points : Seq(Words), complete : BOOLEAN]
      /\ judged \in Nat /\ thread[t] \in ThreadStates /\ scan.points \in Seq(Words)
  BY DEF LidarTypeOK, ThreadStates
<1>2. hal' = hal /\ call' = call /\ phase' = phase
  BY DEF Step, Test, ReadData, ParseReset, ParseOpen, ParsePoint, ParseEnd, JudgeScan
<1> SUFFICES /\ thread' \in [Threads -> ThreadStates]
             /\ scan' \in [points : Seq(Words), complete : BOOLEAN]
             /\ judged' \in Nat
  BY <1>2 DEF LidarTypeOK, ThreadStates
<1>3. CASE Test(t)
  <2>1. PICK x \in {"read", "exited"} : thread' = [thread EXCEPT ![t].at = x]
    BY <1>3 DEF Test
  <2> QED
    BY <1>1, <1>3, <2>1, ThreadMoves DEF Test
<1>4. CASE ReadData(t)
  <2>1. ASSUME NEW r \in Reads, thread' = [thread EXCEPT ![t] = [at |-> "reset", read |-> r, next |-> 1]]
        PROVE  thread' \in [Threads -> ThreadStates]
    <3>1. [at |-> "reset", read |-> r, next |-> 1] \in ThreadStates
      BY DEF ThreadStates
    <3> QED
      BY <1>1, <2>1, <3>1
  <2>2. ASSUME NEW x \in {"judge", "test"}, thread' = [thread EXCEPT ![t].at = x]
        PROVE  thread' \in [Threads -> ThreadStates]
    BY <1>1, <2>2, ThreadMoves
  <2>3. thread' \in [Threads -> ThreadStates]
    BY <1>4, <2>1, <2>2 DEF ReadData
  <2> QED
    BY <1>1, <1>4, <2>3 DEF ReadData
<1>5. CASE ParseReset(t)
  <2>1. <<>> \in Seq(Words)
    OBVIOUS
  <2> QED
    BY <1>1, <1>5, <2>1, ThreadMoves DEF ParseReset
<1>6. CASE ParseOpen(t)
  BY <1>1, <1>6, ThreadMoves DEF ParseOpen
<1>7. CASE ParsePoint(t)
  <2> DEFINE d == thread[t].read[thread[t].next]
  <2>1. thread[t].read \in Seq(Words \cup {Marker}) /\ thread[t].next \in Nat \ {0}
    <3>1. thread[t].read \in Reads \cup {<<>>} /\ thread[t].next \in Nat \ {0}
      BY <1>1 DEF ThreadStates
    <3>2. Reads \subseteq Seq(Words \cup {Marker}) /\ <<>> \in Seq(Words \cup {Marker})
      BY LidarAssumption
    <3> QED
      BY <3>1, <3>2
  <2>2. thread[t].next <= Len(thread[t].read)
    BY <1>7 DEF ParsePoint, More
  <2>3. d \in Words \cup {Marker}
    BY <2>1, <2>2
  <2>4. scan' = [scan EXCEPT !.points = Took(scan.points, d)]
    BY <1>7 DEF ParsePoint
  <2> HIDE DEF d
  <2>5. Took(scan.points, d) \in Seq(Words)
    <3>1. 0 # Marker
      BY LidarAssumption
    <3> QED
      BY <1>1, <2>3, <3>1, TookType
  <2>6. scan' \in [points : Seq(Words), complete : BOOLEAN]
    BY <1>1, <2>4, <2>5
  <2>7. thread' \in [Threads -> ThreadStates] /\ judged' \in Nat
    BY <1>1, <1>7, ThreadMoves DEF ParsePoint
  <2> QED
    BY <2>6, <2>7
<1>8. CASE ParseEnd(t)
  <2> DEFINE new == [Unborn EXCEPT !.at = "judge"]
  <2>1. new \in ThreadStates
    BY DEF Unborn, ThreadStates
  <2> HIDE DEF new
  <2>2. thread' = [thread EXCEPT ![t] = new]
    BY <1>8 DEF ParseEnd, new
  <2>3. scan' \in [points : Seq(Words), complete : BOOLEAN]
    BY <1>1, <1>8 DEF ParseEnd
  <2> QED
    BY <1>1, <1>8, <2>1, <2>2, <2>3, ThreadMoves DEF ParseEnd
<1>9. CASE JudgeScan(t)
  <2>1. scan.points \in Seq(Words)
    BY <1>1
  <2>2. MinDistance(scan.points) \in Nat
    BY <2>1, MinDistanceType, LidarAssumption
  <2>3. thread' \in [Threads -> ThreadStates]
    BY <1>1, <1>9, ThreadMoves DEF JudgeScan
  <2> QED
    BY <1>1, <1>9, <2>2, <2>3 DEF JudgeScan
<1> QED
  BY <1>3, <1>4, <1>5, <1>6, <1>7, <1>8, <1>9 DEF Step

LEMMA ServeType ==
  ASSUME LidarTypeOK, NEW c \in Callers, Serve(c)
  PROVE  LidarTypeOK'
<1>1. /\ hal \in HalStates /\ thread \in [Threads -> ThreadStates] /\ call \in [Callers -> CallStates]
      /\ scan \in [points : Seq(Words), complete : BOOLEAN] /\ judged \in Nat
  BY DEF LidarTypeOK, HalStates, ThreadStates, CallStates
<1>2. scan' = scan /\ phase' = phase
  BY DEF Serve, StartCreate, StartFlag, StopFlag, StopJoin, Check, CheckJudge, HealthAsk, HealthAnswer, CloseLidar
<1> SUFFICES hal' \in HalStates /\ thread' \in [Threads -> ThreadStates]
             /\ call' \in [Callers -> CallStates] /\ judged' \in Nat
  BY <1>2 DEF LidarTypeOK, HalStates, ThreadStates, CallStates
<1>3. CASE StartCreate(c)
  <2>1. CASE UNCHANGED <<hal, thread>> /\ \E a \in {"uninitialized", "active", "error"} : Return(c, a)
    BY <1>1, <1>3, <2>1, CallMoves DEF StartCreate
  <2>2. ASSUME NEW t \in Threads, thread' = [thread EXCEPT ![t].at = "test"],
               hal' = [hal EXCEPT !.owner = c, !.scan_thread = t], GoOn(c, "created")
        PROVE  hal' \in HalStates /\ thread' \in [Threads -> ThreadStates] /\ call' \in [Callers -> CallStates]
    <3>1. hal' \in HalStates
      BY <1>1, <2>2 DEF HalStates
    <3>2. thread' \in [Threads -> ThreadStates]
      BY <1>1, <2>2, ThreadMoves
    <3>3. call' \in [Callers -> CallStates]
      BY <1>1, <2>2, CallMoves
    <3> QED
      BY <3>1, <3>2, <3>3
  <2> QED
    BY <1>1, <1>3, <2>1, <2>2 DEF StartCreate
<1>4. CASE StartFlag(c)
  <2>1. hal' \in HalStates
    BY <1>1, <1>4 DEF StartFlag, HalStates
  <2> QED
    BY <1>1, <1>4, <2>1, CallMoves DEF StartFlag
<1>5. CASE StopFlag(c)
  <2>1. hal' \in HalStates
    BY <1>1, <1>5 DEF StopFlag, HalStates
  <2> QED
    BY <1>1, <1>5, <2>1, CallMoves DEF StopFlag
<1>6. CASE StopJoin(c)
  <2>1. Unborn \in ThreadStates
    BY DEF Unborn, ThreadStates
  <2>2. thread' \in [Threads -> ThreadStates]
    BY <1>1, <1>6, <2>1 DEF StopJoin
  <2> QED
    BY <1>1, <1>6, <2>2, CallMoves DEF StopJoin
<1>7. CASE Check(c)
  <2>1. hal' \in HalStates
    BY <1>1, <1>7 DEF Check, HalStates
  <2> QED
    BY <1>1, <1>7, <2>1, CallMoves DEF Check
<1>8. CASE CheckJudge(c)
  <2>1. hal' \in HalStates
    BY <1>1, <1>8 DEF CheckJudge, HalStates
  <2>2. scan.points \in Seq(Words)
    BY <1>1
  <2>3. MinDistance(scan.points) \in Nat
    BY <2>2, MinDistanceType, LidarAssumption
  <2> QED
    BY <1>1, <1>8, <2>1, <2>3, CallMoves DEF CheckJudge
<1>9. CASE HealthAsk(c)
  <2>1. hal' \in HalStates
    BY <1>1, <1>9 DEF HealthAsk, HalStates
  <2> QED
    BY <1>1, <1>9, <2>1, CallMoves DEF HealthAsk
<1>10. CASE HealthAnswer(c)
  <2>1. hal' \in HalStates
    BY <1>1, <1>10 DEF HealthAnswer, HalStates
  <2> QED
    BY <1>1, <1>10, <2>1, CallMoves DEF HealthAnswer
<1>11. CASE CloseLidar(c)
  <2>1. hal' \in HalStates
    BY <1>1, <1>11 DEF CloseLidar, HalStates
  <2> QED
    BY <1>1, <1>11, <2>1, CallMoves DEF CloseLidar
<1> QED
  BY <1>3, <1>4, <1>5, <1>6, <1>7, <1>8, <1>9, <1>10, <1>11 DEF Serve

LEMMA LidarNextType == LidarTypeOK /\ [LidarNext]_lidarVars => LidarTypeOK'
<1> SUFFICES ASSUME LidarTypeOK, [LidarNext]_lidarVars
             PROVE  LidarTypeOK'
  OBVIOUS
<1>1. /\ hal \in HalStates /\ call \in [Callers -> CallStates]
      /\ phase \in {"init", "start", "serve", "stop", "closed"} /\ "main" \in Callers /\ "api" \in Callers
  BY DEF LidarTypeOK, HalStates, CallStates, Callers
<1>2. CASE Bring
  <2>1. hal' \in HalStates
    BY <1>1, <1>2 DEF Bring, HalStates
  <2> QED
    BY <1>1, <1>2, <2>1 DEF Bring, LidarTypeOK, HalStates
<1>3. CASE MainCalls
  <2>1. call' \in [Callers -> CallStates]
    BY <1>1, <1>3, CallMoves DEF MainCalls
  <2>2. phase' \in {"init", "start", "serve", "stop", "closed"}
    BY <1>3 DEF MainCalls
  <2> QED
    BY <1>3, <2>1, <2>2 DEF MainCalls, LidarTypeOK, CallStates
<1>4. CASE Request
  <2>1. call' \in [Callers -> CallStates]
    BY <1>1, <1>4, CallMoves DEF Request
  <2> QED
    BY <1>4, <2>1 DEF Request, LidarTypeOK, CallStates
<1>5. CASE UNCHANGED lidarVars
  BY <1>5 DEF lidarVars, LidarTypeOK
<1> QED
  BY <1>2, <1>3, <1>4, <1>5, StepType, ServeType DEF LidarNext

(* Whatever the scan thread, the API and main do in any order, and whatever the reads     *)
(* hold, the state of the LiDAR keeps its shape: the points of the scan are distances.    *)
THEOREM LidarTypeCorrect == LidarSpec => []LidarTypeOK
BY LidarInitType, LidarNextType, PTL DEF LidarSpec
--------------------------------------------------------------------------------------
Starting == \E c \in Callers : In(c, "start", "created")
Joining  == \E c \in Callers : In(c, "stop", "join")

(* Main and the API thread are never in a call at the same time while main serves.        *)
OneCall ==
  /\ phase \in {"init", "start"} => \A c \in Callers : call[c].op = "none"
  /\ Serving => /\ call["main"].op \in {"none", "start"}
                /\ call["main"].op = "none" \/ call["api"].op = "none"

(* The one thread that may run is the one that lidar_state holds, and a thread that finds *)
(* the flag down before its own start raised it only ends.                                *)
Alone ==
  /\ \A t \in Threads : thread[t].at # "none" =>
       t = hal.scan_thread /\ (hal.scanning \/ Starting \/ Joining)
  /\ Starting => ~hal.scanning /\ \A t \in Threads : thread[t].at \in {"none", "test", "exited"}
  /\ Joining => ~hal.scanning

(* The points of the scan are what the parser found in the values it has taken.           *)
OfRead(t) ==
  /\ thread[t].at \in {"reset", "open", "parse"} => thread[t].read \in Reads
  /\ thread[t].at \in {"reset", "open"} => thread[t].next = 1
  /\ thread[t].at = "open" => scan.points = <<>>
  /\ thread[t].at = "parse" => /\ ~scan.complete
                               /\ thread[t].next - 1 \in 0 .. Len(thread[t].read)
                               /\ scan.points = Parsed(thread[t].read)[thread[t].next - 1]

(* A scan marked complete holds no point only between the two first writes of the parser. *)
ClearedOnly == scan.complete /\ scan.points = <<>> => \E t \in Threads : thread[t].at = "open"

ScanInv == WholeScan /\ ClearedOnly /\ \A t \in Threads : OfRead(t)

LidarInv == OneCall /\ (Serving => Alone /\ ScanInv)

LEMMA StepKeeps ==
  ASSUME LidarTypeOK, LidarInv, NEW t \in Threads, Step(t)
  PROVE  LidarInv'
<1>1. /\ thread \in [Threads -> ThreadStates] /\ thread[t] \in ThreadStates
      /\ scan \in [points : Seq(Words), complete : BOOLEAN]
  BY DEF LidarTypeOK, ThreadStates
<1>2. hal' = hal /\ call' = call /\ phase' = phase
  BY DEF Step, Test, ReadData, ParseReset, ParseOpen, ParsePoint, ParseEnd, JudgeScan
<1>3. OneCall' /\ Serving' = Serving /\ Starting' = Starting /\ Joining' = Joining
  BY <1>2 DEF LidarInv, OneCall, Serving, Starting, Joining, In
<1> SUFFICES ASSUME Serving PROVE Alone' /\ ScanInv'
  BY <1>3 DEF LidarInv
<1>4. Alone /\ ScanInv
  BY DEF LidarInv
<1>5. thread[t].at \notin {"none", "exited"}
  BY DEF Step, Test, ReadData, ParseReset, ParseOpen, ParsePoint, ParseEnd, JudgeScan
<1>6. /\ t = hal.scan_thread /\ (hal.scanning \/ Starting \/ Joining)
      /\ \A u \in Threads \ {t} : thread[u].at = "none"
  BY <1>4, <1>5 DEF Alone
<1>7. /\ \A u \in Threads \ {t} : thread'[u] = thread[u]
      /\ Starting => thread'[t].at = "exited"
  <2>1. CASE Test(t)
    <3>1. PICK x \in {"read", "exited"} : thread' = [thread EXCEPT ![t].at = x] /\ (~hal.scanning => x = "exited")
      BY <2>1 DEF Test
    <3> QED
      BY <1>1, <1>4, <3>1, ThreadMoves DEF Alone
  <2>2. CASE ~Test(t)
    <3>1. ~Starting
      BY <1>4, <1>5, <2>2 DEF Alone, Step, Test, ReadData, ParseReset, ParseOpen, ParsePoint, ParseEnd, JudgeScan
    <3>2. \A u \in Threads \ {t} : thread'[u] = thread[u]
      BY <1>1, <2>2 DEF Step, ReadData, ParseReset, ParseOpen, ParsePoint, ParseEnd, JudgeScan
    <3> QED
      BY <3>1, <3>2
  <2> QED
    BY <2>1, <2>2
<1>8. Alone'
  BY <1>2, <1>3, <1>4, <1>6, <1>7 DEF Alone
<1>9. \A u \in Threads \ {t} : OfRead(u)'
  BY <1>6, <1>7 DEF OfRead
<1>10. thread[t].at # "open" => ~(scan.complete /\ scan.points = <<>>)
  BY <1>4, <1>6 DEF ScanInv, ClearedOnly
<1>11. WholeScan /\ OfRead(t)
  BY <1>4 DEF ScanInv
<1> SUFFICES WholeScan' /\ ClearedOnly' /\ OfRead(t)'
  BY <1>8, <1>9 DEF ScanInv
<1>12. CASE Test(t)
  <2>1. PICK x \in {"read", "exited"} : thread' = [thread EXCEPT ![t].at = x]
    BY <1>12 DEF Test
  <2>2. thread'[t].at \in {"read", "exited"} /\ scan' = scan /\ thread[t].at # "open"
    BY <1>1, <1>12, <2>1, ThreadMoves DEF Test
  <2> QED
    BY <1>2, <1>10, <1>11, <2>2 DEF WholeScan, ClearedOnly, OfRead, Serving
<1>13. CASE ReadData(t)
  <2>1. scan' = scan /\ thread[t].at # "open"
    BY <1>13 DEF ReadData
  <2>2. \/ thread'[t].at \in {"judge", "test"}
        \/ thread'[t].at = "reset" /\ thread'[t].read \in Reads /\ thread'[t].next = 1
    BY <1>1, <1>13 DEF ReadData, ThreadStates
  <2> QED
    BY <1>2, <1>10, <1>11, <2>1, <2>2 DEF WholeScan, ClearedOnly, OfRead, Serving
<1>14. CASE ParseReset(t)
  <2>1. scan'.points = <<>> /\ thread' = [thread EXCEPT ![t].at = "open"] /\ thread[t].at = "reset"
    BY <1>1, <1>14 DEF ParseReset
  <2>2. thread'[t].at = "open" /\ thread'[t].read = thread[t].read /\ thread'[t].next = thread[t].next
    BY <1>1, <2>1, ThreadMoves
  <2> QED
    BY <1>11, <2>1, <2>2 DEF WholeScan, ClearedOnly, OfRead
<1>15. CASE ParseOpen(t)
  <2>1. /\ scan'.points = scan.points /\ ~scan'.complete
        /\ thread' = [thread EXCEPT ![t].at = "parse"] /\ thread[t].at = "open"
    BY <1>1, <1>15 DEF ParseOpen
  <2>2. thread'[t].at = "parse" /\ thread'[t].read = thread[t].read /\ thread'[t].next = thread[t].next
    BY <1>1, <2>1, ThreadMoves
  <2>3. thread[t].read \in Reads /\ thread[t].next = 1 /\ scan.points = <<>>
    BY <1>11, <2>1 DEF OfRead
  <2>4. thread[t].read \in Seq(Words \cup {Marker}) /\ 0 \in 0 .. Len(thread[t].read)
    BY <2>3, LidarAssumption
  <2>5. Parsed(thread[t].read)[0] = <<>>
    BY <2>4, ParsedRecursion
  <2>6. 1 - 1 = 0
    OBVIOUS
  <2>7. OfRead(t)'
    BY <2>1, <2>2, <2>3, <2>4, <2>5, <2>6 DEF OfRead
  <2> QED
    BY <2>1, <2>7 DEF WholeScan, ClearedOnly
<1>16. CASE ParsePoint(t)
  <2> DEFINE r == thread[t].read
             n == thread[t].next
             P == Parsed(r)
  <2>1. /\ thread[t].at = "parse" /\ n <= Len(r) /\ Len(scan.points) < FullRotation
        /\ scan' = [scan EXCEPT !.points = Took(@, r[n])] /\ thread' = [thread EXCEPT ![t].next = @ + 1]
    BY <1>16 DEF ParsePoint, More
  <2>2. r \in Reads /\ ~scan.complete /\ n - 1 \in 0 .. Len(r) /\ scan.points = P[n - 1]
    BY <1>11, <2>1 DEF OfRead
  <2>3. r \in Seq(Words \cup {Marker}) /\ n \in Nat \ {0}
    BY <1>1, <2>2, LidarAssumption DEF ThreadStates
  <2>4. n \in 1 .. Len(r) /\ n \in 0 .. Len(r)
    BY <2>1, <2>3
  <2>5. P[n] = Taken(P[n - 1], r[n])
    BY <2>3, <2>4, ParsedRecursion
  <2>6. /\ thread'[t].at = "parse" /\ thread'[t].read = r /\ thread'[t].next = n + 1
    BY <1>1, <2>1, ThreadMoves
  <2> HIDE DEF P
  <2>7. ~scan'.complete /\ scan'.points = Took(scan.points, r[n])
    BY <1>1, <2>1, <2>2
  <2>8. Len(scan.points) # FullRotation
    BY <1>1, <2>1, LidarAssumption
  <2>9. scan'.points = P[n]
    BY <2>2, <2>5, <2>7, <2>8 DEF Taken
  <2>10. (n + 1) - 1 = n
    BY <2>3
  <2>11. OfRead(t)'
    BY <2>2, <2>4, <2>6, <2>7, <2>9, <2>10 DEF OfRead, P
  <2> QED
    BY <2>7, <2>11 DEF WholeScan, ClearedOnly
<1>17. CASE ParseEnd(t)
  <2> DEFINE r == thread[t].read
             n == thread[t].next
             P == Parsed(r)
  <2>1. /\ thread[t].at = "parse" /\ ~(n <= Len(r) /\ Len(scan.points) < FullRotation)
        /\ scan' = [scan EXCEPT !.complete = @ \/ scan.points # <<>>]
        /\ thread' = [thread EXCEPT ![t] = [Unborn EXCEPT !.at = "judge"]]
    BY <1>17 DEF ParseEnd, More
  <2>2. r \in Reads /\ ~scan.complete /\ n - 1 \in 0 .. Len(r) /\ scan.points = P[n - 1]
    BY <1>11, <2>1 DEF OfRead
  <2>3. r \in Seq(Words \cup {Marker}) /\ n \in Nat \ {0}
    BY <1>1, <2>2, LidarAssumption DEF ThreadStates
  <2>4. Len(P[n - 1]) <= FullRotation
    BY <2>2, <2>3, ParsedType
  <2>5. scan.points = Found(r)
    <3>1. CASE n <= Len(r)
      <4>1. Len(P[n - 1]) = FullRotation
        BY <1>1, <2>1, <2>2, <2>4, <3>1, LidarAssumption
      <4> QED
        BY <2>2, <2>3, <4>1, FullEndsParse
    <3>2. CASE ~(n <= Len(r))
      <4>1. n - 1 = Len(r)
        BY <2>2, <2>3, <3>2
      <4> QED
        BY <2>2, <4>1 DEF Found
    <3> QED
      BY <3>1, <3>2
  <2>6. thread'[t].at = "judge"
    BY <1>1, <2>1 DEF Unborn
  <2>7. scan'.points = scan.points /\ scan'.complete = (scan.points # <<>>)
    BY <1>1, <2>1, <2>2
  <2> QED
    BY <2>2, <2>5, <2>6, <2>7 DEF WholeScan, ClearedOnly, OfRead
<1>18. CASE JudgeScan(t)
  <2>1. thread'[t].at = "test" /\ scan' = scan /\ thread[t].at # "open"
    BY <1>1, <1>18, ThreadMoves DEF JudgeScan
  <2> QED
    BY <1>2, <1>10, <1>11, <2>1 DEF WholeScan, ClearedOnly, OfRead, Serving
<1> QED
  BY <1>12, <1>13, <1>14, <1>15, <1>16, <1>17, <1>18 DEF Step

LEMMA ServeKeeps ==
  ASSUME LidarTypeOK, LidarInv, NEW c \in Callers, Serve(c)
  PROVE  LidarInv'
<1>1. /\ hal \in HalStates /\ thread \in [Threads -> ThreadStates] /\ call \in [Callers -> CallStates]
  BY DEF LidarTypeOK, HalStates, ThreadStates, CallStates
<1>2. scan' = scan /\ phase' = phase /\ Serving' = Serving
  BY DEF Serve, StartCreate, StartFlag, StopFlag, StopJoin, Check, CheckJudge, HealthAsk, HealthAnswer, CloseLidar, Serving
<1>3. /\ call[c].op # "none" /\ call'[c].op \in {"none", call[c].op}
      /\ \A d \in Callers \ {c} : call'[d] = call[d]
  BY <1>1, CallMoves
     DEF Serve, StartCreate, StartFlag, StopFlag, StopJoin, Check, CheckJudge, HealthAsk, HealthAnswer, CloseLidar, In
<1>4. OneCall'
  BY <1>2, <1>3 DEF LidarInv, OneCall, Callers
<1> SUFFICES ASSUME Serving PROVE Alone' /\ ScanInv'
  BY <1>2, <1>4 DEF LidarInv
<1>5. Alone /\ ScanInv
  BY DEF LidarInv
<1>6. \A d \in Callers \ {c} : call[d].op = "none" /\ call'[d].op = "none"
  BY <1>3 DEF LidarInv, OneCall, Callers
<1>7. /\ Starting <=> In(c, "start", "created")
      /\ Joining <=> In(c, "stop", "join")
      /\ Starting' <=> (call'[c].op = "start" /\ call'[c].at = "created")
      /\ Joining' <=> (call'[c].op = "stop" /\ call'[c].at = "join")
  BY <1>6 DEF Starting, Joining, In
<1>8. thread' = thread => ScanInv'
  BY <1>2, <1>5 DEF ScanInv, WholeScan, ClearedOnly, OfRead, Serving
<1>9. ASSUME thread' = thread, hal'.scanning = hal.scanning, hal'.scan_thread = hal.scan_thread,
             call[c].at \notin {"created", "join"}, call'[c].at \notin {"created", "join"}
      PROVE  Alone' /\ ScanInv'
  BY <1>5, <1>7, <1>8, <1>9 DEF Alone, In
<1>10. CASE StartCreate(c)
  <2>1. call[c].op = "start" /\ call[c].at = "entry" /\ ~Starting /\ ~Joining
    BY <1>7, <1>10 DEF StartCreate, In
  <2>2. CASE UNCHANGED <<hal, thread>> /\ \E a \in {"uninitialized", "active", "error"} : Return(c, a)
    <3>1. call'[c].at = "none"
      BY <1>1, <2>2, CallMoves
    <3> QED
      BY <1>9, <2>1, <2>2, <3>1
  <2>3. ASSUME NEW t \in Threads, thread' = [thread EXCEPT ![t].at = "test"], ~hal.scanning,
               hal' = [hal EXCEPT !.owner = c, !.scan_thread = t], GoOn(c, "created")
        PROVE  Alone' /\ ScanInv'
    <3>1. \A u \in Threads : thread[u].at = "none"
      BY <1>5, <2>1, <2>3 DEF Alone
    <3>2. thread'[t].at = "test" /\ \A u \in Threads \ {t} : thread'[u] = thread[u]
      BY <1>1, <2>3, ThreadMoves
    <3>3. Starting' /\ ~Joining'
      <4>1. call'[c].op = "start" /\ call'[c].at = "created"
        BY <1>1, <2>1, <2>3, CallMoves
      <4> QED
        BY <4>1, <1>7
    <3>4. hal'.scan_thread = t /\ ~hal'.scanning
      BY <1>1, <2>3 DEF HalStates
    <3>5. Alone'
      BY <3>1, <3>2, <3>3, <3>4 DEF Alone
    <3>6. ScanInv'
      BY <1>2, <1>5, <3>1, <3>2 DEF ScanInv, WholeScan, ClearedOnly, OfRead, Serving
    <3> QED
      BY <3>5, <3>6
  <2> QED
    BY <1>10, <2>2, <2>3 DEF StartCreate
<1>11. CASE StartFlag(c)
  <2>1. Starting /\ hal'.scanning /\ hal'.scan_thread = hal.scan_thread /\ thread' = thread
    BY <1>1, <1>7, <1>11 DEF StartFlag, HalStates
  <2>2. ~Starting' /\ ~Joining'
    <3>1. call'[c].op = "none"
      BY <1>1, <1>11, CallMoves DEF StartFlag
    <3> QED
      BY <1>7, <3>1
  <2>3. Alone'
    BY <1>5, <2>1, <2>2 DEF Alone
  <2> QED
    BY <1>8, <2>1, <2>3
<1>12. CASE StopFlag(c)
  <2>1. call[c].op = "stop" /\ call[c].at = "entry" /\ ~Starting /\ ~Joining /\ thread' = thread
    BY <1>7, <1>12 DEF StopFlag, In
  <2>2. CASE hal.initialized /\ hal.scanning
    <3>1. hal' = [hal EXCEPT !.scanning = FALSE] /\ GoOn(c, "join")
      BY <1>12, <2>2 DEF StopFlag
    <3>2. ~hal'.scanning /\ hal'.scan_thread = hal.scan_thread
      BY <1>1, <3>1 DEF HalStates
    <3>3. Joining' /\ ~Starting'
      <4>1. call'[c].op = "stop" /\ call'[c].at = "join"
        BY <1>1, <2>1, <3>1, CallMoves
      <4> QED
        BY <4>1, <1>7
    <3>4. Alone'
      BY <1>5, <2>1, <3>2, <3>3 DEF Alone
    <3> QED
      BY <1>8, <2>1, <3>4
  <2>3. CASE ~(hal.initialized /\ hal.scanning)
    <3>1. hal' = hal /\ call'[c].at = "none"
      BY <1>1, <1>12, <2>3, CallMoves DEF StopFlag
    <3> QED
      BY <1>9, <2>1, <3>1
  <2> QED
    BY <2>2, <2>3
<1>13. CASE StopJoin(c)
  <2>1. /\ hal' = hal /\ Joining /\ ~hal.scanning
        /\ thread' = [thread EXCEPT ![hal.scan_thread] = Unborn]
        /\ thread[hal.scan_thread].at = "exited"
    BY <1>5, <1>7, <1>13 DEF StopJoin, Alone
  <2>2. ~Starting' /\ ~Joining'
    <3>1. call'[c].op = "none"
      BY <1>1, <1>13, CallMoves DEF StopJoin
    <3> QED
      BY <1>7, <3>1
  <2>3. \A u \in Threads : thread[u].at \in {"none", "exited"}
    BY <1>5, <2>1 DEF Alone
  <2>4. \A u \in Threads : thread'[u].at = "none"
    <3>1. \A u \in Threads : u # hal.scan_thread => thread'[u].at = "none"
      BY <1>1, <1>5, <2>1 DEF Alone
    <3>2. hal.scan_thread \in Threads => thread'[hal.scan_thread].at = "none"
      BY <1>1, <2>1 DEF Unborn
    <3> QED
      BY <3>1, <3>2
  <2>5. Alone'
    BY <2>2, <2>4 DEF Alone
  <2>6. ScanInv'
    BY <1>2, <1>5, <2>3, <2>4 DEF ScanInv, WholeScan, ClearedOnly, OfRead, Serving
  <2> QED
    BY <2>5, <2>6
<1>14. CASE Check(c)
  <2>1. thread' = thread /\ hal'.scanning = hal.scanning /\ hal'.scan_thread = hal.scan_thread
    BY <1>1, <1>14 DEF Check, HalStates
  <2>2. call[c].at = "entry" /\ call'[c].at \in {"none", "judging"}
    BY <1>1, <1>14, CallMoves DEF Check, In
  <2> QED
    BY <1>9, <2>1, <2>2
<1>15. CASE CheckJudge(c)
  <2>1. thread' = thread /\ hal'.scanning = hal.scanning /\ hal'.scan_thread = hal.scan_thread
    BY <1>1, <1>15 DEF CheckJudge, HalStates
  <2>2. call[c].at = "judging" /\ call'[c].at = "none"
    BY <1>1, <1>15, CallMoves DEF CheckJudge, In
  <2> QED
    BY <1>9, <2>1, <2>2
<1>16. CASE HealthAsk(c)
  <2>1. thread' = thread /\ hal'.scanning = hal.scanning /\ hal'.scan_thread = hal.scan_thread
    BY <1>1, <1>16 DEF HealthAsk, HalStates
  <2>2. call[c].at = "entry" /\ call'[c].at \in {"none", "asked"}
    BY <1>1, <1>16, CallMoves DEF HealthAsk, In
  <2> QED
    BY <1>9, <2>1, <2>2
<1>17. CASE HealthAnswer(c)
  <2>1. thread' = thread /\ hal'.scanning = hal.scanning /\ hal'.scan_thread = hal.scan_thread
    BY <1>1, <1>17 DEF HealthAnswer, HalStates
  <2>2. call[c].at = "asked" /\ call'[c].at = "none"
    BY <1>1, <1>17, CallMoves DEF HealthAnswer, In
  <2> QED
    BY <1>9, <2>1, <2>2
<1>18. CASE CloseLidar(c)
  <2>1. thread' = thread /\ hal'.scanning = hal.scanning /\ hal'.scan_thread = hal.scan_thread
    BY <1>1, <1>18 DEF CloseLidar, HalStates
  <2>2. call[c].at = "entry" /\ call'[c].at \in {"none", "blocked"}
    BY <1>1, <1>18, CallMoves DEF CloseLidar, In
  <2> QED
    BY <1>9, <2>1, <2>2
<1> QED
  BY <1>10, <1>11, <1>12, <1>13, <1>14, <1>15, <1>16, <1>17, <1>18 DEF Serve

LEMMA LidarInductive == LidarTypeOK /\ LidarInv /\ [LidarNext]_lidarVars => LidarInv'
<1> SUFFICES ASSUME LidarTypeOK, LidarInv, [LidarNext]_lidarVars
             PROVE  LidarInv'
  OBVIOUS
<1>1. call \in [Callers -> CallStates] /\ "main" \in Callers /\ "api" \in Callers
  BY DEF LidarTypeOK, CallStates, Callers
<1>2. ASSUME UNCHANGED <<thread, scan>>, hal'.scanning = hal.scanning, hal'.scan_thread = hal.scan_thread,
             Serving' => Serving,
             \A c \in Callers : call'[c] = call[c] \/ (call[c].op = "none" /\ call'[c].at = "entry")
      PROVE  Serving' => Alone' /\ ScanInv'
  <2>1. Starting' = Starting /\ Joining' = Joining
    BY <1>2 DEF Starting, Joining, In
  <2> SUFFICES ASSUME Serving' PROVE Alone' /\ ScanInv'
    OBVIOUS
  <2>2. Alone /\ ScanInv
    BY <1>2 DEF LidarInv
  <2>3. Alone'
    BY <1>2, <2>1, <2>2 DEF Alone
  <2>4. ScanInv'
    BY <1>2, <2>2 DEF ScanInv, WholeScan, ClearedOnly, OfRead
  <2> QED
    BY <2>3, <2>4
<1>3. CASE Bring
  <2>1. OneCall'
    BY <1>3 DEF Bring, LidarInv, OneCall, Serving, Callers
  <2>2. hal'.scanning = hal.scanning /\ hal'.scan_thread = hal.scan_thread
    BY <1>3 DEF Bring, LidarTypeOK
  <2> QED
    BY <1>2, <1>3, <2>1, <2>2 DEF Bring, LidarInv, Serving
<1>4. CASE MainCalls
  <2>1. PICK op \in {"start", "stop", "deinit"} :
             /\ Call("main", op)
             /\ \/ phase = "start" /\ op = "start" /\ phase' = "serve"
                \/ phase' \in {"stop", "closed"}
             /\ Serving' => Serving
    BY <1>4 DEF MainCalls, Serving
  <2>2. /\ call["main"].op = "none" /\ call'["main"].op = op /\ call'["main"].at = "entry"
        /\ call'["api"] = call["api"]
    BY <1>1, <2>1, CallMoves DEF Callers
  <2>3. OneCall'
    BY <2>1, <2>2 DEF LidarInv, OneCall, Serving, Callers
  <2> QED
    BY <1>2, <1>4, <2>1, <2>2, <2>3 DEF MainCalls, LidarInv, Callers
<1>5. CASE Request
  <2>1. PICK op \in {"start", "stop", "check", "health"} : Call("api", op)
    BY <1>5 DEF Request
  <2>2. /\ call["api"].op = "none" /\ call'["api"].op = op /\ call'["api"].at = "entry"
        /\ call'["main"] = call["main"]
    BY <1>1, <2>1, CallMoves DEF Callers
  <2>3. phase = "serve" /\ phase' = phase /\ Serving /\ Serving' /\ call["main"].op # "start"
    BY <1>5 DEF Request, Serving
  <2>4. OneCall'
    BY <2>2, <2>3 DEF LidarInv, OneCall, Callers
  <2> QED
    BY <1>2, <1>5, <2>2, <2>3, <2>4 DEF Request, LidarInv, Callers
<1>6. CASE UNCHANGED lidarVars
  <2>1. OneCall' /\ Serving' = Serving
    BY <1>6 DEF lidarVars, LidarInv, OneCall, Serving
  <2> QED
    BY <1>2, <1>6, <2>1 DEF lidarVars, LidarInv
<1> QED
  BY <1>3, <1>4, <1>5, <1>6, StepKeeps, ServeKeeps DEF LidarNext

LEMMA LidarStart == LidarInit => LidarInv
<1> SUFFICES ASSUME LidarInit PROVE LidarInv
  OBVIOUS
<1>1. /\ \A c \in Callers : call[c].op = "none"
      /\ \A t \in Threads : thread[t].at = "none"
      /\ ~scan.complete
  BY DEF LidarInit, Free, Unborn
<1>2. OneCall
  BY <1>1 DEF OneCall, Callers
<1>3. ~Starting /\ ~Joining
  BY <1>1 DEF Starting, Joining, In
<1>4. Alone
  BY <1>1, <1>3 DEF Alone
<1>5. ScanInv
  BY <1>1 DEF ScanInv, WholeScan, ClearedOnly, OfRead
<1> QED
  BY <1>2, <1>4, <1>5 DEF LidarInv

LEMMA LidarInvariant == LidarSpec => [](LidarTypeOK /\ LidarInv)
<1>1. LidarInit => LidarTypeOK /\ LidarInv
  BY LidarInitType, LidarStart
<1>2. LidarTypeOK /\ LidarInv /\ [LidarNext]_lidarVars => (LidarTypeOK /\ LidarInv)'
  BY LidarNextType, LidarInductive
<1> QED
  BY <1>1, <1>2, PTL DEF LidarSpec

(* A scan marked complete is what one read of the device held, for any reads, any length  *)
(* of a rotation and any interleaving of the thread with the calls, although the thread    *)
(* writes current_scan in place and takes no lock.  (lidar_parse_scan_data)               *)
THEOREM WholeScans == LidarSpec => []WholeScan
<1>1. LidarInv => WholeScan
  BY DEF LidarInv, ScanInv, WholeScan
<1> QED
  BY <1>1, LidarInvariant, PTL

(* While main serves, nobody who was told that the LiDAR stopped finds the scan changing. *)
(* (hal_lidar_stop_scanning)                                                             *)
THEOREM StopsAreQuiet == LidarSpec => StoppedIsQuiet
<1>1. ASSUME LidarTypeOK, LidarInv, [LidarNext]_lidarVars
      PROVE  [Serving /\ scan' # scan => hal.scanning \/ \E c \in Callers : In(c, "stop", "join")]_lidarVars
  <2> SUFFICES ASSUME Serving, scan' # scan
               PROVE  hal.scanning \/ Joining
    BY DEF Joining
  <2>1. PICK t \in Threads : ParseReset(t) \/ ParseOpen(t) \/ ParsePoint(t) \/ ParseEnd(t)
    BY <1>1 DEF LidarNext, lidarVars, Bring, MainCalls, Request, Step, Test, ReadData, JudgeScan, Serve, StartCreate,
             StartFlag, StopFlag, StopJoin, Check, CheckJudge, HealthAsk, HealthAnswer, CloseLidar
  <2>2. thread[t].at \in {"reset", "open", "parse"}
    BY <2>1 DEF ParseReset, ParseOpen, ParsePoint, ParseEnd
  <2> QED
    BY <1>1, <2>2 DEF LidarInv, Alone
<1> QED
  BY <1>1, LidarInvariant, PTL DEF LidarSpec, StoppedIsQuiet

(* What the scan thread itself judges is the nearest point of one read: the maximum that   *)
(* min_distance_mm holds with an obstacle in every read comes from hal_lidar_check_safety  *)
(* alone, in the thread of the API.  (lidar_scan_thread, lidar_process_safety_status)     *)
ThreadJudgesARead ==
  [][\A t \in Threads : Serving /\ JudgeScan(t) /\ judged' # judged =>
        \E r \in Reads : Found(r) # <<>> /\ judged' = MinDistance(Found(r))]_lidarVars

THEOREM ThreadJudgesReads == LidarSpec => ThreadJudgesARead
<1>1. ASSUME LidarTypeOK, LidarInv, NEW t \in Threads, Serving, JudgeScan(t), judged' # judged
      PROVE  \E r \in Reads : Found(r) # <<>> /\ judged' = MinDistance(Found(r))
  <2>1. thread[t].at = "judge" /\ scan.complete /\ judged' = MinDistance(scan.points)
    BY <1>1 DEF JudgeScan
  <2>2. \A u \in Threads : thread[u].at # "open"
    BY <1>1, <2>1 DEF LidarInv, Alone
  <2>3. scan.points # <<>>
    BY <1>1, <2>1, <2>2 DEF LidarInv, ScanInv, ClearedOnly
  <2>4. PICK r \in Reads : scan.points = Found(r)
    BY <1>1, <2>1, <2>3 DEF LidarInv, ScanInv, WholeScan
  <2> QED
    BY <2>1, <2>3, <2>4
<1>2. LidarTypeOK /\ LidarInv /\ [LidarNext]_lidarVars =>
        [\A t \in Threads : Serving /\ JudgeScan(t) /\ judged' # judged =>
            \E r \in Reads : Found(r) # <<>> /\ judged' = MinDistance(Found(r))]_lidarVars
  BY <1>1
<1> QED
  BY <1>2, LidarInvariant, PTL DEF LidarSpec, ThreadJudgesARead

(* Where a caller is between its lock and its unlock of lidar_mutex.                      *)
Inside == {"created", "judging", "asked", "blocked"}
Locks  == \A c \in Callers : call[c].at \in Inside => hal.owner = c

LEMMA ServesItself ==
  ASSUME LidarTypeOK, NEW c \in Callers, Serve(c)
  PROVE  \A d \in Callers \ {c} : call'[d] = call[d]
<1>1. call \in [Callers -> CallStates]
  BY DEF LidarTypeOK, CallStates
<1> QED
  BY <1>1, CallMoves
     DEF Serve, StartCreate, StartFlag, StopFlag, StopJoin, Check, CheckJudge, HealthAsk, HealthAnswer, CloseLidar

LEMMA LocksStep == LidarTypeOK /\ Locks /\ [LidarNext]_lidarVars => Locks'
<1> SUFFICES ASSUME LidarTypeOK, Locks, [LidarNext]_lidarVars
             PROVE  Locks'
  OBVIOUS
<1>1. hal \in HalStates /\ call \in [Callers -> CallStates] /\ "main" \in Callers /\ "api" \in Callers
  BY DEF LidarTypeOK, HalStates, CallStates, Callers
<1>2. Nobody \notin Callers
  BY LidarAssumption
<1>3. ASSUME hal'.owner = hal.owner,
             \A c \in Callers : call'[c].at = call[c].at \/ call'[c].at \notin Inside
      PROVE  Locks'
  BY <1>3 DEF Locks
<1>4. ASSUME NEW c \in Callers, Serve(c) PROVE Locks'
  <2>1. \A d \in Callers \ {c} : call'[d] = call[d]
    BY <1>4, ServesItself
  <2>2. ASSUME Unlocked, hal'.owner = c PROVE Locks'
    BY <1>2, <2>1, <2>2 DEF Locks, Unlocked
  <2>3. ASSUME call[c].at \in Inside, call'[c].at = "none" PROVE Locks'
    BY <2>1, <2>3 DEF Locks, Inside
  <2>4. CASE StartCreate(c)
    <3>1. CASE UNCHANGED hal /\ \E a \in {"uninitialized", "active", "error"} : Return(c, a)
      <4>1. call'[c].at = "none"
        BY <1>1, <3>1, CallMoves
      <4> QED
        BY <1>3, <2>1, <3>1, <4>1 DEF Inside
    <3>2. CASE \E t \in Threads : hal' = [hal EXCEPT !.owner = c, !.scan_thread = t]
      BY <1>1, <2>2, <2>4, <3>2 DEF StartCreate, HalStates
    <3> QED
      BY <2>4, <3>1, <3>2 DEF StartCreate
  <2>5. CASE StartFlag(c)
    BY <1>1, <2>3, <2>5, CallMoves DEF StartFlag, In, Inside
  <2>6. CASE StopFlag(c)
    <3>1. hal'.owner = hal.owner /\ call'[c].at \in {"join", "none"}
      BY <1>1, <2>6, CallMoves DEF StopFlag, HalStates
    <3> QED
      BY <1>3, <2>1, <3>1 DEF Inside
  <2>7. CASE StopJoin(c)
    <3>1. hal'.owner = hal.owner /\ call'[c].at = "none"
      BY <1>1, <2>7, CallMoves DEF StopJoin
    <3> QED
      BY <1>3, <2>1, <3>1 DEF Inside
  <2>8. CASE Check(c) \/ HealthAsk(c) \/ CloseLidar(c)
    <3>1. Unlocked /\ (hal'.owner = c \/ (hal'.owner = hal.owner /\ call'[c].at = "none"))
      BY <1>1, <2>8, CallMoves DEF Check, HealthAsk, CloseLidar, HalStates
    <3> QED
      BY <1>3, <2>1, <2>2, <3>1 DEF Inside
  <2>9. CASE CheckJudge(c) \/ HealthAnswer(c)
    BY <1>1, <2>3, <2>9, CallMoves DEF CheckJudge, HealthAnswer, In, Inside
  <2> QED
    BY <1>4, <2>4, <2>5, <2>6, <2>7, <2>8, <2>9 DEF Serve
<1>5. CASE Bring
  <2>1. hal'.owner = hal.owner /\ call' = call
    BY <1>1, <1>5 DEF Bring, HalStates
  <2> QED
    BY <1>3, <2>1
<1>6. ASSUME NEW c \in Callers, NEW op \in {"start", "stop", "check", "health", "deinit"}, Call(c, op), hal' = hal
      PROVE  Locks'
  <2>1. call'[c].at = "entry" /\ \A d \in Callers \ {c} : call'[d] = call[d]
    BY <1>1, <1>6, CallMoves
  <2> QED
    BY <1>3, <1>6, <2>1 DEF Inside
<1>7. CASE MainCalls \/ Request
  BY <1>1, <1>6, <1>7 DEF MainCalls, Request
<1>8. CASE UNCHANGED hal /\ UNCHANGED call
  BY <1>3, <1>8
<1>9. ASSUME NEW t \in Threads, Step(t) PROVE UNCHANGED hal /\ UNCHANGED call
  BY <1>9 DEF Step, Test, ReadData, ParseReset, ParseOpen, ParsePoint, ParseEnd, JudgeScan
<1> QED
  BY <1>4, <1>5, <1>7, <1>8, <1>9 DEF LidarNext, lidarVars

LEMMA LocksHold == LidarSpec => []Locks
<1>1. LidarInit => Locks
  BY DEF LidarInit, Locks, Free, Inside
<1> QED
  BY <1>1, LocksStep, LidarTypeCorrect, PTL DEF LidarSpec

(* A deinit that finds the scan running locked the mutex that its own stop waits for:     *)
(* main never leaves it, and no call of the API ever takes the mutex again, whatever the  *)
(* schedule.  (hal_lidar_deinit, hal_lidar_stop_scanning)                                *)
CloseBlocked == In("main", "deinit", "blocked")
CloseNeverReturns == [](CloseBlocked => [](CloseBlocked /\ ~Unlocked))

(* Once main has blocked in its deinit it stays blocked, with the mutex locked.          *)
THEOREM CloseIsForever == LidarSpec => CloseNeverReturns
<1>1. LidarTypeOK /\ Locks /\ CloseBlocked /\ [LidarNext]_lidarVars => CloseBlocked'
  <2> SUFFICES ASSUME LidarTypeOK, CloseBlocked, [LidarNext]_lidarVars
               PROVE  call'["main"] = call["main"]
    BY DEF CloseBlocked, In
  <2>1. call \in [Callers -> CallStates] /\ "main" \in Callers /\ "api" \in Callers
    BY DEF LidarTypeOK, CallStates, Callers
  <2>2. call["main"].op = "deinit" /\ call["main"].at = "blocked"
    BY DEF CloseBlocked, In
  <2>3. ~Serve("main")
    BY <2>2 DEF Serve, StartCreate, StartFlag, StopFlag, StopJoin, Check, CheckJudge, HealthAsk, HealthAnswer,
                CloseLidar, In
  <2>4. CASE Serve("api")
    <3>1. "main" \in Callers \ {"api"}
      BY <2>1
    <3> QED
      BY <2>1, <2>4, <3>1, ServesItself
  <2>5. ~MainCalls
    BY <2>2 DEF MainCalls, Call
  <2>6. CASE Request
    BY <2>1, <2>6, CallMoves DEF Request
  <2>7. CASE UNCHANGED call
    BY <2>7
  <2>8. ASSUME NEW t \in Threads, Step(t) PROVE UNCHANGED call
    BY <2>8 DEF Step, Test, ReadData, ParseReset, ParseOpen, ParsePoint, ParseEnd, JudgeScan
  <2> QED
    BY <2>3, <2>4, <2>5, <2>6, <2>7, <2>8 DEF LidarNext, lidarVars, Bring, Callers
<1>2. Locks /\ CloseBlocked => ~Unlocked
  BY LidarAssumption DEF Locks, CloseBlocked, In, Inside, Unlocked, Callers
<1> QED
  BY <1>1, <1>2, LidarTypeCorrect, LocksHold, PTL DEF LidarSpec, CloseNeverReturns

(* A thread whose flag is down comes nearer to its end with each of its steps: it is in   *)
(* an earlier place of the last round of its loop, or in the parse with fewer values left.*)
(* Nothing raises the flag while a stop of the API waits for the thread.                  *)
(* (lidar_scan_thread, hal_lidar_stop_scanning)                                          *)
Round(at) == CASE at = "read"  -> 6 [] at = "reset" -> 5 [] at = "open" -> 4
               [] at = "parse" -> 3 [] at = "judge" -> 2 [] at = "test" -> 1
               [] OTHER -> 0
ValuesLeft(th) == Len(th.read) + 1 - th.next
Nearer(new, old) == \/ Round(new.at) < Round(old.at)
                    \/ /\ new.at = "parse" /\ old.at = "parse"
                       /\ ValuesLeft(new) < ValuesLeft(old) /\ ValuesLeft(new) \in Nat

StoppedThreadEnds ==
  [][/\ Serving /\ Joining /\ Joining' => ~hal.scanning'
     /\ ~hal.scanning => \A t \in Threads : Step(t) => Nearer(thread'[t], thread[t])]_lidarVars

(* A stopped scan thread runs down the ranking above, and no start interferes.           *)
THEOREM StoppedThreads == LidarSpec => StoppedThreadEnds
<1>1. ASSUME LidarTypeOK, LidarInv, LidarInv', Serving, Joining, Joining', [LidarNext]_lidarVars
      PROVE  ~hal.scanning'
  <2>1. ~hal.scanning
    BY <1>1 DEF LidarInv, Alone
  <2>2. ASSUME NEW c \in Callers, StartFlag(c) PROVE FALSE
    <3>1. Starting /\ call[c].op = "start"
      BY <2>2 DEF StartFlag, Starting, In
    <3>2. PICK d \in Callers : call[d].op = "stop"
      BY <1>1 DEF Joining, In
    <3> QED
      BY <1>1, <3>1, <3>2 DEF LidarInv, OneCall, Callers
  <2>3. hal \in HalStates
    BY <1>1 DEF LidarTypeOK, HalStates
  <2>4. ASSUME NEW c \in Callers, Serve(c), ~StartFlag(c) PROVE ~hal.scanning'
    BY <2>1, <2>3, <2>4 DEF Serve, StartCreate, StopFlag, StopJoin, Check, CheckJudge, HealthAsk, HealthAnswer,
                            CloseLidar, HalStates
  <2>5. CASE Bring
    BY <2>1, <2>3, <2>5 DEF Bring, HalStates
  <2>6. ASSUME NEW t \in Threads, Step(t) PROVE UNCHANGED hal
    BY <2>6 DEF Step, Test, ReadData, ParseReset, ParseOpen, ParsePoint, ParseEnd, JudgeScan
  <2>7. CASE UNCHANGED hal
    BY <2>1, <2>7
  <2> QED
    BY <1>1, <2>2, <2>4, <2>5, <2>6, <2>7 DEF LidarNext, lidarVars, MainCalls, Request
<1>2. ASSUME LidarTypeOK, ~hal.scanning, NEW t \in Threads, Step(t)
      PROVE  Nearer(thread'[t], thread[t])
  <2>1. thread \in [Threads -> ThreadStates] /\ thread[t] \in ThreadStates
    BY <1>2 DEF LidarTypeOK, ThreadStates
  <2>2. CASE Test(t)
    <3>1. thread[t].at = "test" /\ thread'[t].at = "exited"
      BY <1>2, <2>1, <2>2, ThreadMoves DEF Test
    <3> QED
      BY <3>1 DEF Nearer, Round
  <2>3. CASE ReadData(t)
    <3>1. thread[t].at = "read" /\ thread'[t].at \in {"reset", "judge", "test"}
      BY <2>1, <2>3 DEF ReadData, ThreadStates
    <3> QED
      BY <3>1 DEF Nearer, Round
  <2>4. CASE ParseReset(t)
    <3>1. thread[t].at = "reset" /\ thread'[t].at = "open"
      BY <2>1, <2>4, ThreadMoves DEF ParseReset
    <3> QED
      BY <3>1 DEF Nearer, Round
  <2>5. CASE ParseOpen(t)
    <3>1. thread[t].at = "open" /\ thread'[t].at = "parse"
      BY <2>1, <2>5, ThreadMoves DEF ParseOpen
    <3> QED
      BY <3>1 DEF Nearer, Round
  <2>6. CASE ParsePoint(t)
    <3>1. /\ thread[t].at = "parse" /\ thread'[t].at = "parse" /\ thread'[t].read = thread[t].read
          /\ thread'[t].next = thread[t].next + 1 /\ thread[t].next <= Len(thread[t].read)
      BY <2>1, <2>6, ThreadMoves DEF ParsePoint, More
    <3>2. Len(thread[t].read) \in Nat /\ thread[t].next \in Nat
      <4>1. thread[t].read \in Reads \cup {<<>>} /\ thread[t].next \in Nat
        BY <2>1 DEF ThreadStates
      <4>2. Reads \subseteq Seq(Words \cup {Marker}) /\ <<>> \in Seq(Words \cup {Marker})
        BY LidarAssumption
      <4> QED
        BY <4>1, <4>2
    <3>3. ValuesLeft(thread'[t]) < ValuesLeft(thread[t]) /\ ValuesLeft(thread'[t]) \in Nat
      BY <3>1, <3>2 DEF ValuesLeft
    <3> QED
      BY <3>1, <3>3 DEF Nearer
  <2>7. CASE ParseEnd(t)
    <3>1. thread[t].at = "parse" /\ thread'[t].at = "judge"
      BY <2>1, <2>7 DEF ParseEnd, Unborn
    <3> QED
      BY <3>1 DEF Nearer, Round
  <2>8. CASE JudgeScan(t)
    <3>1. thread[t].at = "judge" /\ thread'[t].at = "test"
      BY <2>1, <2>8, ThreadMoves DEF JudgeScan
    <3> QED
      BY <3>1 DEF Nearer, Round
  <2> QED
    BY <1>2, <2>2, <2>3, <2>4, <2>5, <2>6, <2>7, <2>8 DEF Step
<1>3. LidarTypeOK /\ LidarInv /\ LidarInv' /\ [LidarNext]_lidarVars =>
        [/\ Serving /\ Joining /\ Joining' => ~hal.scanning'
         /\ ~hal.scanning => \A t \in Threads : Step(t) => Nearer(thread'[t], thread[t])]_lidarVars
  BY <1>1, <1>2
<1> QED
  BY <1>3, LidarInvariant, PTL DEF LidarSpec, StoppedThreadEnds

(* What a scan is judged as: an obstacle nearer than the emergency limit, or no point at  *)
(* all, is an emergency.                                                                 *)
LEMMA NearestIsLeast ==
  ASSUME NEW seen, seen \subseteq 0 .. MaxDistance
  PROVE  /\ Nearest(seen) \in Nat
         /\ seen = {} => Nearest(seen) = 0
         /\ \A d \in seen : Nearest(seen) <= d
<1> DEFINE S == seen \cup {MaxDistance}
<1>1. S \subseteq Nat /\ S # {} /\ \A d \in S : d <= MaxDistance
  BY MonitorAssumption
<1>2. Min(S) = CHOOSE x \in S : \A y \in S : x <= y
  BY DEF Min
<1>3. Nearest(seen) = IF Min(S) = MaxDistance THEN 0 ELSE Min(S)
  BY DEF Nearest
<1>4. seen = {} => S = {MaxDistance}
  OBVIOUS
<1>5. seen \subseteq S
  OBVIOUS
<1> HIDE DEF S
<1>6. \E x \in S : \A y \in S : x <= y
  BY <1>1, Least
<1>7. Min(S) \in S /\ \A y \in S : Min(S) <= y
  BY <1>2, <1>6
<1>8. PICK least \in S : least = Min(S) /\ \A y \in S : least <= y
  BY <1>7, Zenon
<1>9. Nearest(seen) = IF least = MaxDistance THEN 0 ELSE least
  BY <1>3, <1>8
<1>10. least \in Nat /\ \A d \in seen : d \in Nat /\ least <= d
  BY <1>1, <1>5, <1>8
<1>11. seen = {} => least = MaxDistance
  BY <1>4, <1>8
<1>12. ASSUME NEW d \in seen PROVE (IF least = MaxDistance THEN 0 ELSE least) <= d
  BY <1>10
<1> QED
  BY <1>9, <1>10, <1>11, <1>12

LEMMA ObstructedBand ==
  ASSUME TypeOK, Obstructed
  PROVE  Band(view, mon.limits) = "emergency"
<1>1. /\ view \subseteq 0 .. MaxDistance
      /\ mon.limits.emergency \in Nat /\ mon.limits.warning \in Nat
      /\ mon.limits.emergency < mon.limits.warning
  BY MonitorAssumption DEF TypeOK, Monitors
<1>2. Nearest(view) < mon.limits.emergency
  <2>1. CASE view = {}
    BY <1>1, <2>1, NearestIsLeast DEF Obstructed
  <2>2. ASSUME NEW d \in view, d < mon.limits.emergency PROVE Nearest(view) < mon.limits.emergency
    <3>1. Nearest(view) \in Nat /\ Nearest(view) <= d
      BY <1>1, <2>2, NearestIsLeast
    <3>2. d \in Nat
      BY <1>1, <2>2, MonitorAssumption
    <3> QED
      BY <1>1, <2>2, <3>1, <3>2
  <2> QED
    BY <2>1, <2>2 DEF Obstructed
<1>3. Nearest(view) \in Nat
  BY <1>1, NearestIsLeast
<1> QED
  BY <1>1, <1>2, <1>3 DEF Band

(* Each scan of an obstacle in the emergency zone, or of nothing, whose procedures         *)
(* succeed stops the vehicle at once and from every state, faults and the time before the *)
(* first check included; one whose procedures fail changes neither state nor flags.       *)
(* (safety_monitor_check_basic_zones, safety_monitor_trigger_emergency_stop)              *)
CloseIsHeard ==
  [][Obstructed => /\ CheckZonesOn(TRUE)  => mon'.state = "ESTOP" /\ mon'.sw
                   /\ CheckZonesOn(FALSE) => mon'.state = mon.state /\ mon'.sw = mon.sw]_vars

(* The safety part of CloseStops: one scan is enough, whatever came before.               *)
THEOREM CloseStopsAtOnce == Spec => CloseIsHeard
<1>1. ASSUME TypeOK, Obstructed, NEW ok \in BOOLEAN, CheckZonesOn(ok)
      PROVE  /\ ok  => mon'.state = "ESTOP" /\ mon'.sw
             /\ ~ok => mon'.state = mon.state /\ mon'.sw = mon.sw
  <2> DEFINE near == [mon EXCEPT !.near = "emergency", !.violation = TRUE]
             seen == [near EXCEPT !.violation = TRUE]
  <2>1. mon \in Monitors /\ mon.enabled /\ Band(view, mon.limits) = "emergency"
    BY <1>1, ObstructedBand DEF TypeOK, Obstructed
  <2>2. mon' = ViolationHandled(near, ok)
    BY <1>1, <2>1 DEF CheckZonesOn, Scanned
  <2>3. near.near = "emergency"
    BY <2>1 DEF Monitors
  <2>4. mon' = Triggered(seen, ok)
    BY <2>2, <2>3 DEF ViolationHandled
  <2>5. seen \in Monitors /\ seen.state = mon.state /\ seen.sw = mon.sw
    BY <2>1 DEF Monitors, Bands
  <2> HIDE DEF seen
  <2>6. "ESTOP" \in Allowed[seen.state]
    BY <2>5 DEF Allowed, Monitors, States
  <2>7. ASSUME ok PROVE mon' = [[seen EXCEPT !.state = "ESTOP"] EXCEPT !.sw = TRUE]
    BY <2>4, <2>6, <2>7 DEF Triggered, Moved
  <2>8. ASSUME ok PROVE mon'.state = "ESTOP" /\ mon'.sw
    BY <2>5, <2>7, <2>8 DEF Monitors
  <2>9. ASSUME ~ok PROVE mon' = seen
    BY <2>4, <2>9 DEF Triggered
  <2> QED
    BY <2>5, <2>8, <2>9
<1>2. TypeOK /\ [Next]_vars =>
        [Obstructed => /\ CheckZonesOn(TRUE)  => mon'.state = "ESTOP" /\ mon'.sw
                       /\ CheckZonesOn(FALSE) => mon'.state = mon.state /\ mon'.sw = mon.sw]_vars
  BY <1>1
<1> QED
  BY <1>2, MonitorTypeCorrect, PTL DEF Spec, CloseIsHeard

(* While the way is clear, a scan ends the warning and forgets what was near, and no       *)
(* event, configuration or update brings either back: the violation that an update without *)
(* a scan repeats and a zone event over old flags do not.                                 *)
(* (safety_monitor_check_basic_zones, safety_monitor_handle_zone_violation)               *)
WayIsClear == mon.enabled /\ Band(view, mon.limits) = "clear"
Forgotten  == mon.near = "clear" /\ mon.state # "WARNING"

WarningSettles == [][WayIsClear /\ (CheckZones \/ Forgotten) => Forgotten']_vars

Calm(m) == m \in Monitors /\ m.near = "clear" /\ m.state # "WARNING"

(* No transition but the one to WARNING makes one.                                       *)
LEMMA MovedCalm ==
  ASSUME NEW m \in Monitors, m.near = "clear", NEW s \in States, s # "WARNING", m.state # "WARNING"
  PROVE  Calm(Moved(m, s)) /\ Moved(m, s).limits = m.limits /\ Moved(m, s).enabled = m.enabled
<1>1. /\ Moved(m, s) \in Monitors /\ Moved(m, s).state \in {m.state, s}
      /\ Moved(m, s) = [m EXCEPT !.state = Moved(m, s).state]
  BY MovedWhere
<1> QED
  BY <1>1 DEF Calm, Monitors

LEMMA TriggeredCalm ==
  ASSUME NEW m, Calm(m), NEW ok \in BOOLEAN
  PROVE  Calm(Triggered(m, ok))
<1>1. Calm(Moved(m, "ESTOP"))
  BY MovedCalm DEF Calm, States
<1>2. Calm([Moved(m, "ESTOP") EXCEPT !.sw = TRUE])
  BY <1>1 DEF Calm, Monitors
<1> QED
  BY <1>2 DEF Triggered

(* A violation reported while nothing is near is noted and no more.                      *)
LEMMA ViolationCalm ==
  ASSUME NEW m, Calm(m), NEW ok \in BOOLEAN
  PROVE  Calm(ViolationHandled(m, ok))
<1>1. ViolationHandled(m, ok) = [m EXCEPT !.violation = TRUE]
  BY DEF ViolationHandled, Calm
<1> QED
  BY <1>1 DEF Calm, Monitors

LEMMA EstopCheckedCalm ==
  ASSUME NEW m, Calm(m), latched \in BOOLEAN
  PROVE  /\ Calm(EstopChecked(m))
         /\ EstopChecked(m).limits = m.limits /\ EstopChecked(m).enabled = m.enabled
<1> DEFINE read == [m EXCEPT !.hw = latched]
<1>1. /\ Calm(read) /\ read.limits = m.limits /\ read.enabled = m.enabled
  BY DEF Calm, Monitors
<1>2. EstopChecked(m) = IF latched /\ ~m.sw THEN Moved(read, "ESTOP") ELSE read
  BY DEF EstopChecked
<1> HIDE DEF read
<1>3. /\ Calm(Moved(read, "ESTOP"))
      /\ Moved(read, "ESTOP").limits = m.limits /\ Moved(read, "ESTOP").enabled = m.enabled
  BY <1>1, MovedCalm DEF Calm, States
<1> QED
  BY <1>1, <1>2, <1>3

(* A scan of a clear way calms the monitor, whatever it held before, and keeps it calm.   *)
LEMMA ScannedCalm ==
  ASSUME NEW m \in Monitors, NEW ok \in BOOLEAN, m.enabled, Band(view, m.limits) = "clear"
  PROVE  Calm(Scanned(m, ok))
<1> DEFINE seen == [m EXCEPT !.near = "clear", !.violation = FALSE]
<1>1. Scanned(m, ok) = IF m.state = "WARNING" THEN Moved(seen, "SAFE") ELSE seen
  BY DEF Scanned
<1>2. seen \in Monitors /\ seen.near = "clear" /\ seen.state = m.state
  BY DEF Monitors, Bands
<1> HIDE DEF seen
<1>3. CASE m.state = "WARNING"
  <2>1. "SAFE" \in Allowed["WARNING"]
    BY DEF Allowed, States
  <2>2. Moved(seen, "SAFE") = [seen EXCEPT !.state = "SAFE"]
    BY <1>2, <1>3, <2>1 DEF Moved
  <2>3. Calm([seen EXCEPT !.state = "SAFE"])
    BY <1>2 DEF Calm, Monitors, States
  <2> QED
    BY <1>1, <1>3, <2>2, <2>3
<1>4. CASE m.state # "WARNING"
  BY <1>1, <1>2, <1>4 DEF Calm
<1> QED
  BY <1>3, <1>4

LEMMA SideChecksCalm ==
  ASSUME NEW m, Calm(m)
  PROVE  Calm(ZonesChecked(m)) /\ Calm(WatchdogChecked(m))
<1>1. m.violation \in BOOLEAN /\ (m.violation /\ m.configured = "danger") \in BOOLEAN
  BY DEF Calm, Monitors
<1>2. ASSUME NEW v \in BOOLEAN PROVE Calm([m EXCEPT !.violation = v])
  BY DEF Calm, Monitors
<1>3. ZonesChecked(m) \in {m, [m EXCEPT !.violation = m.violation /\ m.configured = "danger"]}
  BY DEF ZonesChecked
<1>4. Calm(WatchdogChecked(m))
  BY DEF Calm, WatchdogChecked, Monitors
<1> QED
  BY <1>1, <1>2, <1>3, <1>4

LEMMA RaisedCalm ==
  ASSUME NEW m, Calm(m)
  PROVE  Calm(Raised(m))
<1>1. Calm(Moved(m, "CRITICAL"))
  BY MovedCalm DEF Calm, States
<1> QED
  BY <1>1 DEF Raised

LEMMA ReportedCalm ==
  ASSUME NEW m, Calm(m), NEW e \in Events, NEW ok \in BOOLEAN
  PROVE  Calm(Reported(m, e, ok))
<1>1. CASE e = "ESTOP_TRIGGERED"
  BY <1>1, MovedCalm DEF Reported, Calm, States
<1>2. CASE e = "ZONE_VIOLATION"
  BY <1>2, ViolationCalm DEF Reported
<1>3. CASE e \in {"INTERLOCK_OPEN", "SENSOR_FAULT", "COMMUNICATION_LOST"}
  <2>1. /\ Calm([m EXCEPT !.interlock_open = TRUE]) /\ Calm([m EXCEPT !.sensor_fault = TRUE])
        /\ Calm([m EXCEPT !.communication_ok = FALSE])
    BY DEF Calm, Monitors
  <2>2. Reported(m, e, ok) \in {Raised([m EXCEPT !.interlock_open = TRUE]),
                                Raised([m EXCEPT !.sensor_fault = TRUE]),
                                Raised([m EXCEPT !.communication_ok = FALSE])}
    BY <1>3 DEF Reported
  <2> QED
    BY <2>1, <2>2, RaisedCalm
<1>4. CASE e = "WATCHDOG_TIMEOUT"
  <2>1. Calm([m EXCEPT !.watchdog_ok = FALSE])
    BY DEF Calm, Monitors
  <2>2. Calm(Moved([m EXCEPT !.watchdog_ok = FALSE], "FAULT"))
    BY <2>1, MovedCalm DEF Calm, States
  <2> QED
    BY <1>4, <2>2 DEF Reported
<1>5. CASE e = "EMERGENCY_STOP"
  BY <1>5, TriggeredCalm DEF Reported
<1>6. CASE e = "SAFETY_RESET"
  <2> DEFINE n == [m EXCEPT !.sw = FALSE, !.violation = FALSE, !.interlock_open = FALSE,
                            !.sensor_fault = FALSE, !.communication_ok = TRUE,
                            !.watchdog_ok = TRUE]
  <2>1. Calm(n)
    BY DEF Calm, Monitors
  <2>2. Reported(m, e, ok) = IF m.hw THEN m ELSE Moved(n, "SAFE")
    BY <1>6 DEF Reported, ResetDone
  <2> HIDE DEF n
  <2>3. Calm(Moved(n, "SAFE"))
    BY <2>1, MovedCalm DEF Calm, States
  <2> QED
    BY <2>2, <2>3
<1> QED
  BY <1>1, <1>2, <1>3, <1>4, <1>5, <1>6 DEF Events

LEMMA UpdatesCalm ==
  ASSUME TypeOK, Calm(mon), WayIsClear,
         NEW estop \in BOOLEAN, NEW zones \in BOOLEAN, NEW watchdog \in BOOLEAN,
         Update(estop, zones, watchdog) \/ UpdateWithLidar(estop, zones, watchdog)
  PROVE  Calm(mon')
<1> DEFINE first == IF estop THEN EstopChecked(mon) ELSE mon
<1>1. Calm(first) /\ first.limits = mon.limits /\ first.enabled = mon.enabled
  BY EstopCheckedCalm DEF TypeOK
<1> HIDE DEF first
<1>2. CASE Update(estop, zones, watchdog)
  <2> DEFINE second == IF zones THEN ZonesChecked(first) ELSE first
  <2>1. Calm(second) /\ Calm(WatchdogChecked(second))
    BY <1>1, SideChecksCalm
  <2>2. mon' = IF watchdog THEN WatchdogChecked(second) ELSE second
    BY <1>2 DEF Update, first
  <2> QED
    BY <2>1, <2>2
<1>3. CASE UpdateWithLidar(estop, zones, watchdog)
  <2>1. PICK ok \in BOOLEAN :
          mon' = IF watchdog THEN WatchdogChecked(IF zones THEN Scanned(first, ok) ELSE first)
                 ELSE IF zones THEN Scanned(first, ok) ELSE first
    BY <1>3 DEF UpdateWithLidar, first
  <2> DEFINE second == IF zones THEN Scanned(first, ok) ELSE first
  <2>2. Calm(Scanned(first, ok))
    BY <1>1, ScannedCalm DEF WayIsClear, Calm
  <2>3. Calm(second)
    BY <1>1, <2>2
  <2>4. Calm(WatchdogChecked(second))
    BY <2>3, SideChecksCalm
  <2> QED
    BY <2>1, <2>3, <2>4
<1> QED
  BY <1>2, <1>3

(* The safety part of WarningEnds: one scan is enough, and nothing undoes it.             *)
THEOREM ClearWaySettles == Spec => WarningSettles
<1>1. ASSUME TypeOK, [Next]_vars, WayIsClear, CheckZones \/ Forgotten
      PROVE  Calm(mon')
  <2>0. mon \in Monitors /\ mon.enabled /\ Band(view, mon.limits) = "clear"
    BY <1>1 DEF TypeOK, WayIsClear
  <2>1. ASSUME CheckZones PROVE Calm(mon')
    BY <2>0, <2>1, ScannedCalm DEF CheckZones, CheckZonesOn
  <2>2. ASSUME Forgotten PROVE Calm(mon)
    BY <2>0, <2>2 DEF Forgotten, Calm
  <2>3. ASSUME Calm(mon), Start \/ Deinit PROVE Calm(mon')
    <3>1. Cleared \in Monitors /\ Begun \in Monitors
      BY MonitorAssumption DEF Cleared, Begun, Monitors, States, Bands
    <3>2. Calm(Cleared) /\ Calm(Begun)
      BY <3>1 DEF Cleared, Begun, Calm
    <3> QED
      BY <2>3, <3>2 DEF Start, Deinit, Begun
  <2>4. ASSUME Calm(mon), ProcessEvent PROVE Calm(mon')
    BY <2>4, ReportedCalm DEF ProcessEvent
  <2>5. ASSUME Calm(mon), AnyUpdate PROVE Calm(mon')
    BY <1>1, <2>5, UpdatesCalm DEF AnyUpdate
  <2>6. ASSUME Calm(mon), SetBasicZones PROVE Calm(mon')
    <3>1. PICK l \in Limits, on \in BOOLEAN, near \in {mon.near, "clear"} :
            mon' = [mon EXCEPT !.limits = l, !.enabled = on, !.near = near]
      BY <2>6 DEF SetBasicZones
    <3> QED
      BY <2>6, <3>1 DEF Calm, Monitors
  <2>7. ASSUME Calm(mon), SetZoneConfig PROVE Calm(mon')
    <3>1. PICK kind \in {"danger", "other"} : mon' = [mon EXCEPT !.configured = kind]
      BY <2>7 DEF SetZoneConfig
    <3> QED
      BY <2>7, <3>1 DEF Calm, Monitors
  <2>8. ASSUME Calm(mon), Button \/ World \/ UNCHANGED vars PROVE Calm(mon')
    BY <2>8 DEF Button, World, vars
  <2> QED
    BY <1>1, <2>1, <2>2, <2>3, <2>4, <2>5, <2>6, <2>7, <2>8 DEF Next
<1>2. Calm(mon') => Forgotten'
  BY DEF Calm, Forgotten
<1>3. TypeOK /\ [Next]_vars => [WayIsClear /\ (CheckZones \/ Forgotten) => Forgotten']_vars
  BY <1>1, <1>2
<1> QED
  BY <1>3, MonitorTypeCorrect, PTL DEF Spec, WarningSettles
======================================================================================
