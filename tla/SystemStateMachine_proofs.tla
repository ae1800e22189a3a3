------------------------- MODULE SystemStateMachine_proofs -------------------------
(* Theorems about SystemStateMachine for every set of faults, every timeout      *)
(* table and every set of events the callers raise.                              *)
EXTENDS SystemStateMachine, SystemStates_proofs, TLAPS

(* The inductive invariant, as a statement about a machine and the history bit,  *)
(* so that it can be carried through the two transitions of one update.          *)
Sound(m, granted) ==
  /\ m \in Machine
  /\ m.initialized => (m.system_ready <=> m.current_state \in Operational)
  /\ m.current_state = "SAFE" => m.current_fault = NoFault
  /\ \/ <<m.previous_state, m.current_state>> \in Edges
     \/ m = Zeroed
     \/ m.previous_state = "BOOT" /\ m.current_state = "BOOT"
  /\ m.target_valid => granted

(* The part of Sound that an event needs: TriggerFault may enter SAFE's rows     *)
(* with a fault just recorded.                                                   *)
LEMMA ProcessKeepsFlags ==
  ASSUME NEW m \in Machine, NEW e \in Events, NEW b, NEW granted \in BOOLEAN,
         m.initialized, m.system_ready <=> m.current_state \in Operational,
         \/ <<m.previous_state, m.current_state>> \in Edges
         \/ m.previous_state = "BOOT" /\ m.current_state = "BOOT",
         m.target_valid => granted
  PROVE  LET n == ProcessEvent(m, e, b) IN
         /\ n \in Machine /\ n.initialized
         /\ n.system_ready <=> n.current_state \in Operational
         /\ \/ <<n.previous_state, n.current_state>> \in Edges
            \/ n.previous_state = "BOOT" /\ n.current_state = "BOOT"
         /\ n.target_valid => granted /\ m.target_valid
         /\ n.current_state = "MOVE" /\ m.current_state # "MOVE" => ~n.target_valid
<1> DEFINE n == ProcessEvent(m, e, b)
<1>1. /\ n \in Machine /\ n.initialized /\ n.current_state = NextState(m, e, b)
      /\ \/ n = [m EXCEPT !.last_event = e]
         \/ /\ n.current_state # m.current_state
            /\ n.previous_state = m.current_state
            /\ n.system_ready = ReadyAfter(n.current_state, m.system_ready)
            /\ n.target_valid = TargetAfter(n.current_state, m.target_valid)
  BY ProcessEventFacts
<1>2. CASE n = [m EXCEPT !.last_event = e]
  <2>1. /\ n.system_ready = m.system_ready /\ n.current_state = m.current_state
        /\ n.previous_state = m.previous_state /\ n.target_valid = m.target_valid
    BY <1>2 DEF Machine
  <2> HIDE DEF n
  <2> QED
    BY <1>1, <2>1 DEF n
<1>3. CASE n.current_state # m.current_state
  <2>1. PICK t \in Transitions : t[1] = m.current_state /\ t[3] = n.current_state
    BY <1>1, <1>3, NextStateFires
  <2>2. n.current_state \in {"MOVE", "DOCK", "PAUSED"} => m.current_state \in Operational
    BY <2>1, TableFacts DEF Operational
  <2>3. /\ n.previous_state = m.current_state
        /\ n.system_ready = ReadyAfter(n.current_state, m.system_ready)
        /\ n.target_valid = TargetAfter(n.current_state, m.target_valid)
    <3>1. [m EXCEPT !.last_event = e].current_state = m.current_state
      BY DEF Machine
    <3> HIDE DEF n
    <3> QED
      BY <1>1, <1>3, <3>1
  <2>4. <<n.previous_state, n.current_state>> \in Edges
    BY <2>1, <2>3 DEF Edges
  <2>5. n.system_ready <=> n.current_state \in Operational
    <3> HIDE DEF n
    <3>1. n.current_state \in {"MOVE", "DOCK", "PAUSED"} => m.system_ready
      BY <2>2
    <3> QED
      BY <3>1, <2>3, Zenon DEF ReadyAfter, Operational
  <2>6. /\ n.target_valid => granted /\ m.target_valid
        /\ n.current_state = "MOVE" => ~n.target_valid
    BY <2>3, Zenon DEF TargetAfter
  <2> QED
    BY <1>1, <2>4, <2>5, <2>6
<1> QED
  BY <1>1, <1>2, <1>3

(* SAFE is entered without a fault, and a fault recorded in it leaves it.        *)
LEMMA ProcessKeepsSafe ==
  ASSUME NEW m \in Machine, NEW e \in Events, NEW b
  PROVE  LET n == ProcessEvent(m, e, b) IN
         /\ n.current_state = "SAFE" /\ m.current_state # "SAFE" => n.current_fault = NoFault
         /\ m.current_state = "SAFE" /\ e = "FAULT_DETECTED" => n.current_state = "FAULT"
<1> DEFINE n == ProcessEvent(m, e, b)
<1>1. n.current_state = NextState(m, e, b) /\ n.current_fault = m.current_fault
  BY ProcessEventFacts
<1>2. ASSUME NextState(m, e, b) = "SAFE", m.current_state # "SAFE"
      PROVE  m.current_fault = NoFault
  <2>1. PICK t \in Transitions : t[3] = "SAFE" /\ Holds(t[4], m, b)
    BY <1>2, NextStateFires
  <2>2. t[4] = "safety_verified"
    BY <2>1, TableFacts
  <2> QED
    BY <2>1, <2>2 DEF Holds, SafetyVerified
<1>3. ASSUME m.current_state = "SAFE", e = "FAULT_DETECTED"
      PROVE  NextState(m, e, b) = "FAULT"
  <2>1. <<"SAFE", "FAULT_DETECTED", "FAULT", "always">> \in Transitions
    BY DEF Transitions
  <2>2. <<"SAFE", "FAULT_DETECTED", "FAULT", "always">> \in Firing(m, e, b)
    BY <1>3, <2>1 DEF Firing, Rows, RowsFrom, Holds, States
  <2>3. \A t \in Firing(m, e, b) : t[3] = "FAULT"
    BY <1>3 DEF Firing, Rows, RowsFrom, States, Transitions
  <2> QED
    BY <2>2, <2>3 DEF NextState
<1> QED
  BY <1>1, <1>2, <1>3
-------------------------------------------------------------------------------------
LEMMA StartSound == ASSUME NEW granted \in BOOLEAN
                    PROVE  Sound(Zeroed, granted) /\ Sound(Booted, granted)
  BY ZeroedFacts, BootedFacts DEF Sound, Operational

LEMMA ProcessKeepsSound ==
  ASSUME NEW e \in Events, NEW b, NEW granted \in BOOLEAN,
         NEW m, Sound(m, granted), m.initialized
  PROVE  LET n == ProcessEvent(m, e, b) IN
         /\ Sound(n, granted) /\ n.initialized
         /\ n.target_valid => m.target_valid
         /\ n.current_state = "MOVE" /\ m.current_state # "MOVE" => ~n.target_valid
<1> DEFINE n == ProcessEvent(m, e, b)
<1>1. /\ m \in Machine
      /\ m.system_ready <=> m.current_state \in Operational
      /\ \/ <<m.previous_state, m.current_state>> \in Edges
         \/ m.previous_state = "BOOT" /\ m.current_state = "BOOT"
      /\ m.target_valid => granted
  BY ZeroedFacts DEF Sound
<1>2. /\ n \in Machine /\ n.initialized
      /\ n.system_ready <=> n.current_state \in Operational
      /\ \/ <<n.previous_state, n.current_state>> \in Edges
         \/ n.previous_state = "BOOT" /\ n.current_state = "BOOT"
      /\ n.target_valid => granted /\ m.target_valid
      /\ n.current_state = "MOVE" /\ m.current_state # "MOVE" => ~n.target_valid
  BY <1>1, ProcessKeepsFlags
<1>3. n.current_state = "SAFE" => n.current_fault = NoFault
  <2>1. n.current_fault = m.current_fault
    BY <1>1, ProcessEventFacts
  <2>2. n.current_state = "SAFE" /\ m.current_state # "SAFE" => n.current_fault = NoFault
    BY <1>1, ProcessKeepsSafe
  <2> QED
    BY <2>1, <2>2 DEF Sound
<1> QED
  BY <1>2, <1>3 DEF Sound

(* The inductive invariant of the specification.                                 *)
IInv == /\ Sound(sm, fresh)
        /\ estop \in BOOLEAN /\ monitorSafe \in BOOLEAN /\ fresh \in BOOLEAN

LEMMA BecomesSound ==
  ASSUME fresh \in BOOLEAN, NEW n, Sound(n, fresh),
         n.current_state = "MOVE" /\ sm.current_state # "MOVE" => ~n.target_valid
  PROVE  Sound(n, Spend(sm, n)) /\ Spend(sm, n) \in BOOLEAN
<1>1. Spend(sm, n) \in BOOLEAN
  BY Zenon DEF Spend
<1>2. n.target_valid => Spend(sm, n)
  BY Zenon DEF Spend, Sound
<1> QED
  BY <1>1, <1>2, Zenon DEF Sound

LEMMA InitSound == Init => IInv
  BY StartSound DEF Init, IInv

LEMMA EventSound ==
  ASSUME IInv, NEW e \in Events, sm.initialized,
         Becomes(ProcessEvent(sm, e, estop)), UNCHANGED <<estop, monitorSafe>>
  PROVE  IInv'
<1> DEFINE n == ProcessEvent(sm, e, estop)
<1>1. /\ Sound(n, fresh)
      /\ n.current_state = "MOVE" /\ sm.current_state # "MOVE" => ~n.target_valid
  BY ProcessKeepsSound DEF IInv
<1>2. Sound(n, Spend(sm, n)) /\ Spend(sm, n) \in BOOLEAN
  <2> HIDE DEF n
  <2> QED
    BY <1>1, BecomesSound DEF IInv
<1>3. sm' = n /\ fresh' = Spend(sm, n)
  BY DEF Becomes
<1> QED
  BY <1>2, <1>3 DEF IInv

(* A fault recorded in any state: in SAFE, where it breaks the invariant for a   *)
(* moment, the event always leaves for FAULT.                                    *)
LEMMA TriggerFaultSound ==
  ASSUME IInv, NEW f \in Faults, TriggerFault(f)
  PROVE  IInv'
<1> DEFINE m == [sm EXCEPT !.current_fault = f]
           n == ProcessEvent(m, "FAULT_DETECTED", estop)
<1>1. /\ m \in Machine /\ m.initialized /\ sm.initialized
      /\ m.current_state = sm.current_state /\ m.previous_state = sm.previous_state
      /\ m.system_ready = sm.system_ready /\ m.target_valid = sm.target_valid
  BY DEF TriggerFault, IInv, Sound, Machine
<1>2. /\ m.system_ready <=> m.current_state \in Operational
      /\ \/ <<m.previous_state, m.current_state>> \in Edges
         \/ m.previous_state = "BOOT" /\ m.current_state = "BOOT"
      /\ m.target_valid => fresh
  <2> HIDE DEF m
  <2> QED
    BY <1>1, ZeroedFacts DEF IInv, Sound
<1>3. "FAULT_DETECTED" \in Events
  BY DEF Events
<1>4. /\ n \in Machine /\ n.initialized
      /\ n.system_ready <=> n.current_state \in Operational
      /\ \/ <<n.previous_state, n.current_state>> \in Edges
         \/ n.previous_state = "BOOT" /\ n.current_state = "BOOT"
      /\ n.target_valid => fresh
      /\ n.current_state = "MOVE" /\ m.current_state # "MOVE" => ~n.target_valid
  <2> HIDE DEF m
  <2> QED
    BY <1>1, <1>2, <1>3, ProcessKeepsFlags DEF IInv
<1>5. n.current_state = "SAFE" => n.current_fault = NoFault
  <2> HIDE DEF m
  <2> QED
    BY <1>1, <1>3, ProcessKeepsSafe
<1>6. Sound(n, fresh) /\ (n.current_state = "MOVE" /\ sm.current_state # "MOVE" => ~n.target_valid)
  BY <1>1, <1>4, <1>5 DEF Sound
<1>7. Sound(n, Spend(sm, n)) /\ Spend(sm, n) \in BOOLEAN
  <2> HIDE DEF n
  <2> QED
    BY <1>6, BecomesSound DEF IInv
<1>8. sm' = n /\ fresh' = Spend(sm, n) /\ UNCHANGED <<estop, monitorSafe>>
  BY DEF TriggerFault, Becomes
<1> QED
  BY <1>7, <1>8 DEF IInv

LEMMA ClearFaultSound ==
  ASSUME IInv, ClearFault
  PROVE  IInv'
<1> DEFINE m == [sm EXCEPT !.current_fault = NoFault]
           n == ProcessEvent(m, "FAULT_CLEARED", estop)
<1>1. Sound(m, fresh) /\ m.initialized /\ m.current_state = sm.current_state
  <2>1. sm # Zeroed /\ sm.initialized
    BY ZeroedFacts DEF ClearFault
  <2> QED
    BY <2>1 DEF IInv, Sound, Machine
<1>2. "FAULT_CLEARED" \in Events
  BY DEF Events
<1>3. Sound(n, fresh) /\ (n.current_state = "MOVE" /\ sm.current_state # "MOVE" => ~n.target_valid)
  <2> HIDE DEF m
  <2> QED
    BY <1>1, <1>2, ProcessKeepsSound DEF IInv
<1>4. Sound(n, Spend(sm, n)) /\ Spend(sm, n) \in BOOLEAN
  <2> HIDE DEF n
  <2> QED
    BY <1>3, BecomesSound DEF IInv
<1>5. sm' = n /\ fresh' = Spend(sm, n) /\ UNCHANGED <<estop, monitorSafe>>
  BY DEF ClearFault, Becomes
<1> QED
  BY <1>4, <1>5 DEF IInv

(* One update makes up to two transitions: the timeout's and the E-Stop's.       *)
LEMMA UpdateSound ==
  ASSUME IInv, Update
  PROVE  IInv'
<1>1. PICK checked \in {CheckStatus(sm, monitorSafe)} :
        \E timed \in {IF Expired(sm) THEN ProcessEvent(checked, "TIMEOUT", estop) ELSE checked} :
        \E done \in {IF estop THEN ProcessEvent(timed, "ESTOP_TRIGGERED", estop) ELSE timed} :
           Becomes(done)
  BY DEF Update
<1>2. PICK timed \in {IF Expired(sm) THEN ProcessEvent(checked, "TIMEOUT", estop) ELSE checked} :
        \E done \in {IF estop THEN ProcessEvent(timed, "ESTOP_TRIGGERED", estop) ELSE timed} :
           Becomes(done)
  BY <1>1
<1>3. PICK done \in {IF estop THEN ProcessEvent(timed, "ESTOP_TRIGGERED", estop) ELSE timed} :
        Becomes(done)
  BY <1>2
<1>4. /\ Sound(checked, fresh) /\ checked.initialized
      /\ checked.current_state = sm.current_state
  <2>1. sm # Zeroed /\ sm.initialized /\ sm \in Machine
    BY ZeroedFacts DEF Update, IInv, Sound
  <2>2. /\ checked \in Machine
        /\ checked.initialized = sm.initialized /\ checked.current_state = sm.current_state
        /\ checked.previous_state = sm.previous_state /\ checked.current_fault = sm.current_fault
        /\ checked.system_ready = sm.system_ready /\ checked.target_valid = sm.target_valid
    <3>1. checked = CheckStatus(sm, monitorSafe) /\ monitorSafe \in BOOLEAN
      BY <1>1 DEF IInv
    <3> QED
      BY <2>1, <3>1, CheckStatusFacts, Zenon
  <2> QED
    BY <2>1, <2>2 DEF IInv, Sound
<1>5. "TIMEOUT" \in Events /\ "ESTOP_TRIGGERED" \in Events
  BY DEF Events
<1>6. /\ Sound(timed, fresh) /\ timed.initialized
      /\ timed.current_state = "MOVE" /\ sm.current_state # "MOVE" => ~timed.target_valid
  BY <1>2, <1>4, <1>5, ProcessKeepsSound DEF IInv
<1>7. /\ Sound(done, fresh)
      /\ done.current_state = "MOVE" /\ sm.current_state # "MOVE" => ~done.target_valid
  BY <1>3, <1>5, <1>6, ProcessKeepsSound DEF IInv
<1>8. Sound(done, Spend(sm, done)) /\ Spend(sm, done) \in BOOLEAN
  BY <1>7, BecomesSound DEF IInv
<1>9. sm' = done /\ fresh' = Spend(sm, done) /\ UNCHANGED <<estop, monitorSafe>>
  BY <1>3 DEF Update, Becomes
<1> QED
  BY <1>8, <1>9 DEF IInv

(* The calls that write one field, and the clock.                                *)
LEMMA FieldSound ==
  ASSUME IInv, \/ \E b \in BOOLEAN : SetLocationOk(b) \/ SetTargetValid(b)
               \/ Tick
  PROVE  IInv'
<1>1. sm # Zeroed /\ sm.initialized /\ sm \in Machine
  BY ZeroedFacts DEF SetLocationOk, SetTargetValid, Tick, IInv, Sound
<1>2. CASE \E b \in BOOLEAN : SetLocationOk(b)
  BY <1>1, <1>2 DEF SetLocationOk, IInv, Sound, Machine
<1>3. CASE \E b \in BOOLEAN : SetTargetValid(b)
  BY <1>1, <1>3 DEF SetTargetValid, IInv, Sound, Machine
<1>4. CASE Tick
  <2>1. sm.age + 1 \in 0 .. MaxAge
    BY <1>1, <1>4, AgeAssumption DEF Tick, Machine
  <2> QED
    BY <1>1, <1>4, <2>1 DEF Tick, IInv, Sound, Machine
<1> QED
  BY <1>2, <1>3, <1>4

LEMMA NextSound == IInv /\ [Next]_vars => IInv'
<1> SUFFICES ASSUME IInv, [Next]_vars
             PROVE  IInv'
  OBVIOUS
<1>1. CASE SystemInit
  <2>1. sm' = Booted /\ fresh' = Spend(sm, Booted) /\ UNCHANGED <<estop, monitorSafe>>
    BY <1>1 DEF SystemInit, Becomes
  <2> QED
    BY <2>1, StartSound, BecomesSound, BootedFacts DEF IInv
<1>2. CASE Deinit
  <2>1. sm' = Zeroed /\ fresh' = Spend(sm, Zeroed) /\ UNCHANGED <<estop, monitorSafe>>
    BY <1>2 DEF Deinit, Becomes
  <2> QED
    BY <2>1, StartSound, BecomesSound, ZeroedFacts DEF IInv
<1>3. CASE ResumeFromPause
  <2>1. "RESUME_COMMAND" \in Events
    BY DEF Events
  <2> QED
    BY <1>3, <2>1, EventSound DEF ResumeFromPause, Process
<1>4. CASE \E e \in Raised : Process(e)
  BY <1>4, RaisedAssumption, EventSound DEF Process
<1>5. CASE \E f \in Faults : TriggerFault(f)
  BY <1>5, TriggerFaultSound
<1>6. CASE ClearFault
  BY <1>6, ClearFaultSound
<1>7. CASE Update
  BY <1>7, UpdateSound
<1>8. CASE Tick \/ \E b \in BOOLEAN : SetLocationOk(b) \/ SetTargetValid(b)
  BY <1>8, FieldSound
<1>9. CASE EStopInput \/ MonitorInput \/ UNCHANGED vars
  BY <1>9 DEF EStopInput, MonitorInput, vars, IInv
<1> QED
  BY <1>1, <1>2, <1>3, <1>4, <1>5, <1>6, <1>7, <1>8, <1>9 DEF Next

LEMMA Inductive == Spec => []IInv
  BY InitSound, NextSound, PTL DEF Spec

(* Type correctness.                                                             *)
THEOREM TypeCorrect == Spec => []TypeOK
<1>1. IInv => TypeOK
  BY DEF IInv, Sound, TypeOK
<1> QED
  BY <1>1, Inductive, PTL

(* The status flag system_ready tells the drive states from the others, whatever *)
(* the callers do.                                                               *)
THEOREM ReadyMatches == Spec => []ReadyMatchesState
<1>1. IInv => ReadyMatchesState
  BY DEF IInv, Sound, ReadyMatchesState
<1> QED
  BY <1>1, Inductive, PTL

(* No fault can be active in SAFE.                                               *)
THEOREM SafeIsClean == Spec => []SafeHasNoFault
<1>1. IInv => SafeHasNoFault
  BY DEF IInv, Sound, SafeHasNoFault
<1> QED
  BY <1>1, Inductive, PTL

(* The reported pair of states is always an edge of the table.                   *)
THEOREM HistoryIsEdge == Spec => []HistoryIsTable
<1>1. IInv => HistoryIsTable
  BY DEF IInv, Sound, HistoryIsTable
<1> QED
  BY <1>1, Inductive, PTL

(* No target outlives the movement it was granted for.                           *)
THEOREM TargetsAreFresh == Spec => []TargetIsFresh
<1>1. IInv => TargetIsFresh
  BY DEF IInv, Sound, TargetIsFresh
<1> QED
  BY <1>1, Inductive, PTL
-------------------------------------------------------------------------------------
LEMMA RowTaken ==
  ASSUME NEW m \in Machine, NEW e \in Events, NEW b,
         ProcessEvent(m, e, b).current_state # m.current_state
  PROVE  \E t \in Transitions :
           /\ t[1] = m.current_state /\ t[2] = e
           /\ t[3] = ProcessEvent(m, e, b).current_state
           /\ Holds(t[4], m, b)
<1>1. ProcessEvent(m, e, b).current_state = NextState(m, e, b)
  BY ProcessEventFacts
<1> QED
  BY <1>1, NextStateFires

(* What one step does to the machine: it starts anew, keeps its state and its    *)
(* last event, hears one event, or updates.                                      *)
LEMMA StepShape ==
  ASSUME IInv, [Next]_vars
  PROVE  \/ sm' \in {Booted, Zeroed}
         \/ /\ sm'.current_state = sm.current_state
            /\ sm'.last_event = sm.last_event /\ sm'.initialized = sm.initialized
         \/ \E m \in Machine, e \in Events, b \in BOOLEAN :
              /\ sm.initialized /\ m.initialized
              /\ m.current_state = sm.current_state
              /\ m.system_ready = sm.system_ready
              /\ m.target_valid = sm.target_valid
              /\ sm' = ProcessEvent(m, e, b)
         \/ Update
<1>1. /\ {"RESUME_COMMAND", "FAULT_DETECTED", "FAULT_CLEARED"} \subseteq Events
      /\ Raised \subseteq Events
  BY RaisedAssumption DEF Events
<1>2. sm \in Machine /\ estop \in BOOLEAN
  BY DEF IInv, Sound
<1>3. CASE SystemInit \/ Deinit
  BY <1>3 DEF SystemInit, Deinit, Becomes
<1>4. CASE ResumeFromPause \/ \E e \in Raised : Process(e)
  BY <1>1, <1>2, <1>4 DEF ResumeFromPause, Process, Becomes
<1>5. CASE ClearFault \/ \E f \in Faults : TriggerFault(f)
  <2>1. PICK g \in Faults \cup {NoFault}, e \in Events :
          /\ sm' = ProcessEvent([sm EXCEPT !.current_fault = g], e, estop)
          /\ sm.initialized
    BY <1>1, <1>5 DEF ClearFault, TriggerFault, Becomes
  <2> DEFINE m == [sm EXCEPT !.current_fault = g]
  <2>2. /\ m \in Machine /\ m.initialized /\ m.current_state = sm.current_state
        /\ m.system_ready = sm.system_ready /\ m.target_valid = sm.target_valid
    BY <1>2, <2>1 DEF Machine
  <2> HIDE DEF m
  <2>3. sm' = ProcessEvent(m, e, estop)
    BY <2>1 DEF m
  <2> QED
    BY <1>2, <2>1, <2>2, <2>3
<1>6. CASE Tick \/ \E b \in BOOLEAN : SetLocationOk(b) \/ SetTargetValid(b)
  BY <1>2, <1>6 DEF Tick, SetLocationOk, SetTargetValid, Machine
<1>7. CASE EStopInput \/ MonitorInput \/ UNCHANGED vars
  BY <1>7 DEF EStopInput, MonitorInput, vars
<1> QED
  BY <1>3, <1>4, <1>5, <1>6, <1>7 DEF Next

(* The two transitions of an update: a timeout can only lead to IDLE, the        *)
(* E-Stop only to ESTOP, and ESTOP and SAFE hear neither.                        *)
LEMMA UpdateShape ==
  ASSUME IInv, Update
  PROVE  \E timed \in Machine :
           /\ timed.initialized
           /\ \/ timed.current_state = sm.current_state
              \/ \E t \in Transitions : /\ t[1] = sm.current_state /\ t[2] = "TIMEOUT"
                                         /\ t[3] = timed.current_state
           /\ timed.last_event \in {sm.last_event, "TIMEOUT"}
           /\ sm' = IF estop THEN ProcessEvent(timed, "ESTOP_TRIGGERED", estop) ELSE timed
<1> DEFINE checked == CheckStatus(sm, monitorSafe)
           timed   == IF Expired(sm) THEN ProcessEvent(checked, "TIMEOUT", estop) ELSE checked
<1>1. sm' = IF estop THEN ProcessEvent(timed, "ESTOP_TRIGGERED", estop) ELSE timed
  BY Zenon DEF Update, Becomes
<1>2. "TIMEOUT" \in Events
  BY DEF Events
<1>3. sm \in Machine /\ monitorSafe \in BOOLEAN /\ sm.initialized
  BY DEF IInv, Sound, Update
<1>4. /\ checked \in Machine /\ checked.initialized
      /\ checked.current_state = sm.current_state /\ checked.last_event = sm.last_event
  BY <1>3, CheckStatusFacts
<1> HIDE DEF checked
<1>5. CASE Expired(sm)
  <2>1. timed = ProcessEvent(checked, "TIMEOUT", estop)
    BY <1>5
  <2>2. timed \in Machine /\ timed.initialized /\ timed.last_event = "TIMEOUT"
    BY <1>2, <1>4, <2>1, ProcessEventFacts
  <2>3. \/ timed.current_state = sm.current_state
        \/ \E t \in Transitions : /\ t[1] = sm.current_state /\ t[2] = "TIMEOUT"
                                   /\ t[3] = timed.current_state
    BY <1>2, <1>4, <2>1, RowTaken
  <2> HIDE DEF timed
  <2> QED
    BY <1>1, <2>2, <2>3
<1>6. CASE ~Expired(sm)
  <2>1. timed = checked
    BY <1>6
  <2> HIDE DEF timed
  <2> QED
    BY <1>1, <1>4, <2>1
<1> QED
  BY <1>5, <1>6

(* The state after an update, as a set of choices.                               *)
LEMMA UpdateTarget ==
  ASSUME IInv, Update
  PROVE  /\ sm.initialized /\ sm'.initialized
         /\ \/ sm'.current_state \in {sm.current_state, "ESTOP"}
            \/ sm'.current_state = "IDLE" /\ sm.current_state \notin {"ESTOP", "SAFE", "SHUTDOWN"}
         /\ sm.current_state \in {"ESTOP", "SAFE", "SHUTDOWN"} => sm'.current_state = sm.current_state
<1>1. PICK timed \in Machine :
           /\ timed.initialized
           /\ \/ timed.current_state = sm.current_state
              \/ \E t \in Transitions : /\ t[1] = sm.current_state /\ t[2] = "TIMEOUT"
                                         /\ t[3] = timed.current_state
           /\ timed.last_event \in {sm.last_event, "TIMEOUT"}
           /\ sm' = IF estop THEN ProcessEvent(timed, "ESTOP_TRIGGERED", estop) ELSE timed
  BY UpdateShape
<1>2. \/ timed.current_state = sm.current_state
      \/ timed.current_state = "IDLE" /\ sm.current_state \notin {"ESTOP", "SAFE", "SHUTDOWN"}
  BY <1>1, TableFacts
<1>3. "ESTOP_TRIGGERED" \in Events
  BY DEF Events
<1>4. CASE ~estop
  BY <1>1, <1>2, <1>4 DEF Update
<1>5. CASE estop
  <2>1. sm' = ProcessEvent(timed, "ESTOP_TRIGGERED", estop)
    BY <1>1, <1>5
  <2>2. sm'.initialized
    BY <1>1, <1>3, <2>1, ProcessEventFacts
  <2>3. \/ sm'.current_state = timed.current_state
        \/ sm'.current_state = "ESTOP" /\ timed.current_state \notin {"ESTOP", "SAFE", "SHUTDOWN"}
    BY <1>3, <2>1, RowTaken, TableFacts
  <2> QED
    BY <1>2, <2>2, <2>3 DEF Update
<1> QED
  BY <1>4, <1>5

(* No entry to MOVE, a resume included, without a target of its own.             *)
LEMMA EntryIsFresh ==
  ASSUME IInv, [Next]_vars, sm'.current_state = "MOVE", sm.current_state # "MOVE"
  PROVE  fresh
<1>1. ~Update
  BY UpdateTarget
<1>2. sm' \notin {Booted, Zeroed}
  BY BootedFacts, ZeroedFacts
<1>3. PICK m \in Machine, e \in Events, b \in BOOLEAN :
        /\ m.current_state = sm.current_state
        /\ m.target_valid = sm.target_valid
        /\ sm' = ProcessEvent(m, e, b)
  BY <1>1, <1>2, StepShape
<1>4. PICK t \in Transitions : t[3] = "MOVE" /\ Holds(t[4], m, b)
  BY <1>3, RowTaken
<1>5. m.target_valid
  <2>1. t[4] = "move_ready"
    BY <1>4, TableFacts
  <2> QED
    BY <1>4, <2>1 DEF Holds, MoveReady
<1> QED
  BY <1>3, <1>5 DEF IInv, Sound

(* A target starts one movement.                                                 *)
THEOREM OneMove == Spec => OneMovePerTarget
<1>1. IInv /\ [Next]_vars =>
        [sm'.current_state = "MOVE" /\ sm.current_state \notin {"MOVE", "PAUSED"} => fresh]_vars
  BY EntryIsFresh
<1> QED
  BY <1>1, Inductive, PTL DEF Spec, OneMovePerTarget

(* A paused movement is not taken up again on the target that it began with.     *)
THEOREM ResumeIsFresh == Spec => ResumeNeedsTarget
<1>1. IInv /\ [Next]_vars =>
        [sm'.current_state = "MOVE" /\ sm.current_state = "PAUSED" => fresh]_vars
  BY EntryIsFresh
<1> QED
  BY <1>1, Inductive, PTL DEF Spec, ResumeNeedsTarget

(* E-Stop is latched against timeouts and drive commands.                        *)
THEOREM Latched == Spec => EstopLatched
<1> DEFINE A == sm.current_state = "ESTOP" /\ sm'.current_state # "ESTOP" =>
                  \/ sm' \in {Booted, Zeroed}
                  \/ /\ sm'.last_event \in {"ESTOP_RESET", "FAULT_DETECTED", "SHUTDOWN", "SAFE_RESET"}
                     /\ sm'.current_state \in {"IDLE", "FAULT", "SHUTDOWN", "SAFE"}
<1>1. ASSUME IInv, [Next]_vars
      PROVE  A
  <2> SUFFICES ASSUME sm.current_state = "ESTOP", sm'.current_state # "ESTOP",
                      sm' \notin {Booted, Zeroed}
               PROVE  /\ sm'.last_event \in {"ESTOP_RESET", "FAULT_DETECTED", "SHUTDOWN", "SAFE_RESET"}
                      /\ sm'.current_state \in {"IDLE", "FAULT", "SHUTDOWN", "SAFE"}
    OBVIOUS
  <2>1. ~Update
    BY <1>1, UpdateTarget
  <2>2. PICK m \in Machine, e \in Events, b \in BOOLEAN :
          m.current_state = sm.current_state /\ sm' = ProcessEvent(m, e, b)
    BY <1>1, <2>1, StepShape
  <2>3. sm'.last_event = e
    BY <2>2, ProcessEventFacts
  <2> QED
    BY <2>2, <2>3, RowTaken, TableFacts
<1>2. IInv /\ [Next]_vars => [A]_vars
  BY <1>1
<1> QED
  BY <1>2, Inductive, PTL DEF Spec, EstopLatched

(* SAFE is left only for FAULT, or by a new start: its reset never fires.        *)
THEOREM SafeIsDeadEnd == Spec => SafeOnlyFaults
<1> DEFINE A == sm.current_state = "SAFE" =>
                  sm'.current_state \in {"SAFE", "FAULT"} \/ sm' \in {Booted, Zeroed}
<1>1. ASSUME IInv, [Next]_vars
      PROVE  A
  <2> SUFFICES ASSUME sm.current_state = "SAFE", sm'.current_state # "SAFE",
                      sm' \notin {Booted, Zeroed}
               PROVE  sm'.current_state = "FAULT"
    OBVIOUS
  <2>1. ~Update
    BY <1>1, UpdateTarget
  <2>2. PICK m \in Machine, e \in Events, b \in BOOLEAN :
          /\ sm.initialized
          /\ m.current_state = sm.current_state /\ m.system_ready = sm.system_ready
          /\ sm' = ProcessEvent(m, e, b)
    BY <1>1, <2>1, StepShape
  <2>3. ~m.system_ready
    BY <1>1, <2>2 DEF IInv, Sound, Operational
  <2>4. PICK t \in Transitions : /\ t[1] = "SAFE" /\ Holds(t[4], m, b)
                                 /\ t[3] = sm'.current_state
    BY <2>2, RowTaken
  <2>5. t[4] # "system_ready"
    BY <2>3, <2>4 DEF Holds, SystemReady
  <2> QED
    BY <2>4, <2>5, TableFacts
<1>2. IInv /\ [Next]_vars => [A]_vars
  BY <1>1
<1> QED
  BY <1>2, Inductive, PTL DEF Spec, SafeOnlyFaults

(* An update with the button pressed ends in a state that cannot drive.          *)
THEOREM ObeysEstop == Spec => UpdateObeysEstop
<1> DEFINE A == Update /\ estop => sm'.current_state \in {"ESTOP", "SAFE", "SHUTDOWN"}
<1>1. ASSUME IInv, Update, estop
      PROVE  sm'.current_state \in {"ESTOP", "SAFE", "SHUTDOWN"}
  <2>1. PICK timed \in Machine : sm' = ProcessEvent(timed, "ESTOP_TRIGGERED", estop)
    BY <1>1, UpdateShape
  <2>2. CASE timed.current_state \notin {"ESTOP", "SAFE", "SHUTDOWN"}
    BY <2>1, <2>2, EstopHeard
  <2>3. CASE timed.current_state \in {"ESTOP", "SAFE", "SHUTDOWN"}
    <3>1. "ESTOP_TRIGGERED" \in Events
      BY DEF Events
    <3> QED
      BY <2>1, <2>3, <3>1, RowTaken, TableFacts
  <2> QED
    BY <2>2, <2>3
<1>2. IInv /\ [Next]_vars => [A]_vars
  BY <1>1
<1> QED
  BY <1>2, Inductive, PTL DEF Spec, UpdateObeysEstop
-------------------------------------------------------------------------------------
(* The refinement of DriveSafety.  A row of the table is a step of it, read as   *)
(* phases of an initialised machine.                                             *)
PhaseOf(s) == IF s = "SHUTDOWN" THEN "off"
              ELSE IF s \in {"BOOT", "INIT"} THEN "starting"
              ELSE IF s \in {"ESTOP", "FAULT", "SAFE"} THEN "halted"
              ELSE IF s \in Motion THEN "motion" ELSE "standby"

LEMMA PhaseFacts ==
  ASSUME NEW m
  PROVE  /\ m.initialized => Phase(m) = PhaseOf(m.current_state)
         /\ ~m.initialized => Phase(m) = "off"
  BY DEF Phase, PhaseOf

LEMMA RowIsSafe ==
  ASSUME NEW t \in Transitions
  PROVE  LET p == PhaseOf(t[1])  q == PhaseOf(t[3]) IN
         \/ p = q
         \/ p = "starting" /\ q = "standby" /\ t[2] = "INIT_COMPLETE"
         \/ p = "standby" /\ q = "motion"
              /\ t[2] \in {"MOVE_COMMAND", "DOCK_COMMAND", "RESUME_COMMAND"}
         \/ p = "motion" /\ q = "standby"
         \/ p # "off" /\ q = "halted"
              /\ t[2] \in {"ESTOP_TRIGGERED", "FAULT_DETECTED", "CONFIG_FAILED"}
         \/ p = "halted" /\ q = "standby"
              /\ t[2] \in {"ESTOP_RESET", "FAULT_CLEARED", "SAFE_RESET"}
         \/ q = "off" /\ t[2] = "SHUTDOWN"
<1>1. /\ PhaseOf("INIT") = "starting" /\ PhaseOf("BOOT") = "starting"
      /\ PhaseOf("IDLE") = "standby" /\ PhaseOf("PAUSED") = "standby"
      /\ PhaseOf("CONFIG") = "standby"
      /\ PhaseOf("MOVE") = "motion" /\ PhaseOf("DOCK") = "motion"
      /\ PhaseOf("FAULT") = "halted" /\ PhaseOf("ESTOP") = "halted"
      /\ PhaseOf("SAFE") = "halted" /\ PhaseOf("SHUTDOWN") = "off"
  BY DEF PhaseOf, Motion
<1>2. /\ t[1] \in States \ {"SHUTDOWN"} /\ t[3] \in States
      /\ t[3] = "SHUTDOWN" => t[2] = "SHUTDOWN"
      /\ t[3] \in {"BOOT", "INIT"} => t[1] \in {"BOOT", "INIT"}
      /\ t[3] \in {"ESTOP", "FAULT", "SAFE"} =>
           \/ t[1] \in {"ESTOP", "FAULT", "SAFE"}
           \/ t[2] \in {"ESTOP_TRIGGERED", "FAULT_DETECTED", "CONFIG_FAILED"}
      /\ t[3] \in {"MOVE", "DOCK"} =>
           \/ t[1] \in {"MOVE", "DOCK"}
           \/ /\ t[1] \in {"IDLE", "PAUSED", "CONFIG"}
              /\ t[2] \in {"MOVE_COMMAND", "DOCK_COMMAND", "RESUME_COMMAND"}
      /\ t[3] \in {"IDLE", "PAUSED", "CONFIG"} =>
           \/ t[1] \in {"IDLE", "PAUSED", "CONFIG", "MOVE", "DOCK"}
           \/ t[1] \in {"BOOT", "INIT"} /\ t[2] = "INIT_COMPLETE"
           \/ /\ t[1] \in {"ESTOP", "FAULT", "SAFE"}
              /\ t[2] \in {"ESTOP_RESET", "FAULT_CLEARED", "SAFE_RESET"}
  BY DEF Transitions, States
<1> QED
  BY <1>1, <1>2 DEF States

LEMMA StepIsSafe == IInv /\ [Next]_vars => [Drive!SafetyNext]_Drive!safetyVars
<1> SUFFICES ASSUME IInv, [Next]_vars
             PROVE  [Drive!SafetyNext]_Drive!safetyVars
  OBVIOUS
<1> USE DEF Drive!SafetyNext, Drive!PowerUp, Drive!PowerOff, Drive!Hear, Drive!StartUp,
            Drive!Depart, Drive!Rest, Drive!Halt, Drive!Acknowledge
<1>1. CASE sm' = Booted
  <2>1. Phase(sm)' = "starting" /\ sm'.last_event = "NONE"
    BY <1>1, BootedFacts, PhaseFacts DEF PhaseOf
  <2> QED
    BY <2>1
<1>2. CASE sm' = Zeroed
  <2>1. Phase(sm)' = "off" /\ sm'.last_event = "NONE"
    BY <1>2, ZeroedFacts, PhaseFacts DEF Zeroed
  <2> QED
    BY <2>1
<1>3. CASE sm'.current_state = sm.current_state /\ sm'.initialized = sm.initialized
  <2>1. Phase(sm)' = Phase(sm)
    BY <1>3 DEF Phase
  <2> QED
    BY <2>1
<1>4. ASSUME NEW m \in Machine, NEW e \in Events, NEW b \in BOOLEAN,
             sm.initialized, m.initialized, m.current_state = sm.current_state,
             sm' = ProcessEvent(m, e, b)
      PROVE  Drive!SafetyNext
  <2>1. sm'.initialized /\ sm'.last_event = e
    BY <1>4, ProcessEventFacts
  <2>2. /\ Phase(sm) = PhaseOf(sm.current_state)
        /\ Phase(sm)' = PhaseOf(sm'.current_state)
    BY <1>4, <2>1, PhaseFacts
  <2>3. CASE sm'.current_state = sm.current_state
    BY <2>2, <2>3
  <2>4. CASE sm'.current_state # sm.current_state
    <3>1. PICK t \in Transitions : /\ t[1] = sm.current_state /\ t[2] = e
                                   /\ t[3] = sm'.current_state /\ Holds(t[4], m, b)
      BY <1>4, <2>4, RowTaken
    <3> QED
      BY <2>1, <2>2, <3>1, RowIsSafe
  <2> QED
    BY <2>3, <2>4
<1>5. CASE Update
  <2>1. PICK timed \in Machine :
           /\ timed.initialized
           /\ \/ timed.current_state = sm.current_state
              \/ \E t \in Transitions : /\ t[1] = sm.current_state /\ t[2] = "TIMEOUT"
                                         /\ t[3] = timed.current_state
           /\ sm' = IF estop THEN ProcessEvent(timed, "ESTOP_TRIGGERED", estop) ELSE timed
    BY <1>5, UpdateShape
  <2>2. /\ Phase(sm) = PhaseOf(sm.current_state)
        /\ Phase(sm)' = PhaseOf(sm'.current_state)
    BY <1>5, UpdateTarget, PhaseFacts
  <2>3. \/ PhaseOf(timed.current_state) = Phase(sm)
        \/ Phase(sm) = "motion" /\ PhaseOf(timed.current_state) = "standby"
    BY <2>1, <2>2, RowIsSafe, TableFacts
  <2>4. CASE ~estop
    BY <2>1, <2>2, <2>3, <2>4
  <2>5. CASE estop
    <3>1. sm' = ProcessEvent(timed, "ESTOP_TRIGGERED", estop) /\ "ESTOP_TRIGGERED" \in Events
      BY <2>1, <2>5 DEF Events
    <3>2. sm'.last_event = "ESTOP_TRIGGERED"
      BY <3>1, ProcessEventFacts
    <3>3. \/ sm'.current_state = timed.current_state
             /\ timed.current_state \in {"ESTOP", "SAFE", "SHUTDOWN"}
          \/ sm'.current_state = "ESTOP" /\ timed.current_state \notin {"ESTOP", "SAFE", "SHUTDOWN"}
      BY <3>1, EstopHeard, RowTaken, TableFacts
    <3> QED
      BY <2>2, <2>3, <3>2, <3>3 DEF PhaseOf, Motion
  <2> QED
    BY <2>4, <2>5
<1> QED
  BY <1>1, <1>2, <1>3, <1>4, <1>5, StepShape

(* The state machine implements the abstract drive-safety specification.         *)
THEOREM Refinement == Spec => DriveIsSafe
<1>1. Init => Drive!SafetyInit
  BY PhaseFacts, ZeroedFacts DEF Init, Drive!SafetyInit, Zeroed
<1> QED
  BY <1>1, StepIsSafe, Inductive, PTL DEF Spec, DriveIsSafe, Drive!SafetySpec
=====================================================================================
