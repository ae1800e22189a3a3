---------------------------- MODULE SystemStates_proofs ----------------------------
(* Lemmas about the table and the pure functions of the state machine, for the   *)
(* proofs of the specifications that are built from them.                        *)
EXTENDS SystemStates, TLAPS

(* What the proofs use of the 42 rows: where the drive states and SAFE are       *)
(* entered from, and how ESTOP and SAFE are left.                                *)
LEMMA TableFacts ==
  ASSUME NEW t \in Transitions
  PROVE  /\ t[1] \in States /\ t[2] \in Events /\ t[3] \in States
         /\ t[3] \in {"MOVE", "DOCK", "PAUSED"} => t[1] \in {"IDLE", "MOVE", "DOCK", "PAUSED"}
         /\ t[3] = "SAFE" => t[4] = "safety_verified"
         /\ t[1] = "SAFE" => /\ t[4] = "system_ready" \/ t[3] = "FAULT"
                             /\ t[2] \notin {"TIMEOUT", "ESTOP_TRIGGERED"}
         /\ t[2] = "TIMEOUT" => t[3] = "IDLE"
         /\ t[2] = "ESTOP_TRIGGERED" => t[3] = "ESTOP"
         /\ t[3] = "MOVE" => t[4] = "move_ready"
         /\ t[1] = "ESTOP" =>
              /\ t[2] \in {"ESTOP_RESET", "FAULT_DETECTED", "SHUTDOWN", "SAFE_RESET"}
              /\ t[3] \in {"IDLE", "FAULT", "SHUTDOWN", "SAFE"}
         /\ t[1] # "SHUTDOWN" /\ t[3] # "BOOT"
  BY DEF Transitions, States, Events

(* A change of state is a row of the table whose condition held.                 *)
LEMMA NextStateFires ==
  ASSUME NEW m \in Machine, NEW e, NEW b, NextState(m, e, b) # m.current_state
  PROVE  \E t \in Transitions : /\ t[1] = m.current_state /\ t[2] = e
                                /\ Holds(t[4], m, b)
                                /\ t[3] = NextState(m, e, b)
<1>1. Firing(m, e, b) # {}
  BY DEF NextState
<1>2. PICK t \in Firing(m, e, b) : NextState(m, e, b) = t[3]
  BY <1>1 DEF NextState
<1>3. m.current_state \in States
  BY DEF Machine
<1>4. t \in Rows[m.current_state] /\ t[2] = e /\ Holds(t[4], m, b)
  BY <1>2 DEF Firing
<1>5. t \in Transitions /\ t[1] = m.current_state
  BY <1>3, <1>4 DEF Rows, RowsFrom
<1> QED
  BY <1>2, <1>4, <1>5

LEMMA NextStateType ==
  ASSUME NEW m \in Machine, NEW e, NEW b
  PROVE  NextState(m, e, b) \in States
<1>1. CASE NextState(m, e, b) = m.current_state
  BY <1>1 DEF Machine
<1>2. CASE NextState(m, e, b) # m.current_state
  BY <1>2, NextStateFires, TableFacts
<1> QED
  BY <1>1, <1>2

(* Entering a state keeps the record well typed.                                 *)
LEMMA CommitType ==
  ASSUME NEW m \in Machine, NEW s \in States
  PROVE  /\ Commit(m, s) \in Machine
         /\ Commit(m, s).current_state = s
         /\ Commit(m, s).previous_state = m.current_state
         /\ Commit(m, s).last_event = m.last_event
         /\ Commit(m, s).initialized = m.initialized
         /\ Commit(m, s).current_fault = m.current_fault
         /\ Commit(m, s).system_ready = m.system_ready
         /\ Commit(m, s).target_valid = m.target_valid
<1>1. 0 \in 0 .. MaxAge
  BY AgeAssumption
<1> QED
  BY <1>1 DEF Commit, Machine

LEMMA EnterType ==
  ASSUME NEW m \in Machine, NEW s \in States
  PROVE  LET n == Enter(m, s) IN
         /\ n \in Machine
         /\ n.current_state = m.current_state
         /\ n.previous_state = m.previous_state
         /\ n.last_event = m.last_event
         /\ n.initialized = m.initialized
         /\ n.current_fault = m.current_fault
         /\ n.system_ready = ReadyAfter(s, m.system_ready)
         /\ n.target_valid = TargetAfter(s, m.target_valid)
<1> DEFINE ready  == ReadyAfter(s, m.system_ready)
           target == TargetAfter(s, m.target_valid)
           safety == s \in {"IDLE", "SAFE"} \/ (s \notin {"INIT", "BOOT", "ESTOP"} /\ m.safety_ok)
           comm   == s \notin {"INIT", "BOOT"} /\ m.communication_ok
           sens   == s \notin {"INIT", "BOOT"} /\ m.sensors_ok
           loc    == s = "PAUSED" /\ m.location_ok
<1>1. /\ ready \in BOOLEAN /\ target \in BOOLEAN /\ safety \in BOOLEAN
      /\ comm \in BOOLEAN /\ sens \in BOOLEAN /\ loc \in BOOLEAN
  BY Zenon DEF ReadyAfter, TargetAfter
<1>2. Enter(m, s) = [m EXCEPT !.system_ready = ready, !.safety_ok = safety,
                              !.communication_ok = comm, !.sensors_ok = sens,
                              !.location_ok = loc, !.target_valid = target]
  BY Zenon DEF Enter
<1> HIDE DEF ready, target, safety, comm, sens, loc
<1>3. /\ Enter(m, s) \in Machine
      /\ Enter(m, s).current_state = m.current_state
      /\ Enter(m, s).previous_state = m.previous_state
      /\ Enter(m, s).last_event = m.last_event
      /\ Enter(m, s).initialized = m.initialized
      /\ Enter(m, s).current_fault = m.current_fault
      /\ Enter(m, s).system_ready = ready
      /\ Enter(m, s).target_valid = target
  BY <1>1, <1>2 DEF Machine
<1> QED
  BY <1>3, Zenon DEF ready, target

(* process_event either only records the event, or takes a row of the table.     *)
LEMMA ProcessEventFacts ==
  ASSUME NEW m \in Machine, NEW e \in Events, NEW b
  PROVE  LET n == ProcessEvent(m, e, b) IN
         /\ n \in Machine
         /\ n.last_event = e
         /\ n.initialized = m.initialized
         /\ n.current_fault = m.current_fault
         /\ n.current_state = NextState(m, e, b)
         /\ \/ n = [m EXCEPT !.last_event = e]
            \/ /\ n.current_state # m.current_state
               /\ n.previous_state = m.current_state
               /\ n.system_ready = ReadyAfter(n.current_state, m.system_ready)
               /\ n.target_valid = TargetAfter(n.current_state, m.target_valid)
<1> DEFINE heard == [m EXCEPT !.last_event = e]
           new   == NextState(m, e, b)
<1>1. heard \in Machine /\ new \in States
  BY NextStateType DEF Machine
<1>2. /\ heard.last_event = e /\ heard.initialized = m.initialized
      /\ heard.current_fault = m.current_fault /\ heard.current_state = m.current_state
      /\ heard.system_ready = m.system_ready /\ heard.target_valid = m.target_valid
  BY DEF Machine
<1>3. CASE new = m.current_state
  <2>1. ProcessEvent(m, e, b) = heard
    BY <1>3 DEF ProcessEvent
  <2> QED
    BY <2>1, <1>1, <1>2, <1>3
<1>4. CASE new # m.current_state
  <2>1. ProcessEvent(m, e, b) = Enter(Commit(heard, new), new)
    BY <1>4 DEF ProcessEvent
  <2> HIDE DEF heard, new
  <2> QED
    BY <2>1, <1>1, <1>2, <1>4, CommitType, EnterType DEF new
<1> QED
  BY <1>3, <1>4
------------------------------------------------------------------------------------
LEMMA ZeroedFacts == /\ Zeroed \in Machine /\ ~Zeroed.initialized
                     /\ Zeroed.current_state = "INIT" /\ ~Zeroed.target_valid
<1>1. 0 \in 0 .. MaxAge
  BY AgeAssumption
<1> QED
  BY <1>1 DEF Zeroed, Machine, States

LEMMA BootedFacts == /\ Booted \in Machine /\ Booted.initialized
                     /\ Booted.current_state = "BOOT" /\ Booted.previous_state = "BOOT"
                     /\ ~Booted.target_valid /\ ~Booted.system_ready
                     /\ Booted.last_event = "NONE"
<1>1. 0 \in 0 .. MaxAge
  BY AgeAssumption
<1> QED
  BY <1>1 DEF Booted, Zeroed, Machine, States

LEMMA CheckStatusFacts ==
  ASSUME NEW m \in Machine, NEW ok \in BOOLEAN
  PROVE  LET n == CheckStatus(m, ok) IN
         /\ n \in Machine
         /\ n.initialized = m.initialized /\ n.current_state = m.current_state
         /\ n.previous_state = m.previous_state /\ n.last_event = m.last_event
         /\ n.current_fault = m.current_fault /\ n.system_ready = m.system_ready
         /\ n.target_valid = m.target_valid
  BY DEF CheckStatus, Machine

(* Eight states hear the E-Stop.                                                 *)
LEMMA EstopHeard ==
  ASSUME NEW m \in Machine, NEW b, m.current_state \notin {"ESTOP", "SAFE", "SHUTDOWN"}
  PROVE  /\ NextState(m, "ESTOP_TRIGGERED", b) = "ESTOP"
         /\ ProcessEvent(m, "ESTOP_TRIGGERED", b).current_state = "ESTOP"
<1>1. "ESTOP_TRIGGERED" \in Events /\ m.current_state \in States
  BY DEF Events, Machine
<1>2. \A s \in States \ {"ESTOP", "SAFE", "SHUTDOWN"} :
        <<s, "ESTOP_TRIGGERED", "ESTOP", "always">> \in Transitions
  BY DEF States, Transitions
<1>3. <<m.current_state, "ESTOP_TRIGGERED", "ESTOP", "always">> \in Firing(m, "ESTOP_TRIGGERED", b)
  BY <1>1, <1>2 DEF Firing, Rows, RowsFrom, Holds
<1>4. \A t \in Firing(m, "ESTOP_TRIGGERED", b) : t[3] = "ESTOP"
  BY <1>1, TableFacts DEF Firing, Rows, RowsFrom
<1>5. NextState(m, "ESTOP_TRIGGERED", b) = "ESTOP"
  BY <1>3, <1>4 DEF NextState
<1> QED
  BY <1>1, <1>5, ProcessEventFacts
====================================================================================
