---------------------------- MODULE SafetyChain_proofs -----------------------------
(* Theorems about the interleaved firmware, for every set of faults, timeout      *)
(* table and clock bound, and whether or not targets are ever granted.            *)
EXTENDS SafetyChain, SystemStates_proofs, TLAPS

(* The states without an ESTOP_TRIGGERED row, and the events main's loop raises.  *)
Stopped    == {"ESTOP", "SAFE", "SHUTDOWN"}
MainEvents == {"NONE", "BOOT_COMPLETE", "INIT_COMPLETE", "TIMEOUT", "ESTOP_TRIGGERED", "SHUTDOWN"}

Calls == [step : {"idle", "find", "commit", "enter"}, event : Events \cup {"NONE"}, to : States]

(* Where main is in its call decides what still keeps the machine stopped: the    *)
(* state itself, the event it raises, or the state it is about to write.          *)
Holding(c, s) == /\ c.step \in {"idle", "enter"} => s \in Stopped
                 /\ c.step = "find"   => s \in Stopped \/ c.event = "ESTOP_TRIGGERED"
                 /\ c.step = "commit" => c.to \in Stopped

(* The inductive invariant.                                                       *)
IInv == /\ TypeOK
        /\ call["main"].event \in MainEvents
        /\ quiet => Holding(call["main"], sm.current_state)

(* No event of main's leads out of the stopped states.                            *)
LEMMA MainStaysStopped ==
  ASSUME NEW m \in Machine, NEW e \in MainEvents, NEW b, m.current_state \in Stopped
  PROVE  NextState(m, e, b) \in Stopped
<1>1. CASE NextState(m, e, b) = m.current_state
  BY <1>1
<1>2. CASE NextState(m, e, b) # m.current_state
  <2>1. PICK t \in Transitions :
           t[1] = m.current_state /\ t[2] = e /\ t[3] = NextState(m, e, b)
    BY <1>2, NextStateFires
  <2> QED
    BY <2>1 DEF Transitions, Stopped, MainEvents
<1> QED
  BY <1>1, <1>2

LEMMA CallFields ==
  ASSUME NEW c, c \in [Threads -> Calls], NEW t \in Threads
  PROVE  /\ c[t] \in Calls
         /\ \A d \in Calls : [c EXCEPT ![t] = d] \in [Threads -> Calls]
         /\ \A d \in Calls : [c EXCEPT ![t] = d][t] = d
         /\ \A d \in Calls, u \in Threads \ {t} : [c EXCEPT ![t] = d][u] = c[u]
  OBVIOUS

LEMMA ThreadFacts == "main" \in Threads /\ "api" \in Threads /\ \A t \in Threads : t \in {"main", "api"}
  BY DEF Threads

LEMMA CallingType ==
  ASSUME NEW e \in Events
  PROVE  Calling(e) \in Calls /\ Calling(e).step = "find" /\ Calling(e).event = e
  BY DEF Calling, Calls, States

LEMMA IdleFacts == Idle \in Calls /\ Idle.step = "idle" /\ Idle.event = "NONE"
  BY DEF Idle, Calls, States

LEMMA InitHolds == Init => IInv
<1> SUFFICES ASSUME Init PROVE IInv
  OBVIOUS
<1>1. sm \in Machine
  BY BootedFacts DEF Init
<1>2. call \in [Threads -> Calls] /\ call["main"] = Idle
  BY IdleFacts, ThreadFacts DEF Init, Idle, Calls, States
<1>3. call["main"].event \in MainEvents
  BY <1>2, IdleFacts DEF MainEvents
<1>4. TypeOK
  BY <1>1, <1>2 DEF Init, TypeOK, Calls, LoopPcs
<1> QED
  BY <1>3, <1>4 DEF Init, IInv
-----------------------------------------------------------------------------------
(* A step of the other parts of the system: it leaves main's call and the state,  *)
(* and does not claim that the latch was acted on.                                *)
LEMMA Undisturbed ==
  ASSUME IInv, sm' \in Machine, sm'.current_state = sm.current_state,
         call' \in [Threads -> Calls], call'["main"] = call["main"],
         latched' \in BOOLEAN, serving' \in BOOLEAN, lapped' \in BOOLEAN,
         loop' \in LoopPcs, quiet' = quiet
  PROVE  IInv'
  BY DEF IInv, TypeOK, Calls, Holding

LEMMA FindHolds ==
  ASSUME IInv, NEW t \in Threads, Find(t)
  PROVE  IInv'
<1> DEFINE c   == call[t]
           new == NextState(sm, c.event, latched)
           d   == IF new = sm.current_state THEN Idle
                  ELSE [c EXCEPT !.step = "commit", !.to = new]
<1>1. /\ sm \in Machine /\ call \in [Threads -> Calls] /\ c \in Calls
      /\ c.step = "find" /\ c.event \in Events \cup {"NONE"}
  BY CallFields DEF IInv, TypeOK, Calls, Find
<1>2. new \in States
  BY <1>1, NextStateType
<1>3. /\ d \in Calls
      /\ \/ d = Idle /\ new = sm.current_state
         \/ d.step = "commit" /\ d.to = new /\ d.event = c.event
  <2> HIDE DEF c, new
  <2> QED
    BY <1>1, <1>2, IdleFacts DEF Calls
<1>4. call' = [call EXCEPT ![t] = d] /\ sm' = [sm EXCEPT !.last_event = c.event]
  BY Zenon DEF Find
<1>5. sm' \in Machine /\ sm'.current_state = sm.current_state
  BY <1>1, <1>4 DEF Machine
<1> HIDE DEF d
<1>6. call' \in [Threads -> Calls] /\ call'[t] = d
  BY <1>1, <1>3, <1>4
<1>7. UNCHANGED <<latched, loop, serving, lapped, quiet>>
  BY DEF Find
<1>8. CASE t = "main"
  <2>1. d.event \in MainEvents
    BY <1>3, <1>8, IdleFacts DEF IInv, MainEvents
  <2>2. ASSUME quiet PROVE Holding(d, sm.current_state)
    <3>1. sm.current_state \in Stopped \/ c.event = "ESTOP_TRIGGERED"
      BY <1>1, <1>8, <2>2 DEF IInv, Holding
    <3>2. sm.current_state \in Stopped => new \in Stopped
      BY <1>1, <1>8, MainStaysStopped DEF IInv
    <3>3. sm.current_state \notin Stopped /\ c.event = "ESTOP_TRIGGERED" => new = "ESTOP"
      BY <1>1, EstopHeard DEF Stopped
    <3> HIDE DEF new, c
    <3>4. new \in Stopped
      BY <3>1, <3>2, <3>3 DEF Stopped
    <3> QED
      BY <1>3, <3>4, IdleFacts DEF Holding
  <2> QED
    BY <1>5, <1>6, <1>7, <1>8, <2>1, <2>2 DEF IInv, TypeOK, Calls
<1>9. CASE t # "main"
  BY <1>1, <1>4, <1>5, <1>6, <1>7, <1>9, ThreadFacts, Undisturbed DEF IInv, TypeOK
<1> QED
  BY <1>8, <1>9

LEMMA WriteHolds ==
  ASSUME IInv, NEW t \in Threads, Write(t)
  PROVE  IInv'
<1> DEFINE c == call[t]
           d == [c EXCEPT !.step = "enter"]
<1>1. /\ sm \in Machine /\ call \in [Threads -> Calls] /\ c \in Calls
      /\ c.step = "commit" /\ c.to \in States
  BY CallFields DEF IInv, TypeOK, Calls, Write
<1>2. d \in Calls /\ d.step = "enter" /\ d.event = c.event
  BY <1>1 DEF Calls
<1>3. call' = [call EXCEPT ![t] = d] /\ sm' = Commit(sm, c.to)
  BY Zenon DEF Write
<1>4. sm' \in Machine /\ sm'.current_state = c.to
  BY <1>1, <1>3, CommitType
<1> HIDE DEF d
<1>5. call' \in [Threads -> Calls] /\ call'[t] = d
  BY <1>1, <1>2, <1>3
<1>6. /\ UNCHANGED <<latched, loop, serving>>
      /\ lapped' \in BOOLEAN /\ quiet' \in BOOLEAN
      /\ quiet' => quiet /\ t = "main"
  BY Zenon DEF Write, IInv, TypeOK
<1>7. TypeOK'
  BY <1>4, <1>5, <1>6 DEF IInv, TypeOK, Calls
<1>8. call'["main"].event \in MainEvents
  BY <1>1, <1>2, <1>3, <1>5, ThreadFacts DEF IInv
<1>9. ASSUME quiet' PROVE Holding(call'["main"], sm'.current_state)
  <2>1. c.to \in Stopped
    BY <1>1, <1>6, <1>9 DEF IInv, Holding
  <2> QED
    BY <1>2, <1>4, <1>5, <1>6, <1>9, <2>1 DEF Holding
<1> QED
  BY <1>7, <1>8, <1>9 DEF IInv

LEMMA EnterHolds ==
  ASSUME IInv, NEW t \in Threads, EnterState(t)
  PROVE  IInv'
<1>1. /\ sm \in Machine /\ call \in [Threads -> Calls] /\ call[t] \in Calls
      /\ call[t].step = "enter" /\ call[t].to \in States
  BY CallFields DEF IInv, TypeOK, Calls, EnterState
<1>2. sm' \in Machine /\ sm'.current_state = sm.current_state
  BY <1>1, EnterType DEF EnterState
<1>3. call' = [call EXCEPT ![t] = Idle]
  BY DEF EnterState
<1>4. call' \in [Threads -> Calls] /\ call'[t] = Idle
  BY <1>1, <1>3, IdleFacts
<1>5. UNCHANGED <<latched, loop, serving, lapped, quiet>>
  BY DEF EnterState
<1>6. CASE t = "main"
  <2>1. call'["main"].event \in MainEvents
    BY <1>4, <1>6, IdleFacts DEF MainEvents
  <2>2. quiet => Holding(Idle, sm.current_state)
    BY <1>1, <1>6, IdleFacts DEF IInv, Holding
  <2> QED
    BY <1>2, <1>4, <1>5, <1>6, <2>1, <2>2 DEF IInv, TypeOK, Calls
<1>7. CASE t # "main"
  BY <1>1, <1>2, <1>3, <1>4, <1>5, <1>7, ThreadFacts, Undisturbed DEF IInv, TypeOK
<1> QED
  BY <1>6, <1>7

(* main's loop starts a call only when it has none, so with the state held; its   *)
(* first E-Stop test of a pass claims the latch together with the event.          *)
LEMMA RaiseHolds ==
  ASSUME IInv, NEW pc, NEW next \in LoopPcs, NEW test, NEW e \in MainEvents \ {"NONE"},
         At(pc), MainRaises(test, e, next),
         sm' = sm, latched' = latched, serving' \in BOOLEAN, lapped' = lapped,
         quiet' \in BOOLEAN,
         quiet' => quiet \/ (test /\ e = "ESTOP_TRIGGERED")
  PROVE  IInv'
<1> DEFINE c == call["main"]
<1>1. call \in [Threads -> Calls] /\ c \in Calls /\ c.step = "idle"
  BY ThreadFacts, CallFields DEF IInv, TypeOK, Calls, At
<1>2. e \in Events
  BY DEF MainEvents, Events
<1>3. CASE test
  <2>1. call' = [call EXCEPT !["main"] = Calling(e)] /\ loop' = next
    BY <1>3, Zenon DEF MainRaises
  <2>2. call' \in [Threads -> Calls] /\ call'["main"] = Calling(e)
    BY <1>1, <1>2, <2>1, CallingType, ThreadFacts
  <2>3. quiet' => sm.current_state \in Stopped \/ e = "ESTOP_TRIGGERED"
    BY <1>1 DEF IInv, Holding
  <2> QED
    BY <1>2, <2>1, <2>2, <2>3, CallingType DEF IInv, TypeOK, Calls, Holding
<1>4. CASE ~test
  <2>1. call' = [call EXCEPT !["main"] = @] /\ loop' = next
    BY <1>4, Zenon DEF MainRaises
  <2>2. call' = call
    BY <1>1, <2>1, ThreadFacts
  <2> QED
    BY <1>4, <2>1, <2>2 DEF IInv, TypeOK, Calls, Holding
<1> QED
  BY <1>3, <1>4

LEMMA MainHolds == IInv /\ (Boot \/ Loop \/ Stop) => IInv'
<1> SUFFICES ASSUME IInv, Boot \/ Loop \/ Stop PROVE IInv'
  OBVIOUS
<1>t. TypeOK
  BY DEF IInv
<1>1. CASE Boot
  <2>1. CASE At("boot") /\ MainRaises(TRUE, "BOOT_COMPLETE", "init") /\ UNCHANGED serving
    BY <1>t, <1>1, <2>1, RaiseHolds DEF Boot, TypeOK, LoopPcs, MainEvents
  <2>2. CASE At("init") /\ MainRaises(TRUE, "INIT_COMPLETE", "start") /\ UNCHANGED serving
    BY <1>t, <1>1, <2>2, RaiseHolds DEF Boot, TypeOK, LoopPcs, MainEvents
  <2>3. CASE At("start") /\ loop' = "check" /\ serving' = TRUE /\ UNCHANGED call
    BY <1>t, <1>1, <2>3, Undisturbed DEF Boot, TypeOK, LoopPcs, Calls
  <2> QED
    BY <1>1, <2>1, <2>2, <2>3 DEF Boot
<1>2. CASE LoopCheck
  <2>1. PICK ok \in BOOLEAN : sm' = CheckStatus(sm, ok)
    BY <1>2 DEF LoopCheck
  <2>2. sm' \in Machine /\ sm'.current_state = sm.current_state
    BY <1>t, <2>1, CheckStatusFacts DEF TypeOK
  <2> QED
    BY <1>t, <1>2, <2>2, Undisturbed DEF LoopCheck, TypeOK, LoopPcs, Calls
<1>3. CASE LoopTimeout
  BY <1>t, <1>3, RaiseHolds DEF LoopTimeout, TypeOK, LoopPcs, MainEvents
<1>4. CASE LoopEstop
  <2>1. CASE /\ At("estop") /\ MainRaises(latched, "ESTOP_TRIGGERED", "again")
             /\ quiet' = latched
    BY <1>t, <1>4, <2>1, RaiseHolds DEF LoopEstop, TypeOK, LoopPcs, MainEvents
  <2>2. CASE /\ At("again") /\ MainRaises(latched, "ESTOP_TRIGGERED", "promote")
             /\ UNCHANGED quiet
    BY <1>t, <1>4, <2>2, RaiseHolds DEF LoopEstop, TypeOK, LoopPcs, MainEvents
  <2> QED
    BY <1>4, <2>1, <2>2 DEF LoopEstop
<1>5. CASE LoopPromote
  BY <1>t, <1>5, RaiseHolds DEF LoopPromote, TypeOK, LoopPcs, MainEvents
<1>6. CASE Stop
  <2>1. CASE /\ At("check") /\ loop' = "stop"
             /\ serving' = (call["api"].step = "idle") /\ UNCHANGED call
    BY <1>t, <1>6, <2>1, Undisturbed DEF Stop, TypeOK, LoopPcs, Calls
  <2>2. CASE At("stop") /\ MainRaises(TRUE, "SHUTDOWN", "done") /\ UNCHANGED serving
    BY <1>t, <1>6, <2>2, RaiseHolds DEF Stop, TypeOK, LoopPcs, MainEvents
  <2> QED
    BY <1>6, <2>1, <2>2 DEF Stop
<1> QED
  BY <1>1, <1>2, <1>3, <1>4, <1>5, <1>6 DEF Loop

LEMMA RequestHolds ==
  ASSUME IInv, NEW command \in Commands, Request(command)
  PROVE  IInv'
<1> DEFINE e == EventOf(command, sm.current_state)
<1>1. e \in Events
  BY DEF EventOf, Commands, Events
<1> HIDE DEF e
<1>2. call \in [Threads -> Calls]
  BY DEF IInv, TypeOK, Calls
<1>3. call' = [call EXCEPT !["api"] = Calling(e)]
  BY DEF Request, e
<1>4. call' \in [Threads -> Calls] /\ call'["main"] = call["main"]
  BY <1>1, <1>2, <1>3, CallingType, ThreadFacts
<1> QED
  BY <1>4, Undisturbed DEF Request, IInv, TypeOK

LEMMA OutsideHolds == IInv /\ (Grant \/ Press \/ Tick) => IInv'
<1> SUFFICES ASSUME IInv, Grant \/ Press \/ Tick PROVE IInv'
  OBVIOUS
<1>t. TypeOK
  BY DEF IInv
<1>1. CASE Grant
  <2>1. sm' \in Machine /\ sm'.current_state = sm.current_state
    BY <1>t, <1>1 DEF Grant, TypeOK, Machine
  <2> QED
    BY <1>t, <1>1, <2>1, Undisturbed DEF Grant, TypeOK, Calls
<1>2. CASE Press
  BY <1>t, <1>2, Undisturbed DEF Press, TypeOK, Calls
<1>3. CASE Tick
  <2>1. sm' \in Machine /\ sm'.current_state = sm.current_state
    BY <1>t, <1>3, AgeAssumption DEF Tick, TypeOK, Machine
  <2> QED
    BY <1>t, <1>3, <2>1, Undisturbed DEF Tick, TypeOK, Calls
<1> QED
  BY <1>1, <1>2, <1>3

LEMMA NextHolds == IInv /\ [Next]_vars => IInv'
<1> SUFFICES ASSUME IInv, [Next]_vars PROVE IInv'
  OBVIOUS
<1>1. ASSUME NEW t \in Threads, Step(t) PROVE IInv'
  BY <1>1, FindHolds, WriteHolds, EnterHolds DEF Step
<1>2. CASE Main
  BY <1>1, <1>2, MainHolds, ThreadFacts DEF Main
<1>3. CASE Stop
  BY <1>3, MainHolds
<1>4. CASE Api
  BY <1>1, <1>4, RequestHolds, ThreadFacts DEF Api
<1>5. CASE Grant \/ Press \/ Tick
  BY <1>5, OutsideHolds
<1>6. CASE UNCHANGED vars
  BY <1>6, Undisturbed DEF vars, IInv, TypeOK, Calls
<1> QED
  BY <1>2, <1>3, <1>4, <1>5, <1>6 DEF Next

LEMMA Inductive == Spec => []IInv
  BY InitHolds, NextHolds, PTL DEF Spec
-----------------------------------------------------------------------------------
(* The machine, the latch and both threads' calls keep their types, however the   *)
(* threads interleave.                                                            *)
THEOREM ChainTypeCorrect == Spec => []TypeOK
<1>1. IInv => TypeOK
  BY DEF IInv
<1> QED
  BY <1>1, Inductive, PTL

(* After a pass of the loop acted on the latch, nothing main does leaves the      *)
(* stopped states: whatever leaves them is a write of the API thread.             *)
THEOREM LatchHolds == Spec => []HeldByLatch
<1>1. IInv => HeldByLatch
  BY DEF IInv, Holding, Stopped, HeldByLatch
<1> QED
  BY <1>1, Inductive, PTL
===================================================================================
