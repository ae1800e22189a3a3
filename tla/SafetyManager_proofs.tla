---------------------------- MODULE SafetyManager_proofs ----------------------------
(* Theorems about the E-Stop latch and the safety manager on top of it, for every   *)
(* set of faults, every set of calls and either configuration of the latch.         *)
EXTENDS SafetyManager, TLAPS

Runs == [step : {"idle", "compare", "latch", "notify", "arm", "debounce", "settle"},
         seen : BOOLEAN, to : {"SAFE", "TRIGGERED"}]

LEMMA ThreadFacts == /\ "main" \in Threads /\ "monitor" \in Threads /\ "operator" \in Threads
                     /\ \A t \in Updaters : t \in Threads
                     /\ "operator" \notin Updaters
  BY DEF Threads, Updaters

LEMMA RunFields ==
  ASSUME NEW r, r \in [Threads -> Runs], NEW t \in Threads
  PROVE  /\ r[t] \in Runs
         /\ \A d \in Runs : /\ [r EXCEPT ![t] = d] \in [Threads -> Runs]
                            /\ [r EXCEPT ![t] = d][t] = d
                            /\ \A u \in Threads \ {t} : [r EXCEPT ![t] = d][u] = r[u]
  OBVIOUS

LEMMA WaitingFacts == Waiting \in Runs /\ Waiting.step = "idle"
  BY DEF Waiting, Runs

(* What a step leaves in the call of the thread that makes it.                       *)
Told(d)    == /\ d.step \in {"latch", "notify"} => d.to = "TRIGGERED"
Refused(d) == d.step = "settle" => d.to = "TRIGGERED"

(* The inductive invariant of the latch: without auto reset a callback only tells    *)
(* of an E-Stop, and a reset that armed over a button still held will refuse.        *)
EstopInv == /\ EstopTypeOK
            /\ held => ~high
            /\ ~AutoReset => \A t \in Threads : Told(run[t])
            /\ ~Unreliable /\ held => Refused(run["operator"])

(* A step of the latch changes the call of one thread t to d.                        *)
LEMMA CallMoves ==
  ASSUME EstopInv, NEW t \in Threads, NEW d \in Runs, run' = [run EXCEPT ![t] = d],
         high' = high, state' \in EstopStates, held' \in BOOLEAN, held' => ~high,
         ~AutoReset => Told(d),
         ~Unreliable /\ held' /\ t = "operator" => Refused(d),
         held' => held \/ t = "operator"
  PROVE  EstopInv'
<1>1. run \in [Threads -> Runs]
  BY DEF EstopInv, EstopTypeOK, Runs
<1>2. /\ run' \in [Threads -> Runs] /\ run'[t] = d
      /\ \A u \in Threads \ {t} : run'[u] = run[u]
  BY <1>1, RunFields
<1>3. EstopTypeOK'
  BY <1>2 DEF EstopInv, EstopTypeOK, Runs
<1>4. ~AutoReset => \A u \in Threads : Told(run'[u])
  BY <1>2 DEF EstopInv
<1>5. ~Unreliable /\ held' => Refused(run'["operator"])
  BY <1>2, ThreadFacts DEF EstopInv
<1> QED
  BY <1>3, <1>4, <1>5 DEF EstopInv

LEMMA EstopInitHolds == EstopInit => EstopInv
<1> SUFFICES ASSUME EstopInit PROVE EstopInv
  OBVIOUS
<1>1. run \in [Threads -> Runs] /\ \A t \in Threads : run[t] = Waiting
  BY WaitingFacts DEF EstopInit
<1> QED
  BY <1>1, WaitingFacts, ThreadFacts
  DEF EstopInit, EstopInv, EstopTypeOK, EstopStates, Told, Refused, Runs

LEMMA UpdateHolds ==
  ASSUME EstopInv, NEW t \in Updaters, Update(t)
  PROVE  EstopInv'
<1>1. /\ t \in Threads /\ t # "operator" /\ run[t] \in Runs
      /\ high \in BOOLEAN /\ held \in BOOLEAN /\ state \in EstopStates
  BY ThreadFacts, RunFields DEF EstopInv, EstopTypeOK, Runs
<1>2. CASE ReadPin(t)
  <2>1. PICK value \in BOOLEAN :
           run' = [run EXCEPT ![t] = [step |-> "compare", seen |-> value, to |-> "SAFE"]]
    BY <1>2 DEF ReadPin
  <2>2. [step |-> "compare", seen |-> value, to |-> "SAFE"] \in Runs
    BY DEF Runs
  <2> QED
    BY <1>1, <1>2, <2>1, <2>2, CallMoves DEF ReadPin, Told, EstopInv
<1>3. CASE Compare(t)
  <2>1. UNCHANGED <<high, state, held>>
    BY <1>3 DEF Compare
  <2>2. CASE run' = [run EXCEPT ![t].step = "latch", ![t].to = "TRIGGERED"]
    <3> DEFINE d == [run[t] EXCEPT !.step = "latch", !.to = "TRIGGERED"]
    <3>1. d \in Runs /\ Told(d)
      BY <1>1 DEF Runs, Told
    <3>2. run' = [run EXCEPT ![t] = d]
      BY <2>2
    <3> HIDE DEF d
    <3> QED
      BY <1>1, <2>1, <3>1, <3>2, CallMoves DEF EstopInv
  <2>3. CASE AutoReset /\ run' = [run EXCEPT ![t].step = "latch", ![t].to = "SAFE"]
    <3> DEFINE d == [run[t] EXCEPT !.step = "latch", !.to = "SAFE"]
    <3>1. d \in Runs
      BY <1>1 DEF Runs
    <3>2. run' = [run EXCEPT ![t] = d]
      BY <2>3
    <3> HIDE DEF d
    <3> QED
      BY <1>1, <2>1, <2>3, <3>1, <3>2, CallMoves DEF EstopInv
  <2>4. CASE Return(t)
    BY <1>1, <2>1, <2>4, WaitingFacts, CallMoves DEF Return, Told, EstopInv
  <2> QED
    BY <1>3, <2>2, <2>3, <2>4 DEF Compare
<1>4. CASE Latch(t)
  <2> DEFINE d == [run[t] EXCEPT !.step = "notify"]
  <2>1. d \in Runs /\ d.to = run[t].to /\ run[t].step = "latch" /\ run[t].to \in {"SAFE", "TRIGGERED"}
    BY <1>1, <1>4 DEF Runs, Latch
  <2>2. run' = [run EXCEPT ![t] = d]
    BY <1>4 DEF Latch, Go
  <2> HIDE DEF d
  <2>3. ~AutoReset => Told(d)
    BY <1>1, <2>1 DEF EstopInv, Told
  <2> QED
    BY <1>1, <1>4, <2>1, <2>2, <2>3, CallMoves DEF Latch, EstopInv, EstopStates
<1> QED
  BY <1>2, <1>3, <1>4 DEF Update

LEMMA OperatorHolds ==
  ASSUME EstopInv, Reset \/ ResetBegin \/ HandleEmergency
  PROVE  EstopInv'
<1> DEFINE r    == run["operator"]
           d(s) == [r EXCEPT !.step = s]
<1>1. /\ "operator" \in Threads /\ r \in Runs
      /\ high \in BOOLEAN /\ held \in BOOLEAN /\ state \in EstopStates
      /\ r.to \in {"SAFE", "TRIGGERED"}
  BY ThreadFacts, RunFields DEF EstopInv, EstopTypeOK, Runs
<1>2. \A s \in {"arm", "debounce"} : d(s) \in Runs /\ Told(d(s)) /\ Refused(d(s))
  BY <1>1 DEF Runs, Told, Refused
<1>3. \A s \in {"settle", "notify"}, v \in {"SAFE", "TRIGGERED"} :
         LET c == [r EXCEPT !.step = s, !.to = v] IN c \in Runs /\ c.step = s /\ c.to = v
  BY <1>1 DEF Runs
<1>4. CASE ResetBegin
  BY <1>1, <1>2, <1>4, CallMoves DEF ResetBegin, Go, EstopInv
<1>5. CASE ResetArm
  <2>1. run' = [run EXCEPT !["operator"] = d("debounce")]
    BY <1>5 DEF ResetArm, Go
  <2>2. held' = ~high /\ state' \in EstopStates /\ high' = high
    BY <1>5 DEF ResetArm, EstopStates
  <2>3. held' \in BOOLEAN /\ (held' => ~high)
    BY <2>2, Zenon
  <2> HIDE DEF d
  <2> QED
    BY <1>1, <1>2, <2>1, <2>2, <2>3, CallMoves
<1>6. CASE ResetRecheck
  <2>1. PICK value \in BOOLEAN :
           /\ Reads(value)
           /\ run' = [run EXCEPT !["operator"].step = "settle",
                                 !["operator"].to   = IF value THEN "SAFE" ELSE "TRIGGERED"]
    BY <1>6 DEF ResetRecheck
  <2> DEFINE v == IF value THEN "SAFE" ELSE "TRIGGERED"
             c == [r EXCEPT !.step = "settle", !.to = v]
  <2>2. run' = [run EXCEPT !["operator"] = c]
    BY <2>1
  <2>3. v \in {"SAFE", "TRIGGERED"} /\ (~Unreliable /\ ~high => v = "TRIGGERED")
    BY <1>1, <2>1 DEF Reads
  <2> HIDE DEF v
  <2>4. c \in Runs /\ c.step = "settle" /\ c.to = v
    BY <1>3, <2>3
  <2> HIDE DEF c
  <2>5. UNCHANGED <<high, state, held>> /\ (held => ~high)
    BY <1>6 DEF ResetRecheck, EstopInv
  <2> QED
    BY <1>1, <2>2, <2>3, <2>4, <2>5, CallMoves DEF Told, Refused
<1>7. CASE ResetSettle
  BY <1>1, <1>7, WaitingFacts, CallMoves
  DEF ResetSettle, Return, Told, Refused, EstopInv, EstopStates
<1>8. CASE HandleEmergency
  <2> DEFINE c == [r EXCEPT !.step = "notify", !.to = "TRIGGERED"]
  <2>1. run' = [run EXCEPT !["operator"] = c]
    BY <1>8 DEF HandleEmergency
  <2>2. c \in Runs /\ Told(c) /\ Refused(c)
    BY <1>3 DEF Told, Refused
  <2> HIDE DEF c
  <2> QED
    BY <1>1, <1>8, <2>1, <2>2, CallMoves DEF HandleEmergency, EstopInv, EstopStates
<1> QED
  BY <1>4, <1>5, <1>6, <1>7, <1>8 DEF Reset

LEMMA NotifiedHolds ==
  ASSUME EstopInv, NEW t \in Threads, Notified(t)
  PROVE  EstopInv'
  BY WaitingFacts, CallMoves DEF Notified, Return, Told, Refused, EstopInv, EstopTypeOK

LEMMA ButtonHolds == EstopInv /\ Button => EstopInv'
<1> SUFFICES ASSUME EstopInv, Button PROVE EstopInv'
  OBVIOUS
<1>1. high' \in BOOLEAN /\ held' \in BOOLEAN /\ (held' => held /\ ~high')
  BY Zenon DEF EstopInv, EstopTypeOK, Button
<1> QED
  BY <1>1 DEF EstopInv, EstopTypeOK, Button

LEMMA EstopStepHolds == EstopInv /\ [EstopNext]_estopVars => EstopInv'
<1> SUFFICES ASSUME EstopInv, [EstopNext]_estopVars PROVE EstopInv'
  OBVIOUS
<1>1. CASE UNCHANGED estopVars
  BY <1>1 DEF estopVars, EstopInv, EstopTypeOK
<1> QED
  BY <1>1, UpdateHolds, OperatorHolds, NotifiedHolds, ButtonHolds DEF EstopNext, EstopSteps

LEMMA EstopInductive == EstopSpec => []EstopInv
  BY EstopInitHolds, EstopStepHolds, PTL DEF EstopSpec

(* The latch, the pin and every call keep their types, whatever the interleaving.    *)
THEOREM EstopTypeCorrect == EstopSpec => []EstopTypeOK
<1>1. EstopInv => EstopTypeOK
  BY DEF EstopInv
<1> QED
  BY <1>1, EstopInductive, PTL

(* With a pin that can be read, hal_estop_reset does not reset a button that was     *)
(* pressed when it armed and stayed pressed.                                         *)
THEOREM ResetKeeps == ~Unreliable /\ EstopSpec => ResetKeepsHeldButton
<1> SUFFICES ASSUME ~Unreliable PROVE EstopSpec => ResetKeepsHeldButton
  OBVIOUS
<1>1. EstopInv /\ [EstopNext]_estopVars => [ResetSettle /\ held => state' # "SAFE"]_estopVars
  BY DEF EstopInv, Refused, ResetSettle
<1> QED
  BY <1>1, EstopInductive, PTL DEF EstopSpec, ResetKeepsHeldButton
-------------------------------------------------------------------------------------
(* The safety manager only watches the latch: its steps are steps of EStop, or leave  *)
(* the latch alone.                                                                  *)
LEMMA StepIsEstop == [Next]_vars => [EstopNext]_estopVars
<1> SUFFICES ASSUME [Next]_vars PROVE [EstopNext]_estopVars
  OBVIOUS
<1>1. CASE Main
  BY <1>1, ThreadFacts DEF Main, Begin, NotDue, Due, Sample, Store, Judge, WriteLevel, Notify,
                           Updaters, Update, EstopNext, EstopSteps, estopVars
<1>2. CASE Monitor
  BY <1>2, ThreadFacts DEF Monitor, Notify, Updaters, EstopNext, EstopSteps
<1>3. CASE Operator
  BY <1>3, ThreadFacts DEF Operator, Notify, EstopNext, EstopSteps
<1>4. CASE Call
  BY <1>4 DEF Call
<1>5. CASE ResetBegin \/ HandleEmergency \/ Button
  BY <1>5 DEF EstopNext, EstopSteps
<1>6. CASE UNCHANGED vars
  BY <1>6 DEF vars, estopVars
<1> QED
  BY <1>1, <1>2, <1>3, <1>4, <1>5, <1>6 DEF Next

(* What is proved of the latch alone holds under the safety manager as well.         *)
THEOREM ManagerWatches == Spec => EstopSpec
<1>1. Init => EstopInit
  BY DEF Init
<1> QED
  BY <1>1, StepIsEstop, PTL DEF Spec, EstopSpec
-------------------------------------------------------------------------------------
Managers == [estop_triggered : BOOLEAN, level : Levels, status : {"OK"},
             fault : Faults \cup {NoFault}]
Passes   == [step : {"estop", "updating", "sample", "store", "judge", "level"},
             latched : BOOLEAN, level : Levels]

(* A pass that saw the latch and stored it is remembered by the manager.             *)
Known == ~AutoReset /\ pass.latched /\ pass.step # "store" => mgr.estop_triggered

(* The inductive invariant of the manager.                                           *)
IInv == EstopInv /\ mgr \in Managers /\ pass \in Passes /\ Known

LEMMA InitHolds == Init => IInv
<1> SUFFICES ASSUME Init PROVE IInv
  OBVIOUS
<1>1. EstopInv
  BY EstopInitHolds DEF Init
<1> QED
  BY <1>1 DEF Init, IInv, Managers, Passes, Levels, Known

(* The callback in any thread: without auto reset it can only raise the flag.        *)
LEMMA NotifyKnown ==
  ASSUME IInv, NEW t \in Threads, Notify(t)
  PROVE  mgr' \in Managers /\ pass' = pass /\ Known'
<1>1. pass' = pass /\ run[t].step = "notify"
  BY DEF Notify, Notified
<1>2. CASE run[t].to = "TRIGGERED"
  <2>1. mgr' = IF mgr.estop_triggered THEN mgr
               ELSE [mgr EXCEPT !.estop_triggered = TRUE, !.level = "EMERGENCY"]
    BY <1>2 DEF Notify, CallbackTriggered
  <2>2. mgr' \in Managers /\ mgr'.estop_triggered
    BY <2>1 DEF IInv, Managers, Levels
  <2> QED
    BY <1>1, <2>2 DEF Known
<1>3. CASE run[t].to # "TRIGGERED"
  <2>1. mgr' = [mgr EXCEPT !.estop_triggered = FALSE]
    BY <1>3 DEF Notify, CallbackSafe
  <2>2. mgr' \in Managers
    BY <2>1 DEF IInv, Managers
  <2>3. AutoReset
    BY <1>1, <1>3, ConfigAssumption DEF IInv, EstopInv, Told
  <2> QED
    BY <1>1, <2>2, <2>3 DEF Known
<1> QED
  BY <1>2, <1>3

(* main's pass forgets the latch only in Store, and then pass.latched is FALSE.       *)
LEMMA PassKnown ==
  ASSUME IInv, Begin \/ NotDue \/ Due \/ Sample \/ Store \/ Judge \/ WriteLevel
  PROVE  mgr' \in Managers /\ pass' \in Passes /\ Known'
<1>1. mgr \in Managers /\ pass \in Passes
  BY DEF IInv
<1>2. CASE Begin \/ NotDue \/ Due
  <2>1. PICK next \in {"updating", "estop", "sample"} :
           /\ pass' = [pass EXCEPT !.step = next] /\ mgr' = mgr /\ pass.step # "store"
    BY <1>2 DEF Begin, NotDue, Due, Continue
  <2> QED
    BY <1>1, <2>1 DEF IInv, Known, Passes
<1>3. CASE Sample
  <2> DEFINE seen == state = "TRIGGERED"
  <2>1. pass' = [pass EXCEPT !.step = "store", !.latched = seen] /\ mgr' = mgr
    BY <1>3 DEF Sample
  <2>2. seen \in BOOLEAN
    OBVIOUS
  <2> HIDE DEF seen
  <2> QED
    BY <1>1, <2>1, <2>2 DEF Known, Passes
<1>4. CASE Store
  <2>1. /\ pass' = [pass EXCEPT !.step = "judge"]
        /\ mgr' = [mgr EXCEPT !.estop_triggered = pass.latched]
    BY <1>4 DEF Store, Continue
  <2> QED
    BY <1>1, <2>1 DEF Known, Managers, Passes
<1>5. CASE Judge
  <2>1. /\ pass.step = "judge" /\ mgr' = mgr
        /\ pass' = [pass EXCEPT !.step = "level", !.level = LevelDue]
    BY <1>5 DEF Judge
  <2>2. LevelDue \in Levels
    BY DEF LevelDue, Levels
  <2> QED
    BY <1>1, <2>1, <2>2 DEF IInv, Known, Passes
<1>6. CASE WriteLevel
  <2>1. /\ pass.step = "level" /\ pass' = [pass EXCEPT !.step = "estop"]
        /\ mgr' = [mgr EXCEPT !.level = pass.level]
    BY <1>6 DEF WriteLevel, Continue
  <2> QED
    BY <1>1, <2>1 DEF IInv, Known, Managers, Passes
<1> QED
  BY <1>2, <1>3, <1>4, <1>5, <1>6

(* Faults, interlocks and recoveries leave the flag alone.                           *)
LEMMA CallKnown == IInv /\ Call => mgr' \in Managers /\ pass' = pass /\ Known'
<1> SUFFICES ASSUME IInv, Call PROVE mgr' \in Managers /\ pass' = pass /\ Known'
  OBVIOUS
<1>1. pass' = pass
  BY DEF Call
<1>2. mgr' \in Managers /\ mgr'.estop_triggered = mgr.estop_triggered
  BY DEF IInv, Call, TriggerFault, ClearFault, Interlock, Recovery, Managers, Levels
<1> QED
  BY <1>1, <1>2 DEF IInv, Known

LEMMA StepHolds == IInv /\ [Next]_vars => IInv'
<1> SUFFICES ASSUME IInv, [Next]_vars PROVE IInv'
  OBVIOUS
<1>1. EstopInv'
  BY StepIsEstop, EstopStepHolds DEF IInv
<1>2. ASSUME NEW t \in Threads, Notify(t) PROVE IInv'
  BY <1>1, <1>2, NotifyKnown DEF IInv
<1>3. CASE Begin \/ NotDue \/ Due \/ Sample \/ Store \/ Judge \/ WriteLevel
  BY <1>1, <1>3, PassKnown DEF IInv
<1>4. CASE Call
  BY <1>1, <1>4, CallKnown DEF IInv
<1>5. CASE UNCHANGED <<mgr, pass>>
  BY <1>1, <1>5 DEF IInv, Known
<1> QED
  BY <1>2, <1>3, <1>4, <1>5, ThreadFacts DEF Next, Main, Monitor, Operator, vars

LEMMA Inductive == Spec => []IInv
  BY InitHolds, StepHolds, PTL DEF Spec

(* The latch, the manager and main's pass keep their types, whatever runs between.   *)
THEOREM ManagerTypeCorrect == Spec => []TypeOK
<1>1. IInv => TypeOK
  BY DEF IInv, EstopInv, TypeOK, Managers, Passes
<1> QED
  BY <1>1, Inductive, PTL

(* Once main's pass has stored the latch it saw, the manager calls nothing safe until *)
(* a later pass sees the latch gone: no callback, fault call or recovery undoes it.  *)
THEOREM SeenIsUnsafe == Spec => []SeenLatchIsUnsafe
<1>1. IInv => SeenLatchIsUnsafe
  BY DEF IInv, Known, SeenLatchIsUnsafe, IsSafe
<1> QED
  BY <1>1, Inductive, PTL
=====================================================================================
