--------------------------- MODULE SystemController_proofs ---------------------------
(* Theorems about the system controller, for every size of the ring, every burst and *)
(* every error limit.                                                                *)
EXTENDS SystemController, Integers, SequenceTheorems, TLAPS

(* Indices of the ring wrap at most once.                                            *)
Wrap(x) == IF x < Size THEN x ELSE x - Size

LEMMA ModSmall ==
  ASSUME NEW s \in Nat \ {0}, NEW x \in Nat
  PROVE  /\ x < s => x % s = x
         /\ s <= x /\ x < 2 * s => x % s = x - s
  OBVIOUS

LEMMA WrapIsMod ==
  ASSUME NEW x \in Nat, x < Size + Size
  PROVE  x % Size = Wrap(x) /\ Wrap(x) \in 0 .. Size - 1
<1>1. Size \in Nat \ {0} /\ 2 * Size = Size + Size
  BY SizeAssumption
<1>2. Wrap(x) \in 0 .. Size - 1
  BY <1>1 DEF Wrap
<1>3. /\ x < Size => x % Size = x
      /\ Size <= x /\ x < 2 * Size => x % Size = x - Size
  BY <1>1, ModSmall
<1>4. CASE x < Size
  BY <1>2, <1>3, <1>4 DEF Wrap
<1>5. CASE ~(x < Size)
  <2>1. Size <= x /\ x < 2 * Size
    BY <1>1, <1>5
  <2> QED
    BY <1>2, <1>3, <1>5, <2>1 DEF Wrap
<1> QED
  BY <1>4, <1>5

(* The occupied slots end where the next event is written.                           *)
Closed(r) == r.head = Wrap(r.tail + r.count)

LEMMA WaitingType ==
  ASSUME NEW r \in Rings
  PROVE  /\ Waiting(r) \in Seq(Events)
         /\ Len(Waiting(r)) = r.count
         /\ \A i \in 1 .. r.count : Waiting(r)[i] = r.buffer[Wrap(r.tail + i - 1)]
<1>1. /\ r.buffer \in [Slots -> Events] /\ r.tail \in 0 .. Size - 1
      /\ r.count \in 0 .. Size /\ Size \in Nat \ {0}
  BY SizeAssumption DEF Rings, Slots
<1>2. \A i \in 1 .. r.count : /\ (r.tail + i - 1) % Size = Wrap(r.tail + i - 1)
                              /\ Wrap(r.tail + i - 1) \in Slots
  <2> TAKE i \in 1 .. r.count
  <2>1. r.tail + i - 1 \in Nat /\ r.tail + i - 1 < Size + Size
    BY <1>1
  <2> QED
    BY <2>1, WrapIsMod DEF Slots
<1>3. Waiting(r) \in [1 .. r.count -> Events] /\ r.count \in Nat
  BY <1>1, <1>2 DEF Waiting
<1>4. Waiting(r) \in Seq(Events)
  BY <1>3, SeqDef
<1>5. DOMAIN Waiting(r) = 1 .. Len(Waiting(r)) /\ Len(Waiting(r)) \in Nat
  BY <1>4, LenProperties
<1>6. Len(Waiting(r)) = r.count
  BY <1>3, <1>5
<1> QED
  BY <1>2, <1>4, <1>6 DEF Waiting

(* A push appends to the queue that the ring stands for.                             *)
LEMMA PushAppends ==
  ASSUME NEW r \in Rings, Closed(r), r.count < Size, NEW e \in Events
  PROVE  /\ Push(r, e) \in Rings /\ Closed(Push(r, e))
         /\ Waiting(Push(r, e)) = Append(Waiting(r), e)
<1> DEFINE p == Push(r, e)
<1>1. /\ r.buffer \in [Slots -> Events] /\ r.tail \in 0 .. Size - 1 /\ r.head \in 0 .. Size - 1
      /\ r.count \in 0 .. Size - 1 /\ Size \in Nat \ {0}
      /\ r.head = Wrap(r.tail + r.count)
  BY SizeAssumption DEF Rings, Slots, Closed
<1>2. r.head + 1 \in Nat /\ r.head + 1 < Size + Size
  BY <1>1
<1>3. (r.head + 1) % Size = Wrap(r.head + 1) /\ Wrap(r.head + 1) \in 0 .. Size - 1
  BY <1>2, WrapIsMod
<1>4. /\ p.buffer = [r.buffer EXCEPT ![r.head] = e]
      /\ p.head = Wrap(r.head + 1) /\ p.tail = r.tail /\ p.count = r.count + 1
      /\ p \in [buffer : {p.buffer}, head : {p.head}, tail : {p.tail}, count : {p.count}]
  BY <1>3 DEF Push, Rings
<1> HIDE DEF p
<1>5. p \in Rings
  <2>1. p.buffer \in [Slots -> Events]
    BY <1>1, <1>4
  <2>2. p.head \in Slots /\ p.tail \in Slots /\ p.count \in 0 .. Size
    BY <1>1, <1>3, <1>4 DEF Slots
  <2> QED
    BY <1>4, <2>1, <2>2 DEF Rings
<1>c. Closed(p)
  BY <1>1, <1>4 DEF Closed, Wrap
<1>6. /\ Waiting(p) \in Seq(Events) /\ Len(Waiting(p)) = r.count + 1
      /\ \A i \in 1 .. r.count + 1 : Waiting(p)[i] = p.buffer[Wrap(r.tail + i - 1)]
  <2>1. /\ Waiting(p) \in Seq(Events) /\ Len(Waiting(p)) = p.count
        /\ \A i \in 1 .. p.count : Waiting(p)[i] = p.buffer[Wrap(p.tail + i - 1)]
    BY <1>5, WaitingType
  <2> QED
    BY <1>4, <2>1
<1>7. /\ Waiting(r) \in Seq(Events) /\ Len(Waiting(r)) = r.count
      /\ \A i \in 1 .. r.count : Waiting(r)[i] = r.buffer[Wrap(r.tail + i - 1)]
  BY WaitingType
<1>8. /\ Append(Waiting(r), e) \in Seq(Events) /\ Len(Append(Waiting(r), e)) = r.count + 1
      /\ \A i \in 1 .. r.count : Append(Waiting(r), e)[i] = Waiting(r)[i]
      /\ Append(Waiting(r), e)[r.count + 1] = e
  BY <1>7, AppendProperties
<1>9. \A i \in 1 .. r.count + 1 : Waiting(p)[i] = Append(Waiting(r), e)[i]
  <2> TAKE i \in 1 .. r.count + 1
  <2>1. CASE i = r.count + 1
    <3>1. Wrap(r.tail + i - 1) = r.head /\ r.tail + i - 1 = r.tail + r.count
      BY <1>1, <2>1
    <3>2. p.buffer[r.head] = e
      BY <1>1, <1>4 DEF Slots
    <3> QED
      BY <1>6, <1>8, <2>1, <3>1, <3>2
  <2>2. CASE i \in 1 .. r.count
    <3>1. Wrap(r.tail + i - 1) # r.head /\ Wrap(r.tail + i - 1) \in Slots
      BY <1>1, <2>2 DEF Slots, Wrap
    <3>2. p.buffer[Wrap(r.tail + i - 1)] = r.buffer[Wrap(r.tail + i - 1)]
      BY <1>1, <1>4, <3>1
    <3> QED
      BY <1>6, <1>7, <1>8, <2>2, <3>2
  <2>3. i = r.count + 1 \/ i \in 1 .. r.count
    BY <1>1
  <2> QED
    BY <2>1, <2>2, <2>3
<1>10. Waiting(p) = Append(Waiting(r), e)
  BY <1>6, <1>8, <1>9, SeqEqual
<1> QED
  BY <1>5, <1>c, <1>10 DEF p

(* A pop takes the head of the queue that the ring stands for.                       *)
LEMMA PopTakesHead ==
  ASSUME NEW r \in Rings, Closed(r), r.count > 0
  PROVE  /\ Pop(r) \in Rings /\ Closed(Pop(r))
         /\ Waiting(r) # <<>> /\ Oldest(r) = Head(Waiting(r)) /\ Oldest(r) \in Events
         /\ Waiting(Pop(r)) = Tail(Waiting(r))
<1> DEFINE p == Pop(r)
<1>1. /\ r.buffer \in [Slots -> Events] /\ r.tail \in 0 .. Size - 1 /\ r.head \in 0 .. Size - 1
      /\ r.count \in 1 .. Size /\ Size \in Nat \ {0}
      /\ r.head = Wrap(r.tail + r.count)
  BY SizeAssumption DEF Rings, Slots, Closed
<1>2. r.tail + 1 \in Nat /\ r.tail + 1 < Size + Size
  BY <1>1
<1>3. (r.tail + 1) % Size = Wrap(r.tail + 1) /\ Wrap(r.tail + 1) \in 0 .. Size - 1
  BY <1>2, WrapIsMod
<1>4. /\ p.buffer = r.buffer /\ p.head = r.head
      /\ p.tail = Wrap(r.tail + 1) /\ p.count = r.count - 1
      /\ p \in [buffer : {p.buffer}, head : {p.head}, tail : {p.tail}, count : {p.count}]
  BY <1>3 DEF Pop, Rings
<1> HIDE DEF p
<1>5. p \in Rings
  BY <1>1, <1>3, <1>4 DEF Rings, Slots
<1>6. Closed(p)
  BY <1>1, <1>4 DEF Closed, Wrap
<1>7. /\ Waiting(p) \in Seq(Events) /\ Len(Waiting(p)) = r.count - 1
      /\ \A i \in 1 .. r.count - 1 : Waiting(p)[i] = r.buffer[Wrap(p.tail + i - 1)]
  BY <1>4, <1>5, WaitingType
<1>8. /\ Waiting(r) \in Seq(Events) /\ Len(Waiting(r)) = r.count
      /\ \A i \in 1 .. r.count : Waiting(r)[i] = r.buffer[Wrap(r.tail + i - 1)]
  BY WaitingType
<1>9. Waiting(r) # <<>>
  BY <1>1, <1>8, EmptySeq
<1>10. /\ Tail(Waiting(r)) \in Seq(Events) /\ Len(Tail(Waiting(r))) = r.count - 1
       /\ \A i \in 1 .. r.count - 1 : Tail(Waiting(r))[i] = Waiting(r)[i + 1]
  BY <1>8, <1>9, HeadTailProperties
<1>11. Oldest(r) = Head(Waiting(r)) /\ Oldest(r) \in Events
  <2>1. Wrap(r.tail + 1 - 1) = r.tail /\ 1 \in 1 .. r.count
    BY <1>1 DEF Wrap
  <2>2. Waiting(r)[1] = r.buffer[Wrap(r.tail + 1 - 1)]
    BY <1>8, <2>1
  <2>3. Head(Waiting(r)) = Waiting(r)[1]
    BY <1>8, <1>9
  <2> QED
    BY <1>1, <2>1, <2>2, <2>3 DEF Oldest, Slots
<1>12. \A i \in 1 .. r.count - 1 : Waiting(p)[i] = Tail(Waiting(r))[i]
  <2> TAKE i \in 1 .. r.count - 1
  <2>1. Wrap(p.tail + i - 1) = Wrap(r.tail + (i + 1) - 1) /\ i + 1 \in 1 .. r.count
    BY <1>1, <1>4 DEF Wrap
  <2>2. Waiting(r)[i + 1] = r.buffer[Wrap(r.tail + (i + 1) - 1)]
    BY <1>8, <2>1
  <2> QED
    BY <1>7, <1>10, <2>1, <2>2
<1>13. Waiting(p) = Tail(Waiting(r))
  BY <1>7, <1>10, <1>12, SeqEqual
<1> QED
  BY <1>5, <1>6, <1>9, <1>11, <1>13 DEF p
---------------------------------------------------------------------------------------
(* What each part of handle_event does to the controller.                            *)
LEMMA SetFacts ==
  ASSUME NEW c \in Controllers, NEW s \in States
  PROVE  /\ Set(c, s) \in Controllers /\ Set(c, s).errors = c.errors
         /\ Set(c, s).state = IF Allowed(c.state, s) THEN s ELSE c.state
  BY DEF Set, Controllers

LEMMA CountFacts ==
  ASSUME NEW c \in Controllers
  PROVE  CountError(c) \in Controllers /\ CountError(c).state = c.state
  BY SizeAssumption DEF CountError, Controllers

LEMMA ActivatedFacts ==
  ASSUME NEW c \in Controllers
  PROVE  Activated(c) \in Controllers /\ Activated(c).state = c.state
<1> DEFINE on == c.activated \/ Ready(c)
<1>1. on \in BOOLEAN
  BY Zenon
<1>2. Activated(c) = [c EXCEPT !.activated = on]
  BY Zenon DEF Activated
<1> HIDE DEF on
<1> QED
  BY <1>1, <1>2 DEF Controllers

LEMMA FieldFacts ==
  ASSUME NEW c \in Controllers
  PROVE  /\ [c EXCEPT !.activated = FALSE] \in Controllers
         /\ [c EXCEPT !.activated = FALSE].state = c.state
         /\ [c EXCEPT !.errors = 0] \in Controllers
         /\ [c EXCEPT !.errors = 0].state = c.state
<1>1. FALSE \in BOOLEAN /\ 0 \in 0 .. MaxErrors
  BY SizeAssumption
<1>2. [c EXCEPT !.activated = FALSE] \in Controllers /\ [c EXCEPT !.errors = 0] \in Controllers
  BY <1>1 DEF Controllers
<1> QED
  BY <1>2 DEF Controllers

LEMMA AllowedFacts ==
  ASSUME NEW from \in States, NEW to \in States
  PROVE  /\ Allowed(from, to) /\ from \in Stopped => to \in Stopped \cup {"SHUTDOWN", "IDLE"}
         /\ Allowed(from, "FAULT") \/ from = "SHUTDOWN"
  BY DEF Allowed, States, Stopped

(* A stop is kept, but for a release that leads to IDLE.                             *)
Kept(from, to, release) ==
  from \in Stopped => to \in Stopped \cup {"SHUTDOWN"} \/ (release /\ to = "IDLE")

LEMMA SetKeeps ==
  ASSUME NEW c \in Controllers, NEW s \in States
  PROVE  Kept(c.state, Set(c, s).state, s = "IDLE")
<1>1. c.state \in States
  BY DEF Controllers
<1> QED
  BY <1>1, SetFacts, AllowedFacts DEF Kept

LEMMA EffectFacts ==
  ASSUME NEW c \in Controllers, NEW e \in Events
  PROVE  /\ Effect(c, e) \in Controllers
         /\ Kept(c.state, Effect(c, e).state, e \in Releases)
<1>s. /\ "IDLE" \in States /\ "ACTIVE" \in States /\ "FAULT" \in States
      /\ "EMERGENCY" \in States /\ "SHUTDOWN" \in States
  BY DEF States
<1>1. CASE e = "INIT_COMPLETE"
  BY <1>1, <1>s, SetFacts, SetKeeps DEF Effect, Kept, Releases
<1>2. CASE e = "ACTIVATE"
  <2> DEFINE d == Activated(c)
  <2>1. Effect(c, e) = Set(d, "ACTIVE")
    BY <1>2 DEF Effect
  <2>2. d \in Controllers /\ d.state = c.state
    BY ActivatedFacts
  <2> HIDE DEF d
  <2>3. Set(d, "ACTIVE") \in Controllers
    BY <1>s, <2>2, SetFacts
  <2>4. Kept(c.state, Set(d, "ACTIVE").state, e \in Releases)
    BY <1>s, <1>2, <2>2, SetKeeps DEF Kept, Releases
  <2> QED
    BY <2>1, <2>3, <2>4
<1>3. CASE e = "DEACTIVATE"
  <2> DEFINE d == [c EXCEPT !.activated = FALSE]
  <2>1. Effect(c, e) = Set(d, "IDLE")
    BY <1>3 DEF Effect
  <2>2. d \in Controllers /\ d.state = c.state
    BY FieldFacts
  <2> HIDE DEF d
  <2>3. Set(d, "IDLE") \in Controllers
    BY <1>s, <2>2, SetFacts
  <2>4. Kept(c.state, Set(d, "IDLE").state, e \in Releases)
    BY <1>s, <1>3, <2>2, SetKeeps DEF Kept, Releases
  <2> QED
    BY <2>1, <2>3, <2>4
<1>4. CASE e = "FAULT_DETECTED"
  <2> DEFINE d == Set(c, "FAULT")
  <2>1. Effect(c, e) = CountError(d)
    BY <1>4 DEF Effect
  <2>2. d \in Controllers
    BY <1>s, SetFacts
  <2>3. Kept(c.state, d.state, e \in Releases)
    BY <1>s, <1>4, SetKeeps DEF Kept, Releases
  <2> HIDE DEF d
  <2>4. CountError(d) \in Controllers /\ CountError(d).state = d.state
    BY <2>2, CountFacts
  <2> QED
    BY <2>1, <2>3, <2>4
<1>5. CASE e = "FAULT_CLEARED"
  <2> DEFINE d == [c EXCEPT !.errors = 0]
  <2>1. Effect(c, e) = Set(d, "IDLE")
    BY <1>5 DEF Effect
  <2>2. d \in Controllers /\ d.state = c.state
    BY FieldFacts
  <2> HIDE DEF d
  <2>3. Set(d, "IDLE") \in Controllers
    BY <1>s, <2>2, SetFacts
  <2>4. Kept(c.state, Set(d, "IDLE").state, e \in Releases)
    BY <1>s, <1>5, <2>2, SetKeeps DEF Kept, Releases
  <2> QED
    BY <2>1, <2>3, <2>4
<1>6. CASE e = "EMERGENCY"
  <2> DEFINE d == Set(c, "EMERGENCY")
  <2>1. Effect(c, e) = CountError(d)
    BY <1>6 DEF Effect
  <2>2. d \in Controllers
    BY <1>s, SetFacts
  <2>3. Kept(c.state, d.state, e \in Releases)
    BY <1>s, <1>6, SetKeeps DEF Kept, Releases
  <2> HIDE DEF d
  <2>4. CountError(d) \in Controllers /\ CountError(d).state = d.state
    BY <2>2, CountFacts
  <2> QED
    BY <2>1, <2>3, <2>4
<1>7. CASE e = "SHUTDOWN"
  BY <1>7, <1>s, SetFacts, SetKeeps DEF Effect, Kept, Releases
<1>8. CASE e = "ERROR"
  BY <1>8, CountFacts DEF Effect, Kept
<1>9. CASE e = "NONE"
  BY <1>9 DEF Effect, Kept
<1> QED
  BY <1>1, <1>2, <1>3, <1>4, <1>5, <1>6, <1>7, <1>8, <1>9 DEF Events

LEMMA EnforceFacts ==
  ASSUME NEW c \in Controllers
  PROVE  /\ Enforce(c) \in Controllers
         /\ Enforce(c).state \in {c.state, "FAULT"}
         /\ Enforce(c).errors = MaxErrors => Enforce(c).state \in {"FAULT", "SHUTDOWN"}
<1>1. "FAULT" \in States /\ c.state \in States
  BY DEF States, Controllers
<1>2. CASE c.errors = MaxErrors
  <2>1. Enforce(c) = Set(c, "FAULT")
    BY <1>2 DEF Enforce
  <2>2. Enforce(c).state \in {"FAULT", "SHUTDOWN"}
    BY <1>1, <2>1, SetFacts, AllowedFacts
  <2> QED
    BY <1>1, <2>1, <2>2, SetFacts
<1>3. CASE c.errors # MaxErrors
  BY <1>3 DEF Enforce
<1> QED
  BY <1>2, <1>3
---------------------------------------------------------------------------------------
(* The inductive invariant: the ring is closed, and an event is with the handler      *)
(* exactly while one is handled.                                                     *)
IInv == /\ TypeOK
        /\ Closed(ring)
        /\ step = "handle" <=> qe # None
        /\ step = "handle" => handled < Burst

LEMMA InitHolds == Init => IInv
<1> SUFFICES ASSUME Init PROVE IInv
  OBVIOUS
<1>1. ctl \in Controllers
  BY SizeAssumption DEF Init, Cleared, Controllers, States
<1>2. ring \in Rings /\ Closed(ring)
  BY SizeAssumption DEF Init, Rings, Slots, Events, Closed, Wrap
<1> QED
  BY <1>1, <1>2, SizeAssumption DEF Init, IInv, TypeOK

LEMMA RaiseHolds ==
  ASSUME IInv, NEW e \in Raised, ProcessEvent(e)
  PROVE  IInv'
<1>1. /\ e \in Events /\ ctl \in Controllers /\ ring \in Rings /\ Closed(ring)
      /\ UNCHANGED <<step, handled, qe>>
  BY RaisedAssumption DEF IInv, TypeOK, ProcessEvent
<1>2. CASE ring.count < Size /\ ring' = Push(ring, e) /\ reply' = <<e, "OK">> /\ UNCHANGED ctl
  <2>1. ring' \in Rings /\ Closed(ring')
    BY <1>1, <1>2, PushAppends
  <2> QED
    BY <1>1, <1>2, <2>1 DEF IInv, TypeOK, Closed
<1>3. CASE ctl' = CountError(ctl) /\ reply' = <<e, "ERROR">> /\ UNCHANGED ring
  BY <1>1, <1>3, CountFacts DEF IInv, TypeOK, Closed
<1> QED
  BY <1>2, <1>3 DEF ProcessEvent

(* Between the updates, and in the checks of one, only the controller changes.       *)
LEMMA ControllerMoves ==
  ASSUME IInv, SystemInit \/ Deinit \/ Call \/ Update
  PROVE  /\ ctl' \in Controllers /\ UNCHANGED <<ring, handled, qe>>
         /\ step = "idle" /\ step' \in {"idle", "dispatch"}
         /\ SystemInit \/ Deinit \/ Kept(ctl.state, ctl'.state, Call)
<1>1. ctl \in Controllers
  BY DEF IInv, TypeOK
<1>2. CASE SystemInit \/ Deinit
  <2>1. /\ UNCHANGED <<ring, step, handled, qe>> /\ step = "idle"
        /\ ctl' = [Cleared EXCEPT !.initialized = TRUE] \/ ctl' = Cleared
    BY <1>2 DEF SystemInit, Deinit
  <2>2. /\ Cleared \in Controllers /\ [Cleared EXCEPT !.initialized = TRUE] \in Controllers
        /\ Cleared.state = "INIT" /\ [Cleared EXCEPT !.initialized = TRUE].state = "INIT"
    <3>1. Cleared \in Controllers /\ Cleared.state = "INIT"
      BY SizeAssumption DEF Cleared, Controllers, States
    <3> QED
      BY <3>1 DEF Controllers
  <2> QED
    BY <1>2, <2>1, <2>2
<1>3. CASE Call
  <2>1. /\ UNCHANGED <<ring, step, handled, qe>> /\ step = "idle"
        /\ \/ \E s \in States : ctl' = Set(ctl, s)
           \/ ctl' = Activated(ctl)
           \/ ctl' = [ctl EXCEPT !.activated = FALSE]
           \/ ctl' = [ctl EXCEPT !.errors = 0]
    BY <1>3 DEF Call
  <2>2. ASSUME NEW s \in States, ctl' = Set(ctl, s)
        PROVE  /\ ctl' \in Controllers
               /\ Kept(ctl.state, ctl'.state, Call)
    BY <1>1, <1>3, <2>2, SetFacts, SetKeeps DEF Kept
  <2>3. ASSUME \/ ctl' = Activated(ctl)
               \/ ctl' = [ctl EXCEPT !.activated = FALSE]
               \/ ctl' = [ctl EXCEPT !.errors = 0]
        PROVE  ctl' \in Controllers /\ ctl'.state = ctl.state
    BY <1>1, <2>3, ActivatedFacts, FieldFacts
  <2> QED
    BY <2>1, <2>2, <2>3 DEF Kept
<1>4. CASE Update
  BY <1>1, <1>4 DEF Update, Controllers, Kept
<1> QED
  BY <1>2, <1>3, <1>4

LEMMA HandleMoves ==
  ASSUME IInv, Handle
  PROVE  /\ ctl' \in Controllers
         /\ Kept(ctl.state, ctl'.state, qe \in Releases)
         /\ ctl'.errors = MaxErrors => ctl'.state \in {"FAULT", "SHUTDOWN"}
<1>1. ctl \in Controllers /\ qe \in Events /\ ctl' = Enforce(Effect(ctl, qe))
  BY DEF Handle, IInv, TypeOK
<1> QED
  BY <1>1, EffectFacts, EnforceFacts DEF Kept, Stopped

LEMMA NextHolds == IInv /\ [Next]_vars => IInv'
<1> SUFFICES ASSUME IInv, [Next]_vars PROVE IInv'
  OBVIOUS
<1>t. TypeOK /\ Closed(ring)
  BY DEF IInv
<1>1. ASSUME NEW e \in Raised, ProcessEvent(e) PROVE IInv'
  BY <1>1, RaiseHolds
<1>2. CASE (SystemInit \/ Deinit \/ Call \/ Update) /\ reply' = None
  BY <1>t, <1>2, ControllerMoves DEF IInv, TypeOK, Closed
<1>3. CASE Dispatch /\ reply' = None
  <2>1. ring' \in Rings /\ Closed(ring') /\ qe' \in Events
    BY <1>t, <1>3, PopTakesHead DEF Dispatch, TypeOK
  <2> QED
    BY <1>t, <1>3, <2>1, RaisedAssumption DEF Dispatch, IInv, TypeOK, Closed
<1>4. CASE Handle /\ reply' = None
  <2>1. ctl' \in Controllers
    BY <1>4, HandleMoves
  <2> QED
    BY <1>t, <1>4, <2>1, SizeAssumption DEF Handle, IInv, TypeOK, Closed
<1>5. CASE Finish /\ reply' = None
  BY <1>t, <1>5, SizeAssumption DEF Finish, IInv, TypeOK, Closed
<1>6. CASE UNCHANGED vars
  BY <1>t, <1>6 DEF vars, IInv, TypeOK, Closed
<1> QED
  BY <1>1, <1>2, <1>3, <1>4, <1>5, <1>6 DEF Next

LEMMA Inductive == Spec => []IInv
  BY InitHolds, NextHolds, PTL DEF Spec

(* The controller, the ring with its indices and the dispatcher keep their types.    *)
THEOREM ControllerTypeCorrect == Spec => []TypeOK
<1>1. IInv => TypeOK
  BY DEF IInv
<1> QED
  BY <1>1, Inductive, PTL

(* A fault or an emergency holds the controller until one of the three events, or a  *)
(* caller's set_state, releases it to IDLE, or it is initialised anew.               *)
THEOREM StopsHold == Spec => StoppedUntilReleased
<1> DEFINE A == ctl.state \in Stopped /\ ctl'.state \notin Stopped \cup {"SHUTDOWN"} =>
                  \/ ctl'.state = "IDLE" /\ (Call \/ (Handle /\ qe \in Releases))
                  \/ SystemInit \/ Deinit
<1>1. ASSUME IInv, [Next]_vars PROVE [A]_vars
  <2>1. ASSUME NEW e \in Raised, ProcessEvent(e) PROVE A
    <3>1. ctl'.state = ctl.state
      BY <1>1, <2>1, CountFacts DEF ProcessEvent, IInv, TypeOK
    <3> QED
      BY <3>1
  <2>2. CASE SystemInit \/ Deinit \/ Call \/ Update
    BY <1>1, <2>2, ControllerMoves DEF Kept
  <2>3. CASE Handle
    BY <1>1, <2>3, HandleMoves DEF Kept
  <2>4. CASE Dispatch \/ Finish
    BY <2>4 DEF Dispatch, Finish
  <2> QED
    BY <1>1, <2>1, <2>2, <2>3, <2>4 DEF Next
<1>2. IInv /\ [Next]_vars => [A]_vars
  BY <1>1
<1> QED
  BY <1>2, Inductive, PTL DEF Spec, StoppedUntilReleased

(* With the error limit reached, a handled event leaves FAULT or SHUTDOWN.           *)
THEOREM LimitStops == Spec => ErrorsStop
<1>1. IInv /\ [Next]_vars =>
        [Handle /\ ctl'.errors = MaxErrors => ctl'.state \in {"FAULT", "SHUTDOWN"}]_vars
  BY HandleMoves
<1> QED
  BY <1>1, Inductive, PTL DEF Spec, ErrorsStop

(* Every step of the ring is a step of the abstract queue or leaves it alone.         *)
LEMMA StepIsFifo == IInv /\ [Next]_vars => [Fifo!FifoNext]_Fifo!fifoVars
<1> SUFFICES ASSUME IInv, [Next]_vars PROVE [Fifo!FifoNext]_Fifo!fifoVars
  OBVIOUS
<1>t. ring \in Rings /\ Closed(ring) /\ Len(Waiting(ring)) = ring.count
  BY WaitingType DEF IInv, TypeOK
<1>1. ASSUME NEW e \in Raised, ProcessEvent(e) PROVE Fifo!FifoNext
  <2>1. CASE ring.count < Size /\ ring' = Push(ring, e) /\ reply' = <<e, "OK">>
    <3>1. e \in Events
      BY RaisedAssumption
    <3>2. Waiting(ring)' = Append(Waiting(ring), e)
      BY <1>t, <2>1, <3>1, PushAppends DEF Waiting
    <3> QED
      BY <1>t, <1>1, <2>1, <3>2 DEF ProcessEvent, Fifo!FifoNext, Fifo!Accept
  <2>2. CASE ring.count = Size /\ reply' = <<e, "ERROR">> /\ UNCHANGED ring
    BY <1>t, <1>1, <2>2 DEF ProcessEvent, Fifo!FifoNext, Fifo!Refuse, Waiting
  <2> QED
    BY <1>1, <2>1, <2>2 DEF ProcessEvent
<1>2. CASE (SystemInit \/ Deinit \/ Call \/ Update) /\ reply' = None
  BY <1>2, ControllerMoves DEF Fifo!FifoNext, Fifo!Elsewhere, Waiting
<1>3. CASE Dispatch /\ reply' = None
  <2>1. /\ Waiting(ring) # <<>> /\ qe' = Head(Waiting(ring))
        /\ Waiting(Pop(ring)) = Tail(Waiting(ring))
    BY <1>t, <1>3, PopTakesHead DEF Dispatch
  <2>2. ring' = Pop(ring) /\ qe = None
    BY <1>3 DEF Dispatch, IInv
  <2>3. Waiting(ring)' = Tail(Waiting(ring))
    BY <2>1, <2>2 DEF Waiting
  <2> QED
    BY <1>3, <2>1, <2>2, <2>3 DEF Fifo!FifoNext, Fifo!Take
<1>4. CASE Handle /\ reply' = None
  BY <1>4 DEF Handle, IInv, Fifo!FifoNext, Fifo!Finish, Waiting
<1>5. CASE Finish /\ reply' = None
  BY <1>5 DEF Finish, Fifo!FifoNext, Fifo!Elsewhere, Waiting
<1>6. CASE UNCHANGED vars
  BY <1>6 DEF vars, Fifo!fifoVars, Waiting
<1> QED
  BY <1>1, <1>2, <1>3, <1>4, <1>5, <1>6 DEF Next

(* The ring with its wrap implements the bounded queue, for every size: nothing is    *)
(* lost, doubled, reordered or refused without need.                                 *)
THEOREM RingIsFifo == Spec => ImplementsFifo
<1>1. Init => Fifo!FifoInit
  <2> SUFFICES ASSUME Init PROVE Fifo!FifoInit
    OBVIOUS
  <2>1. ring \in Rings /\ ring.count = 0
    BY InitHolds DEF Init, IInv, TypeOK
  <2>2. Waiting(ring) \in Seq(Events) /\ Len(Waiting(ring)) = 0
    BY <2>1, WaitingType
  <2>3. Waiting(ring) = <<>>
    BY <2>2, EmptySeq
  <2> QED
    BY <2>3 DEF Init, Fifo!FifoInit
<1> QED
  BY <1>1, StepIsFifo, Inductive, PTL DEF Spec, ImplementsFifo, Fifo!FifoSpec

(* No step loses an event that waits or lets a later one overtake it: it keeps its place,  *)
(* or comes one place nearer with an event that is taken, and the first is the one taken.  *)
(* An update that gets as far as the dispatcher takes one at least, if any waits.          *)
(* (system_controller_dispatch_events, system_controller_process_event)                   *)
EventsMoveUp ==
  [][/\ \A i \in 1 .. ring.count :
          /\ ~Dispatch => i <= ring'.count /\ Waiting(ring')[i] = Waiting(ring)[i]
          /\ Dispatch /\ i = 1 => qe' = Waiting(ring)[i]
          /\ Dispatch /\ i # 1 => i - 1 <= ring'.count /\ Waiting(ring')[i - 1] = Waiting(ring)[i]
     /\ step = "idle" => handled = 0
     /\ step = "dispatch" /\ step' = "idle" => handled > 0 \/ ring.count = 0]_vars

(* An update starts to count at zero.                                                    *)
CountsFromZero == step = "idle" => handled = 0

LEMMA CountsHold == Spec => []CountsFromZero
<1>1. Init => CountsFromZero
  BY DEF Init, CountsFromZero
<1>2. CountsFromZero /\ [Next]_vars => CountsFromZero'
  BY DEF CountsFromZero, Next, vars, ProcessEvent, SystemInit, Deinit, Call, Update, Dispatch, Handle, Finish
<1> QED
  BY <1>1, <1>2, PTL DEF Spec

(* Every place in the queue is left forwards only.                                       *)
THEOREM QueueMovesUp == Spec => EventsMoveUp
<1>1. ASSUME IInv, CountsFromZero, [Next]_vars
      PROVE  /\ \A i \in 1 .. ring.count :
                  /\ ~Dispatch => i <= ring'.count /\ Waiting(ring')[i] = Waiting(ring)[i]
                  /\ Dispatch /\ i = 1 => qe' = Waiting(ring)[i]
                  /\ Dispatch /\ i # 1 => i - 1 <= ring'.count /\ Waiting(ring')[i - 1] = Waiting(ring)[i]
             /\ step = "idle" => handled = 0
             /\ step = "dispatch" /\ step' = "idle" => handled > 0 \/ ring.count = 0
  <2>1. /\ ring \in Rings /\ Closed(ring) /\ ring.count \in 0 .. Size /\ Size \in Nat
        /\ Waiting(ring) \in Seq(Events) /\ Len(Waiting(ring)) = ring.count
    BY <1>1, WaitingType, SizeAssumption DEF IInv, TypeOK, Rings
  <2>2. ASSUME Dispatch, NEW i \in 1 .. ring.count
        PROVE  /\ i = 1 => qe' = Waiting(ring)[i]
               /\ i # 1 => i - 1 <= ring'.count /\ Waiting(ring')[i - 1] = Waiting(ring)[i]
    <3>1. /\ qe' = Head(Waiting(ring)) /\ Waiting(ring') = Tail(Waiting(ring))
          /\ Waiting(ring) # <<>> /\ ring' \in Rings
      BY <2>1, <2>2, PopTakesHead DEF Dispatch
    <3>2. Head(Waiting(ring)) = Waiting(ring)[1]
      BY <2>1, <3>1
    <3>3. /\ Len(Tail(Waiting(ring))) = ring.count - 1
          /\ \A j \in 1 .. ring.count - 1 : Tail(Waiting(ring))[j] = Waiting(ring)[j + 1]
      BY <2>1, <3>1, HeadTailProperties
    <3>4. ring'.count = ring.count - 1
      BY <3>1, <3>3, WaitingType
    <3>5. i # 1 => i - 1 \in 1 .. ring.count - 1 /\ (i - 1) + 1 = i
      BY <2>1, <2>2
    <3> QED
      BY <2>1, <3>1, <3>2, <3>3, <3>4, <3>5
  <2>3. ASSUME NEW e \in Raised, ProcessEvent(e), NEW i \in 1 .. ring.count
        PROVE  i <= ring'.count /\ Waiting(ring')[i] = Waiting(ring)[i]
    <3>1. CASE ring' = ring
      BY <2>1, <2>3, <3>1
    <3>2. CASE ring.count < Size /\ ring' = Push(ring, e)
      <4>1. e \in Events
        BY RaisedAssumption
      <4>2. Waiting(ring') = Append(Waiting(ring), e) /\ ring' \in Rings
        BY <2>1, <3>2, <4>1, PushAppends
      <4>3. Len(Append(Waiting(ring), e)) = ring.count + 1 /\ Append(Waiting(ring), e)[i] = Waiting(ring)[i]
        BY <2>1, <2>3, <4>1, AppendProperties
      <4>4. ring'.count = ring.count + 1
        BY <4>2, <4>3, WaitingType
      <4> QED
        BY <2>1, <2>3, <4>2, <4>3, <4>4
    <3> QED
      BY <2>3, <3>1, <3>2 DEF ProcessEvent
  <2>4. (\E e \in Raised : ProcessEvent(e)) \/ Dispatch \/ ring' = ring
    BY <1>1 DEF Next, vars, SystemInit, Deinit, Call, Update, Handle, Finish
  <2>5. \A i \in 1 .. ring.count : ~Dispatch => i <= ring'.count /\ Waiting(ring')[i] = Waiting(ring)[i]
    BY <2>1, <2>3, <2>4
  <2>6. step = "dispatch" /\ step' = "idle" => handled > 0 \/ ring.count = 0
    BY <1>1, SizeAssumption
       DEF Next, vars, ProcessEvent, SystemInit, Deinit, Call, Update, Dispatch, Handle, Finish
  <2> QED
    BY <1>1, <2>2, <2>5, <2>6 DEF CountsFromZero
<1>2. IInv /\ CountsFromZero /\ [Next]_vars =>
        [/\ \A i \in 1 .. ring.count :
              /\ ~Dispatch => i <= ring'.count /\ Waiting(ring')[i] = Waiting(ring)[i]
              /\ Dispatch /\ i = 1 => qe' = Waiting(ring)[i]
              /\ Dispatch /\ i # 1 => i - 1 <= ring'.count /\ Waiting(ring')[i - 1] = Waiting(ring)[i]
         /\ step = "idle" => handled = 0
         /\ step = "dispatch" /\ step' = "idle" => handled > 0 \/ ring.count = 0]_vars
  BY <1>1
<1> QED
  BY <1>2, Inductive, CountsHold, PTL DEF Spec, EventsMoveUp
=======================================================================================
