------------------------------ MODULE SystemController ------------------------------
(* app/core/system_controller.c: events are pushed into a ring and handled by the  *)
(* dispatcher at the end of a later update, a few at a time, and only when every   *)
(* health check of that update passed.  The dispatcher calls the event callback,   *)
(* so that events may be raised while others are handled.                          *)
EXTENDS Naturals

CONSTANTS Size,       \* SYSTEM_CONTROLLER_EVENT_QUEUE_SIZE
          Burst,      \* max_events_per_update
          MaxErrors,  \* config.max_error_count
          Raised,     \* the events that callers and the callback raise
          None        \* no event is being handled

States == {"INIT", "IDLE", "ACTIVE", "FAULT", "EMERGENCY", "SHUTDOWN"}
Events == {"NONE", "INIT_COMPLETE", "ACTIVATE", "DEACTIVATE", "FAULT_DETECTED",
           "FAULT_CLEARED", "EMERGENCY", "SHUTDOWN", "ERROR"}

ASSUME SizeAssumption   == Size \in Nat \ {0} /\ Burst \in Nat \ {0} /\ MaxErrors \in Nat
ASSUME RaisedAssumption == Raised \subseteq Events /\ None \notin Events

VARIABLES ctl,      \* system_controller_instance: what its code reads again
          ring,     \* system_controller_event_queue
          step,     \* update: between two updates, in the dispatch loop, in handle_event
          handled,  \* dispatch_events: the events handled in this update
          qe,       \* dispatch_events: the event popped for handle_event
          reply     \* history: <<event, result>> when the last step was process_event

vars == <<ctl, ring, step, handled, qe, reply>>

(* error_count stops at MaxErrors here: it is only compared with that limit; its   *)
(* wrap after 2^32 errors is left out.                                             *)
Controllers == [initialized : BOOLEAN, activated : BOOLEAN, state : States,
                errors : 0 .. MaxErrors,
                safety_ok : BOOLEAN, communication_ok : BOOLEAN, control_ok : BOOLEAN]

Cleared == [initialized |-> FALSE, activated |-> FALSE, state |-> "INIT", errors |-> 0,
            safety_ok |-> FALSE, communication_ok |-> FALSE, control_ok |-> FALSE]

Slots == 0 .. Size - 1
Rings == [buffer : [Slots -> Events], head : Slots, tail : Slots, count : 0 .. Size]

Init == /\ ctl = Cleared
        /\ ring = [buffer |-> [i \in Slots |-> "NONE"], head |-> 0, tail |-> 0, count |-> 0]
        /\ step = "idle" /\ handled = 0 /\ qe = None /\ reply = None
-------------------------------------------------------------------------------------
(* system_controller_event_queue_push and _pop.                                    *)
PushPastEnd(r, e) == [r EXCEPT !.buffer[r.head] = e,
                               !.head = @ + 1,
                               !.count = @ + 1]

Push(r, e) == [r EXCEPT !.buffer[r.head] = e,
                        !.head = (@ + 1) % Size,
                        !.count = @ + 1]

Oldest(r) == r.buffer[r.tail]
Newest(r) == r.buffer[(r.head + Size - 1) % Size]

Pop(r) == [r EXCEPT !.tail = (@ + 1) % Size, !.count = @ - 1]

(* system_controller_validate_state_transition                                     *)
AllowedRestart(from, to) ==
  \/ from = "INIT" /\ to \in {"IDLE", "FAULT"}
  \/ from \in {"IDLE", "ACTIVE", "FAULT", "EMERGENCY"} /\ to # "INIT"
  \/ from = "SHUTDOWN" /\ to = "INIT"

Allowed(from, to) ==
  \/ from = "INIT" /\ to \in {"IDLE", "FAULT"}
  \/ from \in {"IDLE", "ACTIVE"} /\ to # "INIT"
  \/ from \in {"FAULT", "EMERGENCY"} /\ to \notin {"INIT", "ACTIVE"}
  \/ from = "SHUTDOWN" /\ to = "INIT"

(* system_controller_set_state, is_ready, activate and one more error              *)
Set(c, s)     == [c EXCEPT !.state = IF Allowed(@, s) THEN s ELSE @]
Ready(c)      == c.safety_ok /\ c.communication_ok /\ c.control_ok
Activated(c)  == [c EXCEPT !.activated = @ \/ Ready(c)]
CountError(c) == [c EXCEPT !.errors = IF @ < MaxErrors THEN @ + 1 ELSE @]

(* The switch of system_controller_handle_event; activate's and deactivate's       *)
(* refusals are ignored there.                                                     *)
Effect(c, e) ==
  CASE e = "INIT_COMPLETE"  -> Set(c, "IDLE")
    [] e = "ACTIVATE"       -> Set(Activated(c), "ACTIVE")
    [] e = "DEACTIVATE"     -> Set([c EXCEPT !.activated = FALSE], "IDLE")
    [] e = "FAULT_DETECTED" -> CountError(Set(c, "FAULT"))
    [] e = "FAULT_CLEARED"  -> Set([c EXCEPT !.errors = 0], "IDLE")
    [] e = "EMERGENCY"      -> CountError(Set(c, "EMERGENCY"))
    [] e = "SHUTDOWN"       -> Set(c, "SHUTDOWN")
    [] e = "ERROR"          -> CountError(c)
    [] e = "NONE"           -> c

(* "Enforce max error policy without recursive enqueue".                           *)
EnforceInActive(c) == IF c.errors = MaxErrors /\ c.state = "ACTIVE" THEN Set(c, "FAULT") ELSE c
Enforce(c) == IF c.errors = MaxErrors THEN Set(c, "FAULT") ELSE c
-------------------------------------------------------------------------------------
(* system_controller_init and _deinit clear the instance and leave the queue.      *)
SystemInit == /\ step = "idle" /\ ~ctl.initialized
              /\ ctl' = [Cleared EXCEPT !.initialized = TRUE]
              /\ UNCHANGED <<ring, step, handled, qe>>

Deinit == /\ step = "idle" /\ ctl.initialized
          /\ ctl' = Cleared
          /\ UNCHANGED <<ring, step, handled, qe>>

(* system_controller_process_event: a full queue counts as an error.               *)
ProcessEvent(e) ==
  /\ ctl.initialized
  /\ \/ ring.count < Size /\ ring' = Push(ring, e) /\ reply' = <<e, "OK">> /\ UNCHANGED ctl
     \/ /\ ring.count = Size /\ ctl' = CountError(ctl) /\ reply' = <<e, "ERROR">>
        /\ UNCHANGED ring
  /\ UNCHANGED <<step, handled, qe>>

(* set_state, activate, deactivate and reset_errors, called from outside.          *)
Call == /\ step = "idle" /\ ctl.initialized
        /\ \/ \E s \in States : ctl' = Set(ctl, s)
           \/ ctl' = Activated(ctl)
           \/ ctl' = [ctl EXCEPT !.activated = FALSE]
           \/ ctl' = [ctl EXCEPT !.errors = 0]
        /\ UNCHANGED <<ring, step, handled, qe>>

(* system_controller_update up to the dispatch: each check writes its flag, and     *)
(* the first that fails ends the update.  An unsafe answer of the safety monitor    *)
(* is no failure.                                                                  *)
Update ==
  /\ step = "idle" /\ ctl.initialized
  /\ \/ ctl' = [ctl EXCEPT !.safety_ok = FALSE] /\ UNCHANGED step
     \/ \E safe \in BOOLEAN :
          \/ ctl' = [ctl EXCEPT !.safety_ok = safe, !.communication_ok = FALSE] /\ UNCHANGED step
          \/ /\ ctl' = [ctl EXCEPT !.safety_ok = safe, !.communication_ok = TRUE,
                                   !.control_ok = FALSE]
             /\ UNCHANGED step
          \/ /\ ctl' = [ctl EXCEPT !.safety_ok = safe, !.communication_ok = TRUE,
                                   !.control_ok = TRUE]
             /\ step' = "dispatch"
  /\ UNCHANGED <<ring, handled, qe>>

(* system_controller_dispatch_events                                               *)
DispatchTakesNewest ==
  /\ step = "dispatch" /\ handled < Burst /\ ring.count > 0
  /\ qe' = Newest(ring)
  /\ ring' = [ring EXCEPT !.head = (@ + Size - 1) % Size, !.count = @ - 1]
  /\ step' = "handle"
  /\ UNCHANGED <<ctl, handled>>

Dispatch == /\ step = "dispatch" /\ handled < Burst /\ ring.count > 0
            /\ qe' = Oldest(ring)
            /\ ring' = Pop(ring)
            /\ step' = "handle"
            /\ UNCHANGED <<ctl, handled>>

(* system_controller_handle_event                                                  *)
Handle == /\ step = "handle"
          /\ ctl' = Enforce(Effect(ctl, qe))
          /\ step' = "dispatch" /\ handled' = handled + 1 /\ qe' = None
          /\ UNCHANGED ring

Finish == /\ step = "dispatch"
          /\ handled = Burst \/ ring.count = 0
          /\ step' = "idle" /\ handled' = 0
          /\ UNCHANGED <<ctl, ring, qe>>

Next == \/ \E e \in Raised : ProcessEvent(e)
        \/ /\ SystemInit \/ Deinit \/ Call \/ Update \/ Dispatch \/ Handle \/ Finish
           /\ reply' = None

Spec == Init /\ [][Next]_vars

(* An update that began returns.                                                   *)
FairSpec == Spec /\ WF_vars((Dispatch \/ Handle \/ Finish) /\ reply' = None)
-------------------------------------------------------------------------------------
(* Every variable stays within its type.                                           *)
TypeOK == /\ ctl \in Controllers
          /\ ring \in Rings
          /\ step \in {"idle", "dispatch", "handle"}
          /\ handled \in 0 .. Burst
          /\ qe \in Events \cup {None}
          /\ reply \in (Events \X {"OK", "ERROR"}) \cup {None}

(* The ring is a queue: what it holds, from tail to head across the wrap, are the   *)
(* accepted events in order, each handled once.                                    *)
Waiting(r) == [i \in 1 .. r.count |-> r.buffer[(r.tail + i - 1) % Size]]

Fifo == INSTANCE EventFifo WITH Event <- Raised, Capacity <- Size,
                                queue <- Waiting(ring), taken <- qe

ImplementsFifo == Fifo!FifoSpec

Stopped  == {"FAULT", "EMERGENCY"}
Releases == {"INIT_COMPLETE", "DEACTIVATE", "FAULT_CLEARED"}

(* A controller that stopped stays so until it is released: whatever was activated, *)
(* counted or queued before and after the stop, in the same batch too, FAULT and    *)
(* EMERGENCY are left (but for each other and for SHUTDOWN) only to IDLE, by one of *)
(* the three events that release or by a caller's set_state, or by a new init.      *)
StoppedUntilReleased ==
  [][ctl.state \in Stopped /\ ctl'.state \notin Stopped \cup {"SHUTDOWN"} =>
       \/ ctl'.state = "IDLE" /\ (Call \/ (Handle /\ qe \in Releases))
       \/ SystemInit \/ Deinit]_vars

(* Once as many errors were counted as the policy allows, refused events included,  *)
(* every handled event leaves the controller in FAULT or shut down.                *)
ErrorsStop ==
  [][Handle /\ ctl'.errors = MaxErrors => ctl'.state \in {"FAULT", "SHUTDOWN"}]_vars

(* If updates get as far as the dispatcher again and again, every event that waits  *)
(* is handled, however many are raised meanwhile.                                  *)
EventsHandled ==
  \A e \in Raised :
    []<>(step = "dispatch") =>
      ((\E i \in 1 .. ring.count : Waiting(ring)[i] = e) ~> (qe = e))
=====================================================================================
