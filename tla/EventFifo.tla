--------------------------------- MODULE EventFifo ---------------------------------
(* What the system controller's event queue promises, without a ring: an event is  *)
(* refused only when Capacity of them wait, and every accepted event is handed to  *)
(* the handler once, in the order in which they were raised, one at a time.        *)
EXTENDS Naturals, Sequences

CONSTANTS Event,     \* what may be raised
          Capacity,  \* SYSTEM_CONTROLLER_EVENT_QUEUE_SIZE
          None       \* no event, no call

VARIABLES queue,   \* the events that wait, oldest first
          taken,   \* the event with the handler
          reply    \* <<event, result>> when the last step was a call that raised an event

fifoVars == <<queue, taken, reply>>

FifoInit == queue = <<>> /\ taken = None /\ reply = None

Accept(e) == /\ Len(queue) < Capacity
             /\ queue' = Append(queue, e) /\ reply' = <<e, "OK">>
             /\ UNCHANGED taken

Refuse(e) == /\ Len(queue) = Capacity
             /\ reply' = <<e, "ERROR">>
             /\ UNCHANGED <<queue, taken>>

Take == /\ queue # <<>> /\ taken = None
        /\ taken' = Head(queue) /\ queue' = Tail(queue)
        /\ reply' = None

Finish == taken # None /\ taken' = None /\ reply' = None /\ UNCHANGED queue

Elsewhere == reply' = None /\ UNCHANGED <<queue, taken>>

FifoNext == (\E e \in Event : Accept(e) \/ Refuse(e)) \/ Take \/ Finish \/ Elsewhere

FifoSpec == FifoInit /\ [][FifoNext]_fifoVars
====================================================================================
