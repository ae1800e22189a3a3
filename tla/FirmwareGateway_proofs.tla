---------------------------- MODULE FirmwareGateway_proofs ----------------------------
(* Theorems about the gateway, for any number of tasks and every threshold, retry count   *)
(* and time.                                                                              *)
EXTENDS FirmwareGateway, TLAPS

(* The breaker alone: each of its functions keeps its type and the count of an open one.  *)
Counts(b) == b \in BreakerType /\ (b.state # "CLOSED" => b.failure_count = FailureThreshold)

LEMMA ResetCounts == Counts(Reset)
  BY BreakerAssumption DEF Counts, Reset, BreakerType, States

LEMMA AskedCounts ==
  ASSUME NEW b, Counts(b)
  PROVE  Counts(Asked(b))
<1>1. b \in BreakerType /\ SuccessThreshold - 1 \in Nat
  BY BreakerAssumption DEF Counts
<1>2. CASE b.state = "OPEN" /\ ShouldAttemptReset(b)
  <2>1. Asked(b) = [b EXCEPT !.state = "HALF_OPEN", !.success_count = 0]
    BY <1>2 DEF Asked
  <2>2. "HALF_OPEN" \in States /\ 0 \in 0 .. SuccessThreshold - 1
    BY <1>1 DEF States
  <2>3. Asked(b) \in BreakerType /\ Asked(b).failure_count = b.failure_count
    BY <1>1, <2>1, <2>2 DEF BreakerType
  <2> QED
    BY <1>2, <2>3 DEF Counts
<1>3. CASE ~(b.state = "OPEN" /\ ShouldAttemptReset(b))
  BY <1>3 DEF Asked
<1> QED
  BY <1>2, <1>3

LEMMA SuccessCounts ==
  ASSUME NEW b, Counts(b)
  PROVE  Counts(RecordSuccess(b))
<1>1. /\ b \in BreakerType /\ SuccessThreshold \in Nat \ {0} /\ FailureThreshold \in Nat
      /\ b.state \in {"CLOSED", "OPEN", "HALF_OPEN"} /\ b.success_count \in 0 .. SuccessThreshold - 1
  BY BreakerAssumption DEF Counts, BreakerType, States
<1>2. CASE b.state = "HALF_OPEN" /\ b.success_count + 1 >= SuccessThreshold
  BY <1>2, ResetCounts DEF RecordSuccess
<1>3. CASE b.state = "HALF_OPEN" /\ ~(b.success_count + 1 >= SuccessThreshold)
  <2>1. RecordSuccess(b) = [b EXCEPT !.success_count = b.success_count + 1]
    BY <1>3 DEF RecordSuccess
  <2>2. b.success_count + 1 \in 0 .. SuccessThreshold - 1
    BY <1>1, <1>3
  <2> QED
    BY <1>1, <2>1, <2>2 DEF Counts, BreakerType
<1>4. CASE b.state = "CLOSED"
  <2>1. RecordSuccess(b) = [b EXCEPT !.failure_count = 0]
    BY <1>4 DEF RecordSuccess
  <2> QED
    BY <1>1, <1>4, <2>1 DEF Counts, BreakerType
<1>5. CASE b.state = "OPEN"
  BY <1>5 DEF RecordSuccess
<1> QED
  BY <1>1, <1>2, <1>3, <1>4, <1>5

LEMMA FailureCounts ==
  ASSUME NEW b, Counts(b)
  PROVE  Counts(RecordFailure(b))
<1> DEFINE count == IF b.failure_count < FailureThreshold THEN b.failure_count + 1
                    ELSE FailureThreshold
           state == IF count >= FailureThreshold THEN "OPEN" ELSE b.state
<1>1. /\ b \in BreakerType /\ FailureThreshold \in Nat \ {0} /\ RecoveryTimeout \in Nat
      /\ b.failure_count \in 0 .. FailureThreshold /\ b.state \in States
  BY BreakerAssumption DEF Counts, BreakerType
<1>2. count \in 0 .. FailureThreshold /\ (count >= FailureThreshold => count = FailureThreshold)
  BY <1>1
<1>3. RecordFailure(b) = [b EXCEPT !.failure_count = count, !.failed_ago = 0, !.state = state]
  BY DEF RecordFailure
<1>4. state \in States /\ (state # "CLOSED" => count = FailureThreshold)
  <2>1. b.state # "CLOSED" => count = FailureThreshold
    BY <1>1 DEF Counts
  <2> QED
    BY <1>1, <1>2, <2>1 DEF States
<1> HIDE DEF count, state
<1>5. 0 \in 0 .. RecoveryTimeout
  BY <1>1
<1>6. /\ RecordFailure(b) \in BreakerType
      /\ RecordFailure(b).state = state /\ RecordFailure(b).failure_count = count
  BY <1>1, <1>2, <1>3, <1>4, <1>5 DEF BreakerType
<1> QED
  BY <1>4, <1>6 DEF Counts

LEMMA AgedCounts ==
  ASSUME NEW b, Counts(b)
  PROVE  Counts(Aged(b))
<1>1. /\ b \in BreakerType /\ RecoveryTimeout \in Nat /\ b.failed_ago \in 0 .. RecoveryTimeout
  BY BreakerAssumption DEF Counts, BreakerType
<1>2. PICK a \in 0 .. RecoveryTimeout : Aged(b) = [b EXCEPT !.failed_ago = a]
  BY <1>1 DEF Aged
<1> QED
  BY <1>1, <1>2 DEF Counts, BreakerType
---------------------------------------------------------------------------------------
(* What the age of a sample is bounded by, on its way from the firmware to the caches: in  *)
(* the request that waits, in the memory cache, in the request that will store it, and in  *)
(* the cache of the service.                                                              *)
InFlight(task) == task.pc = "served" /\ task.op = "status" => task.sample <= task.waited
Stores(task) == task.op = "status" /\ task.age < LastAge
                  => task.sample <= task.age + MemTtl + AttemptTime
Ordered(task) == /\ task \in Requests /\ InFlight(task) /\ Stores(task)
                 /\ task.pc = "backoff" => task.attempt < Attempts(task.op)
                 /\ task.pc = "db" => task.op = "status"
                 /\ task.op # "status" \/ task.pc = "idle" => task.sample = None

MemoryOK == /\ memory \in [sample : None .. MaxAge, age : 0 .. MemTtl]
            /\ memory.age < MemTtl => memory.sample <= memory.age + AttemptTime
StatusOK == /\ status \in [sample : None .. MaxAge, age : 0 .. LastAge]
            /\ status.age < LastAge => status.sample <= status.age + MemTtl + AttemptTime

IInv == /\ Counts(breaker)
        /\ tasks \in [Tasks -> Requests] /\ \A t \in Tasks : Ordered(tasks[t])
        /\ MemoryOK /\ StatusOK

LEMMA Times == /\ AttemptTime \in Nat /\ MemTtl \in Nat /\ LastAge \in Nat /\ MaxAge \in Nat
               /\ MaxAge = LastAge + MemTtl + AttemptTime /\ None = -1
               /\ StatusRetries \in Nat \ {0} /\ CommandRetries \in Nat \ {0}
               /\ 0 \in None .. MaxAge /\ None \in None .. MaxAge
  BY GatewayAssumption DEF MaxAge, LastAge, None

LEMMA IdleOrdered == Ordered(Idle)
  BY Times DEF Idle, Ordered, Requests, InFlight, Stores, Ops

(* One request changes, and the others stay.                                             *)
LEMMA PutOrdered ==
  ASSUME IInv, NEW t \in Tasks, NEW task, Ordered(task), Put(t, task)
  PROVE  tasks' \in [Tasks -> Requests] /\ \A u \in Tasks : Ordered(tasks'[u])
<1>1. tasks' = [tasks EXCEPT ![t] = task] /\ task \in Requests
  BY DEF Put, Ordered
<1> QED
  BY <1>1 DEF IInv

LEMMA StoreOK ==
  ASSUME NEW task, task \in Requests, task.op = "status", Stores(task), Store(task)
  PROVE  StatusOK'
  BY Times DEF Store, StatusOK, Stores, Requests

(* A response ends a request or leaves it with a write to do.                             *)
LEMMA RespondOrdered ==
  ASSUME IInv, NEW t \in Tasks, NEW task, Ordered(task), NEW ok \in BOOLEAN,
         Respond(t, task, ok)
  PROVE  /\ tasks' \in [Tasks -> Requests] /\ \A u \in Tasks : Ordered(tasks'[u])
         /\ StatusOK'
<1>1. CASE task.op = "status" /\ ~ok
  <2> DEFINE lost == [task EXCEPT !.sample = None]
  <2>1. lost \in Requests /\ lost.op = "status" /\ Stores(lost)
    BY <1>1, Times DEF Ordered, Requests, Stores
  <2>2. Put(t, Idle) /\ Store(lost)
    BY <1>1 DEF Respond
  <2> QED
    BY <2>1, <2>2, IdleOrdered, PutOrdered, StoreOK
<1>2. CASE ~(task.op = "status" /\ ~ok)
  <2> DEFINE write == [task EXCEPT !.pc = "write", !.waited = 0, !.attempt = 0,
                                   !.success = ok /\ task.op = "command"]
  <2>1. Ordered(write)
    <3>1. 0 \in 0 .. AttemptTime /\ 0 \in 0 .. StatusRetries + CommandRetries
      BY Times
    <3>2. write \in Requests
      BY <3>1 DEF Ordered, Requests
    <3>3. /\ write.pc = "write" /\ write.op = task.op /\ write.age = task.age
          /\ write.sample = task.sample
      BY DEF Ordered, Requests
    <3> QED
      BY <3>2, <3>3 DEF Ordered, InFlight, Stores
  <2>2. Put(t, write) /\ UNCHANGED status
    BY <1>2 DEF Respond
  <2> QED
    BY <2>1, <2>2, PutOrdered DEF IInv, StatusOK
<1> QED
  BY <1>1, <1>2

LEMMA SentOrdered ==
  ASSUME NEW task, Ordered(task), NEW n \in 0 .. StatusRetries + CommandRetries
  PROVE  Ordered(Sent(task, n))
<1>1. 0 \in 0 .. AttemptTime
  BY Times
<1>2. Sent(task, n) \in Requests
  BY <1>1 DEF Ordered, Sent, Requests
<1>3. /\ Sent(task, n).pc = "sent" /\ Sent(task, n).op = task.op
      /\ Sent(task, n).age = task.age /\ Sent(task, n).sample = task.sample
  BY DEF Ordered, Sent, Requests
<1> QED
  BY <1>2, <1>3 DEF Ordered, InFlight, Stores

LEMMA ProtectOrdered ==
  ASSUME IInv, NEW t \in Tasks, NEW task, Ordered(task), Protect(t, task)
  PROVE  /\ tasks' \in [Tasks -> Requests] /\ \A u \in Tasks : Ordered(tasks'[u])
         /\ StatusOK' /\ Counts(breaker')
<1>1. Counts(breaker')
  BY AskedCounts DEF Protect, IInv
<1>2. CASE Allows(breaker)
  <2>1. Put(t, Sent(task, 1)) /\ UNCHANGED status
    BY <1>2 DEF Protect
  <2>2. Ordered(Sent(task, 1))
    BY Times, SentOrdered
  <2> QED
    BY <1>1, <2>1, <2>2, PutOrdered DEF IInv, StatusOK
<1>3. CASE ~Allows(breaker)
  BY <1>1, <1>3, RespondOrdered DEF Protect
<1> QED
  BY <1>2, <1>3

LEMMA MemorySame == IInv /\ UNCHANGED memory => MemoryOK'
  BY DEF IInv, MemoryOK

LEMMA StatusSame == IInv /\ UNCHANGED status => StatusOK'
  BY DEF IInv, StatusOK

LEMMA BreakerSame == IInv /\ UNCHANGED breaker => Counts(breaker')
  BY DEF IInv

(* The four parts of the invariant, as the lemmas below establish them.                   *)
LEMMA Parts ==
  Counts(breaker') /\ tasks' \in [Tasks -> Requests] /\ (\A u \in Tasks : Ordered(tasks'[u]))
    /\ MemoryOK' /\ StatusOK' => IInv'
  BY DEF IInv, Ordered, Requests, Counts, InFlight, Stores

LEMMA CommandInv ==
  ASSUME IInv, NEW t \in Tasks, Command(t)
  PROVE  IInv'
<1> DEFINE task == [Idle EXCEPT !.op = "command"]
<1>0. Idle \in Requests
  BY IdleOrdered DEF Ordered
<1>a. task \in Requests /\ task.pc = "idle" /\ task.op = "command" /\ task.sample = None
  BY <1>0 DEF Idle, Requests, Ops
<1>1. Ordered(task)
  BY <1>a DEF Ordered, InFlight, Stores
<1> QED
  BY <1>1, ProtectOrdered, MemorySame, Parts DEF Command

LEMMA RefuseInv ==
  ASSUME IInv, NEW t \in Tasks, Refuse(t)
  PROVE  IInv'
<1> DEFINE task == [Idle EXCEPT !.op = "command", !.pc = "log"]
<1>0. Idle \in Requests
  BY IdleOrdered DEF Ordered
<1>1. task \in Requests /\ task.pc = "log" /\ task.op = "command" /\ task.sample = None
  BY <1>0 DEF Idle, Requests, Ops
<1>2. Ordered(task)
  BY <1>1 DEF Ordered, InFlight, Stores
<1> QED
  BY <1>2, PutOrdered, MemorySame, StatusSame, BreakerSame, Parts DEF Refuse

LEMMA AskStatusInv ==
  ASSUME IInv, NEW t \in Tasks, AskStatus(t)
  PROVE  IInv'
<1> DEFINE task == [Idle EXCEPT !.pc = "db"]
<1>0. Idle \in Requests /\ Stores(Idle)
  BY IdleOrdered DEF Ordered
<1>a. /\ task \in Requests /\ task.pc = "db" /\ task.op = "status"
      /\ task.sample = Idle.sample /\ task.age = Idle.age /\ Idle.op = "status"
  BY <1>0 DEF Idle, Requests
<1>1. Ordered(task)
  BY <1>0, <1>a DEF Ordered, InFlight, Stores
<1> QED
  BY <1>1, PutOrdered, MemorySame, StatusSame, BreakerSame, Parts DEF AskStatus

LEMMA FetchInv ==
  ASSUME IInv, NEW t \in Tasks, Fetch(t)
  PROVE  IInv'
<1>1. Ordered(tasks[t]) /\ tasks[t].pc = "db" /\ MemoryOK
  BY DEF IInv, Fetch
<1>2. CASE memory.age < MemTtl
  <2> DEFINE task == [tasks[t] EXCEPT !.sample = memory.sample]
  <2>1. memory.sample \in None .. MaxAge /\ memory.sample <= MemTtl + AttemptTime
    BY <1>1, <1>2, Times DEF MemoryOK
  <2>2. /\ task \in Requests /\ task.pc = "db" /\ task.op = "status"
        /\ task.sample = memory.sample /\ task.age \in 0 .. LastAge
    BY <1>1, <2>1 DEF Ordered, Requests
  <2>3. Ordered(task)
    BY <2>1, <2>2, Times DEF Ordered, InFlight, Stores
  <2>4. Respond(t, task, TRUE) /\ breaker' = RecordSuccess(breaker)
    BY <1>2 DEF Fetch
  <2>5. Counts(breaker')
    BY <2>4, SuccessCounts DEF IInv
  <2>6. UNCHANGED memory
    BY DEF Fetch
  <2> HIDE DEF task
  <2> QED
    BY <2>3, <2>4, <2>5, <2>6, RespondOrdered, MemorySame, Parts
<1>3. CASE ~(memory.age < MemTtl)
  <2>1. /\ Put(t, [tasks[t] EXCEPT !.pc = "redis"])
        /\ UNCHANGED <<breaker, status, memory>>
    BY <1>3 DEF Fetch
  <2>2. Ordered([tasks[t] EXCEPT !.pc = "redis"])
    BY <1>1 DEF Ordered, Requests, InFlight, Stores
  <2> QED
    BY <2>1, <2>2, PutOrdered, MemorySame, StatusSame, BreakerSame, Parts
<1> QED
  BY <1>2, <1>3

LEMMA ServeInv ==
  ASSUME IInv, NEW t \in Tasks, Serve(t)
  PROVE  IInv'
<1> DEFINE made == IF tasks[t].op = "status" THEN 0 ELSE tasks[t].sample
           task == [tasks[t] EXCEPT !.pc = "served", !.executed = tasks[t].op # "status",
                                    !.sample = made]
<1>1. Ordered(tasks[t])
  BY DEF IInv
<1>2. made \in None .. MaxAge
  BY <1>1, Times DEF Ordered, Requests
<1>3. /\ task \in Requests /\ task.pc = "served" /\ task.op = tasks[t].op
      /\ task.sample = made /\ task.age = tasks[t].age /\ task.waited = tasks[t].waited
      /\ task.age \in 0 .. LastAge /\ task.waited \in 0 .. AttemptTime
  BY <1>1, <1>2 DEF Ordered, Requests
<1>4. Ordered(task)
  BY <1>1, <1>3, Times DEF Ordered, InFlight, Stores
<1>5. Put(t, task) /\ UNCHANGED <<breaker, memory, status>>
  BY DEF Serve
<1> HIDE DEF task
<1> QED
  BY <1>4, <1>5, PutOrdered, MemorySame, StatusSame, BreakerSame, Parts

LEMMA ReplyInv ==
  ASSUME IInv, NEW t \in Tasks, Reply(t)
  PROVE  IInv'
<1>1. Ordered(tasks[t]) /\ tasks[t].pc = "served"
  BY DEF IInv, Reply
<1>2. CASE tasks[t].attempt = 0
  <2>1. /\ memory' = [sample |-> tasks[t].sample, age |-> 0]
        /\ Put(t, [tasks[t] EXCEPT !.pc = "setex", !.waited = 0])
        /\ UNCHANGED <<breaker, status>>
    BY <1>2 DEF Reply
  <2>2. /\ tasks[t].sample \in None .. MaxAge /\ tasks[t].waited \in 0 .. AttemptTime
        /\ tasks[t].op = "status" => tasks[t].sample <= tasks[t].waited
        /\ tasks[t].op # "status" => tasks[t].sample = None
    BY <1>1 DEF Ordered, Requests, InFlight
  <2>3. tasks[t].sample <= AttemptTime
    BY <2>2, Times
  <2>4. MemoryOK'
    BY <2>1, <2>2, <2>3, Times DEF MemoryOK
  <2>5. Ordered([tasks[t] EXCEPT !.pc = "setex", !.waited = 0])
    <3>1. 0 \in 0 .. AttemptTime
      BY Times
    <3> QED
      BY <1>1, <3>1 DEF Ordered, Requests, InFlight, Stores
  <2> QED
    BY <2>1, <2>4, <2>5, PutOrdered, StatusSame, BreakerSame, Parts
<1>3. CASE tasks[t].attempt # 0
  <2>1. breaker' = RecordSuccess(breaker) /\ Respond(t, tasks[t], TRUE) /\ UNCHANGED memory
    BY <1>3 DEF Reply
  <2>2. Counts(breaker')
    BY <2>1, SuccessCounts DEF IInv
  <2> QED
    BY <1>1, <2>1, <2>2, RespondOrdered, MemorySame, Parts
<1> QED
  BY <1>2, <1>3

LEMMA SetexRefusedInv ==
  ASSUME IInv, NEW t \in Tasks, SetexRefused(t)
  PROVE  IInv'
<1>1. breaker' = RecordSuccess(breaker) /\ Respond(t, tasks[t], TRUE) /\ UNCHANGED memory
  BY DEF SetexRefused
<1>2. Ordered(tasks[t]) /\ Counts(breaker')
  BY <1>1, SuccessCounts DEF IInv
<1> QED
  BY <1>1, <1>2, RespondOrdered, MemorySame, Parts

LEMMA FailInv ==
  ASSUME IInv, NEW t \in Tasks, Fail(t)
  PROVE  IInv'
<1>1. Ordered(tasks[t]) /\ UNCHANGED memory
  BY DEF IInv, Fail
<1>2. CASE tasks[t].attempt = 0
  <2> DEFINE task == [tasks[t] EXCEPT !.sample = None]
  <2>1. Protect(t, task)
    BY <1>2 DEF Fail
  <2>2. /\ task \in Requests /\ task.pc = tasks[t].pc /\ task.op = tasks[t].op
        /\ task.sample = None /\ task.age \in 0 .. LastAge /\ task.waited \in 0 .. AttemptTime
        /\ task.attempt = tasks[t].attempt
    BY <1>1, Times DEF Ordered, Requests
  <2>3. Ordered(task)
    BY <1>1, <2>2, Times DEF Ordered, InFlight, Stores
  <2> HIDE DEF task
  <2> QED
    BY <1>1, <2>1, <2>3, ProtectOrdered, MemorySame, Parts
<1>3. CASE tasks[t].attempt # 0 /\ tasks[t].attempt < Attempts(tasks[t].op)
  <2> DEFINE task == [tasks[t] EXCEPT !.pc = "backoff", !.waited = 0, !.sample = None]
  <2>1. Put(t, task) /\ UNCHANGED <<breaker, status>>
    BY <1>3 DEF Fail
  <2>2. /\ task \in Requests /\ task.pc = "backoff" /\ task.op = tasks[t].op
        /\ task.sample = None /\ task.age \in 0 .. LastAge
        /\ task.attempt = tasks[t].attempt
    <3>1. 0 \in 0 .. AttemptTime /\ None \in None .. MaxAge
      BY Times
    <3> QED
      BY <1>1, <3>1 DEF Ordered, Requests
  <2>3. Ordered(task)
    BY <1>3, <2>2, Times DEF Ordered, InFlight, Stores
  <2> HIDE DEF task
  <2> QED
    BY <1>1, <2>1, <2>3, PutOrdered, MemorySame, StatusSame, BreakerSame, Parts
<1>4. CASE tasks[t].attempt # 0 /\ ~(tasks[t].attempt < Attempts(tasks[t].op))
  <2>1. Respond(t, tasks[t], FALSE) /\ breaker' = RecordFailure(breaker)
    BY <1>4 DEF Fail
  <2>2. Counts(breaker')
    BY <2>1, FailureCounts DEF IInv
  <2> QED
    BY <1>1, <2>1, <2>2, RespondOrdered, MemorySame, Parts
<1> QED
  BY <1>2, <1>3, <1>4

LEMMA ResendInv ==
  ASSUME IInv, NEW t \in Tasks, RedisMiss(t) \/ Retry(t)
  PROVE  IInv'
<1>1. Ordered(tasks[t]) /\ tasks[t].attempt \in Nat /\ tasks[t].op \in Ops
  BY DEF IInv, Ordered, Requests
<1>2. PICK n \in 0 .. StatusRetries + CommandRetries :
        Put(t, Sent(tasks[t], n)) /\ UNCHANGED <<breaker, memory, status>>
  <2>1. CASE RedisMiss(t)
    BY <2>1, Times DEF RedisMiss
  <2>2. CASE Retry(t)
    <3>1. tasks[t].attempt < Attempts(tasks[t].op)
      BY <1>1, <2>2 DEF Ordered, Retry
    <3>2. tasks[t].attempt + 1 \in 0 .. StatusRetries + CommandRetries
      BY <1>1, <3>1, Times DEF Attempts
    <3> QED
      BY <2>2, <3>2 DEF Retry
  <2> QED
    BY <2>1, <2>2
<1>3. Ordered(Sent(tasks[t], n))
  BY <1>1, SentOrdered
<1> QED
  BY <1>2, <1>3, PutOrdered, MemorySame, StatusSame, BreakerSame, Parts

LEMMA EndInv ==
  ASSUME IInv, NEW t \in Tasks, DbError(t) \/ Finish(t) \/ Logged(t)
  PROVE  IInv'
<1>1. Put(t, Idle) /\ UNCHANGED <<breaker, memory>>
  BY DEF DbError, Finish, Logged
<1>2. StatusOK'
  <2>1. CASE UNCHANGED status
    BY <2>1, StatusSame
  <2>2. CASE tasks[t].op = "status" /\ Store(tasks[t])
    BY <2>2, StoreOK DEF IInv, Ordered
  <2> QED
    BY <2>1, <2>2 DEF DbError, Finish, Logged
<1> QED
  BY <1>1, <1>2, IdleOrdered, PutOrdered, MemorySame, BreakerSame, Parts
---------------------------------------------------------------------------------------
(* A tick adds one to an age that is below its bound, and leaves "no sample" alone.        *)
LEMMA OlderStep ==
  ASSUME NEW last \in Nat, NEW a \in None .. last
  PROVE  /\ Older(a, last) \in None .. last /\ Older(a, last) <= a + 1
         /\ a \in 0 .. last => Older(a, last) \in 0 .. last
         /\ a \in 0 .. last - 1 => Older(a, last) = a + 1
         /\ a = None => Older(a, last) = None
  BY DEF Older, None

LEMMA TickInv ==
  ASSUME IInv, Tick
  PROVE  IInv'
<1>1. Counts(breaker')
  BY AgedCounts DEF IInv, Tick
<1>2. ASSUME NEW t \in Tasks
      PROVE  Ordered(tasks'[t])
  <2> DEFINE task == tasks[t]
             sample == Older(task.sample, MaxAge)
             age == IF task.pc # "idle" /\ task.op = "status"
                    THEN Older(task.age, LastAge) ELSE task.age
             waited == IF Waiting(task) THEN task.waited + 1 ELSE task.waited
  <2>1. tasks'[t] = [task EXCEPT !.sample = sample, !.age = age, !.waited = waited]
    BY DEF Tick
  <2>2. /\ Ordered(task) /\ task \in Requests
        /\ task.sample \in None .. MaxAge /\ task.age \in 0 .. LastAge
        /\ task.waited \in 0 .. AttemptTime
    BY DEF IInv, Ordered, Requests
  <2>3. sample \in None .. MaxAge /\ sample <= task.sample + 1 /\ (task.sample = None => sample = None)
    BY <2>2, Times, OlderStep
  <2>4. /\ age \in 0 .. LastAge /\ age >= task.age
        /\ task.pc # "idle" /\ task.op = "status" /\ task.age < LastAge => age = task.age + 1
    <3>1. task.age \in None .. LastAge
      BY <2>2, Times
    <3>2. /\ Older(task.age, LastAge) \in 0 .. LastAge
          /\ task.age \in 0 .. LastAge - 1 => Older(task.age, LastAge) = task.age + 1
      BY <2>2, <3>1, Times, OlderStep
    <3>3. Older(task.age, LastAge) >= task.age
      BY <2>2, Times DEF Older
    <3> QED
      BY <2>2, <3>2, <3>3, Times
  <2>5. waited \in 0 .. AttemptTime /\ (task.pc = "served" => waited = task.waited + 1)
    <3>1. Waiting(task) => task.waited < AttemptTime
      BY DEF Tick
    <3>2. task.pc = "served" => Waiting(task)
      BY DEF Waiting
    <3> QED
      BY <2>2, <3>1, <3>2, Times
  <2> HIDE DEF sample, age, waited
  <2>6. /\ tasks'[t] \in Requests /\ tasks'[t].pc = task.pc /\ tasks'[t].op = task.op
        /\ tasks'[t].attempt = task.attempt /\ tasks'[t].sample = sample
        /\ tasks'[t].age = age /\ tasks'[t].waited = waited
    BY <2>1, <2>2, <2>3, <2>4, <2>5 DEF Requests
  <2>7. InFlight(tasks'[t])
    BY <2>2, <2>3, <2>5, <2>6, Times DEF Ordered, InFlight
  <2>8. Stores(tasks'[t])
    <3>1. CASE task.pc = "idle"
      BY <2>2, <2>3, <2>4, <2>6, <3>1, Times DEF Ordered, Stores, None
    <3>2. CASE task.pc # "idle"
      BY <2>2, <2>3, <2>4, <2>6, <3>2, Times DEF Ordered, Stores
    <3> QED
      BY <3>1, <3>2
  <2> QED
    BY <2>2, <2>3, <2>6, <2>7, <2>8 DEF Ordered
<1>3. tasks' \in [Tasks -> Requests]
  <2>1. \A t \in Tasks : tasks'[t] \in Requests
    BY <1>2 DEF Ordered
  <2> QED
    BY <2>1 DEF Tick
<1>4. MemoryOK'
  <2>1. /\ memory.sample \in None .. MaxAge /\ memory.age \in 0 .. MemTtl
        /\ memory.age < MemTtl => memory.sample <= memory.age + AttemptTime
    BY DEF IInv, MemoryOK
  <2>2. /\ Older(memory.sample, MaxAge) \in None .. MaxAge
        /\ Older(memory.sample, MaxAge) <= memory.sample + 1
    BY <2>1, Times, OlderStep
  <2>3. CASE memory.age + 1 < MemTtl
    <3>1. memory' = [sample |-> Older(memory.sample, MaxAge), age |-> memory.age + 1]
      BY <2>3 DEF Tick
    <3>2. memory.age + 1 \in 0 .. MemTtl
      BY <2>1, <2>3, Times
    <3>3. Older(memory.sample, MaxAge) <= memory.age + 1 + AttemptTime
      BY <2>1, <2>2, <2>3, Times
    <3> QED
      BY <2>2, <3>1, <3>2, <3>3 DEF MemoryOK
  <2>4. CASE ~(memory.age + 1 < MemTtl)
    <3>1. memory' = Uncached
      BY <2>4 DEF Tick
    <3> QED
      BY <3>1, Times DEF MemoryOK, Uncached
  <2> QED
    BY <2>3, <2>4
<1>5. StatusOK'
  <2> DEFINE sample == Older(status.sample, MaxAge)
             age == Older(status.age, LastAge)
  <2>1. /\ status \in [sample : None .. MaxAge, age : 0 .. LastAge]
        /\ status.sample \in None .. MaxAge /\ status.age \in 0 .. LastAge
        /\ status.age < LastAge => status.sample <= status.age + MemTtl + AttemptTime
    BY DEF IInv, StatusOK
  <2>2. sample \in None .. MaxAge /\ sample <= status.sample + 1
    BY <2>1, Times, OlderStep
  <2>3. age \in 0 .. LastAge /\ (status.age < LastAge => age = status.age + 1)
    <3>1. status.age \in None .. LastAge
      BY <2>1, Times
    <3> QED
      BY <2>1, <3>1, Times, OlderStep
  <2>4. status' = [status EXCEPT !.sample = sample, !.age = age]
    BY DEF Tick
  <2>5. age < LastAge => status.age < LastAge
    BY <2>1, Times DEF Older
  <2> HIDE DEF sample, age
  <2>6. /\ status' \in [sample : None .. MaxAge, age : 0 .. LastAge]
        /\ status'.sample = sample /\ status'.age = age
    BY <2>1, <2>2, <2>3, <2>4
  <2>7. age < LastAge => sample <= age + MemTtl + AttemptTime
    BY <2>1, <2>2, <2>3, <2>5, Times
  <2> QED
    BY <2>6, <2>7 DEF StatusOK
<1> QED
  BY <1>1, <1>2, <1>3, <1>4, <1>5, Parts
---------------------------------------------------------------------------------------
LEMMA InvInit == Init => IInv
<1> SUFFICES ASSUME Init PROVE IInv
  OBVIOUS
<1>1. Idle \in Requests
  BY IdleOrdered DEF Ordered
<1>2. tasks \in [Tasks -> Requests] /\ \A t \in Tasks : Ordered(tasks[t])
  BY <1>1, IdleOrdered DEF Init
<1>3. MemoryOK /\ StatusOK
  BY Times DEF Init, MemoryOK, StatusOK, NoStatus, Uncached
<1> QED
  BY <1>2, <1>3, ResetCounts DEF Init, IInv

LEMMA InvInductive == IInv /\ [Next]_vars => IInv'
<1> SUFFICES ASSUME IInv, [Next]_vars PROVE IInv'
  OBVIOUS
<1>1. CASE \E t \in Tasks : AskStatus(t) \/ Command(t) \/ Refuse(t) \/ TaskStep(t)
  <2> PICK t \in Tasks : AskStatus(t) \/ Command(t) \/ Refuse(t) \/ TaskStep(t)
    BY <1>1
  <2> QED
    BY AskStatusInv, CommandInv, RefuseInv, FetchInv, ServeInv, ReplyInv, SetexRefusedInv, FailInv,
       ResendInv, EndInv DEF TaskStep
<1>2. CASE Tick
  BY <1>2, TickInv
<1>3. CASE UNCHANGED vars
  <2>1. UNCHANGED <<breaker, tasks, memory, status>>
    BY <1>3 DEF vars
  <2>2. tasks' \in [Tasks -> Requests] /\ \A t \in Tasks : Ordered(tasks'[t])
    BY <2>1 DEF IInv
  <2> QED
    BY <2>1, <2>2, MemorySame, StatusSame, BreakerSame, Parts
<1> QED
  BY <1>1, <1>2, <1>3 DEF Next

LEMMA SpecInv == Spec => []IInv
  BY InvInit, InvInductive, PTL DEF Spec

(* The breaker, the requests and both caches keep their types.                            *)
THEOREM GatewayTypeCorrect == Spec => []TypeOK
<1>1. IInv => TypeOK
  BY DEF IInv, TypeOK, Counts, MemoryOK, StatusOK
<1> QED
  BY SpecInv, <1>1, PTL

(* However the answers of concurrent requests mix, a breaker that is not closed holds the  *)
(* count of failures that opened it.                                                      *)
THEOREM CountIsKept == Spec => []OpenMeansFailures
<1>1. IInv => OpenMeansFailures
  BY DEF IInv, OpenMeansFailures, Counts
<1> QED
  BY SpecInv, <1>1, PTL

(* What either answer from the status cache gives was made at most a life of the memory    *)
(* cache and an attempt before its entry was stamped, whichever fetch was stored last; the *)
(* fresh answer is therefore of a bounded age. The answer to a database error is not.      *)
THEOREM AgeIsBounded ==
  Spec => []/\ StatusIsRecent
            /\ ServedFromCache => status.sample < CacheTtl + MemTtl + AttemptTime
<1>1. ASSUME IInv
      PROVE  /\ StatusIsRecent
             /\ ServedFromCache => status.sample < CacheTtl + MemTtl + AttemptTime
  <2>1. StatusIsRecent
    BY <1>1 DEF IInv, StatusIsRecent, StatusOK
  <2>2. /\ status.age \in 0 .. LastAge /\ status.sample \in None .. MaxAge
        /\ CacheTtl \in Nat /\ LastAge = CacheTtl + 1
    BY <1>1, GatewayAssumption DEF IInv, StatusOK, LastAge
  <2>3. ServedFromCache => status.age < CacheTtl /\ status.age < LastAge
    BY <2>2 DEF ServedFromCache
  <2> QED
    BY <2>1, <2>2, <2>3, Times DEF StatusIsRecent
<1> QED
  BY SpecInv, <1>1, PTL
---------------------------------------------------------------------------------------
(* How many steps of its own a request has left at most, from one await to the next.      *)
TriesLeft(task) == IF task.attempt < Attempts(task.op) THEN Attempts(task.op) - task.attempt ELSE 0
StepsLeft(task) == CASE task.pc = "db"      -> 3 * Attempts(task.op) + 5
                     [] task.pc = "redis"   -> 3 * Attempts(task.op) + 4
                     [] task.pc = "sent"    -> 3 * TriesLeft(task) + 3
                     [] task.pc = "served"  -> 3 * TriesLeft(task) + 2
                     [] task.pc = "backoff" -> 3 * TriesLeft(task) + 1
                     [] task.pc = "setex"   -> 2
                     [] task.pc \in {"write", "log"} -> 1
                     [] task.pc = "idle"    -> 0

LEMMA AttemptsType ==
  ASSUME NEW op
  PROVE  Attempts(op) \in Nat \ {0}
  BY Times DEF Attempts

LEMMA StepsLeftType ==
  ASSUME NEW task \in Requests
  PROVE  StepsLeft(task) \in 0 .. 3 * Attempts(task.op) + 5
<1>1. Attempts(task.op) \in Nat \ {0} /\ task.attempt \in Nat
  BY AttemptsType, Times DEF Requests
<1>2. TriesLeft(task) \in 0 .. Attempts(task.op)
  BY <1>1 DEF TriesLeft
<1>3. task.pc \in {"idle", "db", "redis", "sent", "served", "setex", "backoff", "write", "log"}
  BY DEF Requests
<1> QED
  BY <1>1, <1>2, <1>3 DEF StepsLeft

LEMMA RespondEnds ==
  ASSUME tasks \in [Tasks -> Requests], NEW t \in Tasks, NEW task \in Requests, NEW ok,
         Respond(t, task, ok)
  PROVE  /\ StepsLeft(tasks'[t]) \in {0, 1}
         /\ \A u \in Tasks \ {t} : tasks'[u] = tasks[u]
<1>1. CASE task.op = "status" /\ ~ok
  <2>1. tasks' = [tasks EXCEPT ![t] = Idle]
    BY <1>1 DEF Respond, Put
  <2>2. StepsLeft(Idle) = 0
    BY DEF StepsLeft, Idle
  <2> QED
    BY <2>1, <2>2
<1>2. CASE ~(task.op = "status" /\ ~ok)
  <2> DEFINE new == [task EXCEPT !.pc = "write", !.waited = 0, !.attempt = 0,
                                 !.success = ok /\ task.op = "command"]
  <2>1. tasks' = [tasks EXCEPT ![t] = new]
    BY <1>2 DEF Respond, Put
  <2>2. new.pc = "write"
    BY DEF Requests
  <2> HIDE DEF new
  <2>3. StepsLeft(new) = 1
    BY <2>2 DEF StepsLeft
  <2> QED
    BY <2>1, <2>3
<1> QED
  BY <1>1, <1>2

LEMMA SentLeft ==
  ASSUME NEW task \in Requests, NEW n \in Nat
  PROVE  StepsLeft(Sent(task, n)) = 3 * (IF n < Attempts(task.op) THEN Attempts(task.op) - n ELSE 0) + 3
<1>1. Sent(task, n).pc = "sent" /\ Sent(task, n).attempt = n /\ Sent(task, n).op = task.op
  BY DEF Sent, Requests
<1> QED
  BY <1>1 DEF StepsLeft, TriesLeft

LEMMA ProtectLeft ==
  ASSUME tasks \in [Tasks -> Requests], NEW t \in Tasks, NEW task \in Requests, Protect(t, task)
  PROVE  /\ StepsLeft(tasks'[t]) \in {0, 1, 3 * Attempts(task.op)}
         /\ \A u \in Tasks \ {t} : tasks'[u] = tasks[u]
<1>1. CASE Allows(breaker)
  <2>1. tasks' = [tasks EXCEPT ![t] = Sent(task, 1)]
    BY <1>1 DEF Protect, Put
  <2>2. StepsLeft(Sent(task, 1)) = 3 * Attempts(task.op)
    BY SentLeft, AttemptsType
  <2> QED
    BY <2>1, <2>2
<1>2. CASE ~Allows(breaker)
  BY <1>2, RespondEnds DEF Protect
<1> QED
  BY <1>1, <1>2

LEMMA StepCounts ==
  ASSUME IInv, NEW t \in Tasks, TaskStep(t)
  PROVE  /\ StepsLeft(tasks'[t]) < StepsLeft(tasks[t])
         /\ \A u \in Tasks \ {t} : tasks'[u] = tasks[u]
<1> DEFINE task == tasks[t]
           N == Attempts(task.op)
<1>1. /\ tasks \in [Tasks -> Requests] /\ task \in Requests /\ Ordered(task)
      /\ N \in Nat \ {0} /\ task.attempt \in Nat
  BY AttemptsType, Times DEF IInv, Requests
<1>2. TriesLeft(task) \in Nat /\ (task.attempt = 0 => TriesLeft(task) = N)
      /\ (task.attempt < N => TriesLeft(task) = N - task.attempt)
  BY <1>1 DEF TriesLeft
<1>3. ASSUME NEW new, Put(t, new), StepsLeft(new) < StepsLeft(task)
      PROVE  StepsLeft(tasks'[t]) < StepsLeft(task) /\ \A u \in Tasks \ {t} : tasks'[u] = tasks[u]
  BY <1>1, <1>3 DEF Put
<1>4. StepsLeft(Idle) = 0
  BY DEF StepsLeft, Idle
<1>14. ASSUME NEW new \in Requests, NEW ok, Respond(t, new, ok), StepsLeft(task) \in Nat, StepsLeft(task) >= 2
       PROVE  StepsLeft(tasks'[t]) < StepsLeft(task) /\ \A u \in Tasks \ {t} : tasks'[u] = tasks[u]
  <2>1. StepsLeft(tasks'[t]) \in {0, 1} /\ \A u \in Tasks \ {t} : tasks'[u] = tasks[u]
    BY <1>1, <1>14, RespondEnds
  <2> HIDE DEF task
  <2> QED
    BY <1>14, <2>1
<1>5. CASE Fetch(t)
  <2>1. StepsLeft(task) = 3 * N + 5
    BY <1>5 DEF Fetch, StepsLeft
  <2>2. CASE memory.age < MemTtl
    <3>1. memory.sample \in None .. MaxAge
      BY DEF IInv, MemoryOK
    <3>2. [task EXCEPT !.sample = memory.sample] \in Requests
      BY <1>1, <3>1 DEF Requests
    <3>3. Respond(t, [task EXCEPT !.sample = memory.sample], TRUE)
      BY <1>5, <2>2 DEF Fetch
    <3>4. StepsLeft(task) \in Nat /\ StepsLeft(task) >= 2
      BY <1>1, <2>1
    <3> QED
      BY <1>14, <3>2, <3>3, <3>4
  <2>3. CASE ~(memory.age < MemTtl)
    <3> DEFINE new == [task EXCEPT !.pc = "redis"]
    <3>1. Put(t, new)
      BY <1>5, <2>3 DEF Fetch
    <3>2. new.pc = "redis" /\ new.op = task.op
      BY <1>1 DEF Requests
    <3> HIDE DEF new
    <3>3. StepsLeft(new) = 3 * N + 4
      BY <3>2 DEF StepsLeft
    <3> QED
      BY <1>1, <1>3, <2>1, <3>1, <3>3
  <2> QED
    BY <2>2, <2>3
<1>6. CASE DbError(t)
  <2>1. StepsLeft(task) = 3 * N + 5 /\ Put(t, Idle)
    BY <1>6 DEF DbError, StepsLeft
  <2> QED
    BY <1>1, <1>3, <1>4, <2>1
<1>7. CASE RedisMiss(t)
  <2>1. StepsLeft(task) = 3 * N + 4 /\ Put(t, Sent(task, 0))
    BY <1>7 DEF RedisMiss, StepsLeft
  <2>2. StepsLeft(Sent(task, 0)) = 3 * N + 3
    BY <1>1, SentLeft
  <2> QED
    BY <1>1, <1>3, <2>1, <2>2
<1>8. CASE Serve(t)
  <2> DEFINE new == [task EXCEPT !.pc = "served", !.executed = task.op # "status",
                                 !.sample = IF task.op = "status" THEN 0 ELSE @]
  <2>1. task.pc = "sent" /\ Put(t, new)
    BY <1>8 DEF Serve
  <2>2. new.pc = "served" /\ new.op = task.op /\ new.attempt = task.attempt
    BY <1>1 DEF Requests
  <2> HIDE DEF new
  <2>3. StepsLeft(new) = 3 * TriesLeft(task) + 2 /\ StepsLeft(task) = 3 * TriesLeft(task) + 3
    BY <2>1, <2>2 DEF StepsLeft, TriesLeft
  <2> QED
    BY <1>2, <1>3, <2>1, <2>3
<1>9. CASE Reply(t)
  <2>1. StepsLeft(task) = 3 * TriesLeft(task) + 2
    BY <1>9 DEF Reply, StepsLeft
  <2>2. CASE task.attempt = 0
    <3> DEFINE new == [task EXCEPT !.pc = "setex", !.waited = 0]
    <3>1. Put(t, new)
      BY <1>9, <2>2 DEF Reply
    <3>2. new.pc = "setex"
      BY <1>1 DEF Requests
    <3> HIDE DEF new
    <3>3. StepsLeft(new) = 2
      BY <3>2 DEF StepsLeft
    <3> QED
      BY <1>1, <1>2, <1>3, <2>1, <2>2, <3>1, <3>3
  <2>3. CASE task.attempt # 0
    <3>1. Respond(t, task, TRUE)
      BY <1>9, <2>3 DEF Reply
    <3>2. StepsLeft(task) \in Nat /\ StepsLeft(task) >= 2
      BY <1>2, <2>1
    <3> QED
      BY <1>1, <1>14, <3>1, <3>2
  <2> QED
    BY <2>2, <2>3
<1>10. CASE SetexRefused(t)
  <2>1. StepsLeft(task) = 2
    BY <1>10 DEF SetexRefused, StepsLeft
  <2> QED
    <3>1. Respond(t, task, TRUE)
      BY <1>10 DEF SetexRefused
    <3>2. StepsLeft(task) \in Nat /\ StepsLeft(task) >= 2
      BY <2>1
    <3> QED
      BY <1>1, <1>14, <3>1, <3>2
<1>11. CASE Fail(t)
  <2>1. StepsLeft(task) \in {3 * TriesLeft(task) + 2, 3 * TriesLeft(task) + 3}
    BY <1>11 DEF Fail, StepsLeft
  <2>2. CASE task.attempt = 0
    <3> DEFINE new == [task EXCEPT !.sample = None]
    <3>1. new \in Requests /\ new.op = task.op
      BY <1>1, Times DEF Requests
    <3>2. Protect(t, new)
      BY <1>11, <2>2 DEF Fail
    <3> HIDE DEF new
    <3> QED
      BY <1>1, <1>2, <2>1, <2>2, <3>1, <3>2, ProtectLeft
  <2>3. CASE task.attempt # 0 /\ task.attempt < N
    <3> DEFINE new == [task EXCEPT !.pc = "backoff", !.waited = 0, !.sample = None]
    <3>1. Put(t, new)
      BY <1>11, <2>3 DEF Fail
    <3>2. new.pc = "backoff" /\ new.op = task.op /\ new.attempt = task.attempt
      BY <1>1 DEF Requests
    <3> HIDE DEF new
    <3>3. StepsLeft(new) = 3 * TriesLeft(task) + 1
      BY <3>2 DEF StepsLeft, TriesLeft
    <3> QED
      BY <1>2, <1>3, <2>1, <3>1, <3>3
  <2>4. CASE task.attempt # 0 /\ ~(task.attempt < N)
    <3>1. Respond(t, task, FALSE)
      BY <1>11, <2>4 DEF Fail
    <3>2. StepsLeft(task) \in Nat /\ StepsLeft(task) >= 2
      BY <1>2, <2>1
    <3> QED
      BY <1>1, <1>14, <3>1, <3>2
  <2> QED
    BY <2>2, <2>3, <2>4
<1>12. CASE Retry(t)
  <2>1. StepsLeft(task) = 3 * TriesLeft(task) + 1 /\ Put(t, Sent(task, task.attempt + 1)) /\ task.attempt < N
    BY <1>1, <1>12 DEF Retry, StepsLeft, Ordered
  <2>2. StepsLeft(Sent(task, task.attempt + 1)) = 3 * TriesLeft(task)
    BY <1>1, <1>2, <2>1, SentLeft
  <2> QED
    BY <1>2, <1>3, <2>1, <2>2
<1>13. CASE Finish(t) \/ Logged(t)
  <2>1. StepsLeft(task) = 1 /\ Put(t, Idle)
    BY <1>13 DEF Finish, Logged, StepsLeft
  <2> QED
    BY <1>3, <1>4, <2>1
<1> QED
  BY <1>5, <1>6, <1>7, <1>8, <1>9, <1>10, <1>11, <1>12, <1>13 DEF TaskStep

(* Each step of a request brings it nearer to its end, and neither time nor another        *)
(* request, whatever it does to the breaker they share, takes it farther away: a request   *)
(* ends after 3 * max_retries + 5 of its own steps at the most.                           *)
RequestsComeToEnd ==
  [][\A t \in Tasks :
       /\ StepsLeft(tasks[t]) \in 0 .. 3 * Attempts(tasks[t].op) + 5
       /\ TaskStep(t) => StepsLeft(tasks'[t]) < StepsLeft(tasks[t])
       /\ tasks[t].pc # "idle" => StepsLeft(tasks'[t]) <= StepsLeft(tasks[t])]_vars

(* The ranking above bounds every request of every task.                                 *)
THEOREM RequestsAreBounded == Spec => RequestsComeToEnd
<1>1. ASSUME IInv, [Next]_vars, NEW t \in Tasks
      PROVE  /\ StepsLeft(tasks[t]) \in 0 .. 3 * Attempts(tasks[t].op) + 5
             /\ TaskStep(t) => StepsLeft(tasks'[t]) < StepsLeft(tasks[t])
             /\ tasks[t].pc # "idle" => StepsLeft(tasks'[t]) <= StepsLeft(tasks[t])
  <2>1. tasks \in [Tasks -> Requests] /\ tasks[t] \in Requests
    BY <1>1 DEF IInv
  <2>2. StepsLeft(tasks[t]) \in 0 .. 3 * Attempts(tasks[t].op) + 5
    BY <2>1, StepsLeftType
  <2>3. StepsLeft(tasks[t]) \in Int
    <3>1. Attempts(tasks[t].op) \in Nat
      BY AttemptsType
    <3> QED
      BY <2>2, <3>1
  <2>6. StepsLeft(tasks'[t]) \in Int
    <3>1. tasks'[t] \in Requests
      BY <1>1, InvInductive DEF IInv
    <3>2. Attempts(tasks'[t].op) \in Nat
      BY AttemptsType
    <3> QED
      BY <3>1, <3>2, StepsLeftType
  <2>4. TaskStep(t) => StepsLeft(tasks'[t]) < StepsLeft(tasks[t])
    BY <1>1, StepCounts
  <2>5. ASSUME tasks[t].pc # "idle" PROVE TaskStep(t) \/ StepsLeft(tasks'[t]) = StepsLeft(tasks[t])
    <3>1. CASE UNCHANGED vars
      BY <3>1 DEF vars
    <3>2. CASE Tick
      <4>1. tasks'[t].pc = tasks[t].pc /\ tasks'[t].op = tasks[t].op /\ tasks'[t].attempt = tasks[t].attempt
        BY <2>1, <3>2 DEF Tick, Requests
      <4> QED
        BY <4>1 DEF StepsLeft, TriesLeft
    <3>3. ASSUME NEW u \in Tasks, u # t, TaskStep(u) PROVE tasks'[t] = tasks[t]
      BY <1>1, <3>3, StepCounts
    <3>4. ASSUME NEW u \in Tasks, u # t, AskStatus(u) \/ Refuse(u) PROVE tasks'[t] = tasks[t]
      BY <2>1, <3>4 DEF AskStatus, Refuse, Put
    <3>5. ASSUME NEW u \in Tasks, u # t, Command(u) PROVE tasks'[t] = tasks[t]
      <4>1. [Idle EXCEPT !.op = "command"] \in Requests
        BY IdleOrdered DEF Ordered, Requests, Ops
      <4> QED
        BY <2>1, <3>5, <4>1, ProtectLeft DEF Command
    <3>6. ~AskStatus(t) /\ ~Command(t) /\ ~Refuse(t)
      BY <2>5 DEF AskStatus, Command, Refuse
    <3> QED
      BY <1>1, <3>1, <3>2, <3>3, <3>4, <3>5, <3>6 DEF Next
  <2>7. tasks[t].pc # "idle" => StepsLeft(tasks'[t]) <= StepsLeft(tasks[t])
    BY <2>3, <2>4, <2>5, <2>6
  <2> QED
    BY <2>2, <2>4, <2>7
<1>2. IInv /\ [Next]_vars =>
        [\A t \in Tasks :
           /\ StepsLeft(tasks[t]) \in 0 .. 3 * Attempts(tasks[t].op) + 5
           /\ TaskStep(t) => StepsLeft(tasks'[t]) < StepsLeft(tasks[t])
           /\ tasks[t].pc # "idle" => StepsLeft(tasks'[t]) <= StepsLeft(tasks[t])]_vars
  BY <1>1
<1> QED
  BY <1>2, SpecInv, PTL DEF Spec, RequestsComeToEnd

---------------------------------------------------------------------------------------
(* Every step of every task changes the breaker by at most one of its methods.            *)
LEMMA OneMethod ==
  ASSUME [Next]_vars
  PROVE  breaker' \in {breaker, Asked(breaker), RecordSuccess(breaker), RecordFailure(breaker), Aged(breaker)}
<1>1. ASSUME NEW t \in Tasks, AskStatus(t) \/ Command(t) \/ Refuse(t) \/ TaskStep(t)
      PROVE  breaker' \in {breaker, Asked(breaker), RecordSuccess(breaker), RecordFailure(breaker)}
  BY <1>1 DEF AskStatus, Command, Refuse, Logged, TaskStep, Fetch, DbError, RedisMiss, Serve, Reply, SetexRefused, Fail, Retry,
              Finish, Protect
<1>2. CASE Tick
  BY <1>2 DEF Tick
<1> QED
  BY <1>1, <1>2 DEF Next, vars

(* However the requests mix: an open breaker is left after its time only, and for the       *)
(* probes only, so that the late success of a request admitted earlier does not take it    *)
(* out of OPEN; the successes that close it are counted from there, one at a time and from *)
(* zero, until there are as many as the threshold asks; and it opens by a failure that     *)
(* starts its time. Whose successes are counted is open: an answer to a request admitted   *)
(* before, or one of the memory cache, counts among the probes.                           *)
(* (circuit_breaker.py: allow_request, record_success, record_failure)                     *)
KeepsItsTime ==
  /\ breaker.state = "OPEN" /\ breaker'.state # "OPEN" =>
       breaker'.state = "HALF_OPEN" /\ breaker.failed_ago >= RecoveryTimeout
  /\ breaker.state # "HALF_OPEN" /\ breaker'.state = "HALF_OPEN" => breaker'.success_count = 0
  /\ breaker.state = "HALF_OPEN" /\ breaker'.state = "HALF_OPEN" =>
       breaker'.success_count \in {breaker.success_count, breaker.success_count + 1}
  /\ breaker.state # "CLOSED" /\ breaker'.state = "CLOSED" =>
       breaker.state = "HALF_OPEN" /\ breaker.success_count + 1 >= SuccessThreshold
  /\ breaker.state # "OPEN" /\ breaker'.state = "OPEN" => breaker'.failed_ago = 0

BreakerKeepsItsTime == [][KeepsItsTime]_vars

(* Every way the breaker changes its state keeps its thresholds and its time.            *)
THEOREM BreakerWaits == Spec => BreakerKeepsItsTime
<1>1. ASSUME IInv, [Next]_vars
      PROVE  KeepsItsTime
  <2>1. breaker \in BreakerType /\ breaker.state \in States
    BY <1>1 DEF IInv, Counts, BreakerType
  <2>2. CASE breaker' = breaker
    BY <2>2 DEF KeepsItsTime
  <2>3. CASE breaker' = Asked(breaker)
    <3>1. CASE breaker.state = "OPEN" /\ ShouldAttemptReset(breaker)
      <4>1. breaker'.state = "HALF_OPEN" /\ breaker'.success_count = 0
        BY <2>1, <2>3, <3>1 DEF Asked, BreakerType
      <4> QED
        BY <3>1, <4>1 DEF ShouldAttemptReset, KeepsItsTime
    <3>2. CASE ~(breaker.state = "OPEN" /\ ShouldAttemptReset(breaker))
      BY <2>3, <3>2 DEF Asked, KeepsItsTime
    <3> QED
      BY <3>1, <3>2
  <2>4. CASE breaker' = RecordSuccess(breaker)
    <3>1. CASE breaker.state = "HALF_OPEN"
      <4>1. CASE breaker.success_count + 1 >= SuccessThreshold
        BY <2>4, <3>1, <4>1 DEF RecordSuccess, Reset, KeepsItsTime
      <4>2. CASE ~(breaker.success_count + 1 >= SuccessThreshold)
        <5>1. breaker'.state = "HALF_OPEN" /\ breaker'.success_count = breaker.success_count + 1
          BY <2>1, <2>4, <3>1, <4>2 DEF RecordSuccess, BreakerType
        <5> QED
          BY <3>1, <5>1 DEF KeepsItsTime
      <4> QED
        BY <4>1, <4>2
    <3>2. CASE breaker.state = "CLOSED"
      <4>1. breaker'.state = "CLOSED"
        BY <2>1, <2>4, <3>2 DEF RecordSuccess, BreakerType
      <4> QED
        BY <3>2, <4>1 DEF KeepsItsTime
    <3>3. CASE breaker.state = "OPEN"
      BY <2>4, <3>3 DEF RecordSuccess, KeepsItsTime
    <3> QED
      BY <2>1, <3>1, <3>2, <3>3 DEF States
  <2>5. CASE breaker' = RecordFailure(breaker)
    <3>1. /\ breaker'.state \in {"OPEN", breaker.state} /\ breaker'.failed_ago = 0
          /\ breaker'.success_count = breaker.success_count
      BY <2>1, <2>5 DEF RecordFailure, BreakerType
    <3> QED
      BY <3>1 DEF KeepsItsTime
  <2>6. CASE breaker' = Aged(breaker)
    <3>1. breaker'.state = breaker.state /\ breaker'.success_count = breaker.success_count
      BY <2>1, <2>6 DEF Aged, BreakerType
    <3> QED
      BY <3>1 DEF KeepsItsTime
  <2> QED
    BY <1>1, <2>2, <2>3, <2>4, <2>5, <2>6, OneMethod
<1>2. IInv /\ [Next]_vars => [KeepsItsTime]_vars
  BY <1>1
<1> QED
  BY <1>2, SpecInv, PTL DEF Spec, BreakerKeepsItsTime
=======================================================================================
