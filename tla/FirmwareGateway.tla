-------------------------------- MODULE FirmwareGateway --------------------------------
(* The backend's way to the firmware: the tasks of RobotControlService (status, commands, *)
(* emergency stop) through UnifiedFirmwareService, its breaker, its retries and the two   *)
(* status caches, on one event loop. A step of a task runs from one await to the next.    *)
(* Times are ages in ticks: how long ago something happened.                              *)
EXTENDS CircuitBreaker

CONSTANTS Tasks,         \* requests served at the same time
          StatusRetries, \* max_retries of robot_status
          CommandRetries,\* max_retries of robot_command
          AttemptTime,   \* the sum of an attempt's time-outs, see below
          MemTtl,        \* ttl of the memory cache
          CacheTtl       \* _cache_ttl of RobotControlService

(* httpx.Timeout(10.0) limits each phase of an attempt by itself: the wait for a connection *)
(* of the pool, the connect, the write and each read of the reply. AttemptTime stands for   *)
(* their sum: 40 seconds when the reply comes in one read, 10 more for every other read.    *)
ASSUME GatewayAssumption == /\ StatusRetries \in Nat \ {0} /\ CommandRetries \in Nat \ {0}
                            /\ AttemptTime \in Nat /\ MemTtl \in Nat /\ CacheTtl \in Nat

VARIABLES breaker,  \* the circuit breaker
          tasks,    \* what each request does
          memory,   \* L1 of FirmwareCache for robot_status
          status    \* _cache["status"] and _last_update of RobotControlService

vars == <<breaker, tasks, memory, status>>

None == -1                                 \* no sample: nothing cached, or database data
LastAge == CacheTtl + 1                     \* the age of an entry is counted no further
MaxAge == LastAge + MemTtl + AttemptTime    \* nor is a sample's
Ops == {"status", "command"}                \* an emergency stop is sent as a command

(* age: since current_time was read; sample: since the firmware made the data;            *)
(* waited: since the attempt began                                                         *)
Requests == [pc : {"idle", "db", "redis", "sent", "served", "setex", "backoff", "write", "log"},
             op : Ops, attempt : 0 .. StatusRetries + CommandRetries,
             waited : 0 .. AttemptTime, age : 0 .. LastAge, sample : None .. MaxAge,
             executed : BOOLEAN, success : BOOLEAN]

Idle == [pc |-> "idle", op |-> "status", attempt |-> 0, waited |-> 0, age |-> 0,
         sample |-> None, executed |-> FALSE, success |-> FALSE]

NoStatus == [sample |-> None, age |-> LastAge]
Uncached == [sample |-> None, age |-> MemTtl]

Init == breaker = Reset /\ tasks = [t \in Tasks |-> Idle] /\ memory = Uncached
        /\ status = NoStatus

Put(t, task) == tasks' = [tasks EXCEPT ![t] = task]
-----------------------------------------------------------------------------------------
(* Requests. The first attempt is number 1; the fetch under the cache is number 0.         *)
Sent(task, n) == [task EXCEPT !.pc = "sent", !.attempt = n, !.waited = 0]

(* The status and the time its request began go to the cache of the service                *)
StoreNow(task) == status' = [sample |-> task.sample, age |-> 0]
Store(task) == status' = [sample |-> task.sample, age |-> task.age]

(* The response in hand: a database write ends the request, the status or the log of the   *)
(* command. A status that the firmware did not give is stored at once, from the database.  *)
Respond(t, task, ok) ==
  IF task.op = "status" /\ ~ok
  THEN Put(t, Idle) /\ Store([task EXCEPT !.sample = None])
  ELSE /\ Put(t, [task EXCEPT !.pc = "write", !.waited = 0, !.attempt = 0,
                             !.success = ok /\ task.op = "command"])
       /\ UNCHANGED status

(* _execute_with_protection up to its first await                                          *)
Protect(t, task) ==
  /\ breaker' = Asked(breaker)
  /\ IF Allows(breaker) THEN Put(t, Sent(task, 1)) /\ UNCHANGED status
     ELSE Respond(t, task, FALSE)

(* send_command and emergency_stop, of a command that passes _validate_command             *)
Command(t) == /\ tasks[t].pc = "idle"
              /\ Protect(t, [Idle EXCEPT !.op = "command"])
              /\ UNCHANGED memory

(* UnifiedFirmwareService._validate_command raises: the command has no command_type, as     *)
(* those of /move and /stop (robot.py), or one that is not known. The breaker hears nothing *)
(* of it; its error is logged in the database.                                             *)
Refuse(t) == /\ tasks[t].pc = "idle"
             /\ Put(t, [Idle EXCEPT !.op = "command", !.pc = "log"])
             /\ UNCHANGED <<breaker, memory, status>>

Logged(t) == /\ tasks[t].pc = "log" /\ Put(t, Idle)
             /\ UNCHANGED <<breaker, memory, status>>

(* get_robot_status: a fresh entry is answered at once                                     *)
ServedFromCache == status.age < CacheTtl
AskStatus(t) == /\ tasks[t].pc = "idle" /\ ~ServedFromCache
                /\ Put(t, [Idle EXCEPT !.pc = "db"])
                /\ UNCHANGED <<breaker, memory, status>>

(* _fetch_robot_status_from_db returned: the memory cache answers, a success to the        *)
(* breaker, or Redis is asked.                                                             *)
Fetch(t) == /\ tasks[t].pc = "db"
            /\ IF memory.age < MemTtl
               THEN /\ Respond(t, [tasks[t] EXCEPT !.sample = memory.sample], TRUE)
                    /\ breaker' = RecordSuccess(breaker)
               ELSE Put(t, [tasks[t] EXCEPT !.pc = "redis"]) /\ UNCHANGED <<breaker, status>>
            /\ UNCHANGED memory

(* A database error is answered with the entry of the cache, however old it is.            *)
DbError(t) == /\ tasks[t].pc = "db" /\ Put(t, Idle)
              /\ UNCHANGED <<breaker, memory, status>>

(* Redis holds no robot_status: its setex with int(0.5) seconds is refused                 *)
RedisMiss(t) == /\ tasks[t].pc = "redis" /\ Put(t, Sent(tasks[t], 0))
                /\ UNCHANGED <<breaker, memory, status>>

(* The firmware serves a request                                                           *)
Serve(t) == /\ tasks[t].pc = "sent"
            /\ Put(t, [tasks[t] EXCEPT !.pc = "served", !.executed = tasks[t].op # "status",
                         !.sample = IF tasks[t].op = "status" THEN 0 ELSE @])
            /\ UNCHANGED <<breaker, memory, status>>

(* Its reply arrives: the fetch stores it in the memory cache and goes to Redis            *)
Reply(t) ==
  /\ tasks[t].pc = "served"
  /\ IF tasks[t].attempt = 0
     THEN /\ memory' = [sample |-> tasks[t].sample, age |-> 0]
          /\ Put(t, [tasks[t] EXCEPT !.pc = "setex", !.waited = 0])
          /\ UNCHANGED <<breaker, status>>
     ELSE /\ breaker' = RecordSuccess(breaker) /\ Respond(t, tasks[t], TRUE)
          /\ UNCHANGED memory

SetexRefused(t) == /\ tasks[t].pc = "setex" /\ breaker' = RecordSuccess(breaker)
                   /\ Respond(t, tasks[t], TRUE) /\ UNCHANGED memory

Attempts(op) == IF op = "status" THEN StatusRetries ELSE CommandRetries

(* The attempt raises (no connection, a time-out, an HTTP error): the fetch falls back to  *)
(* the protected path, a retry is slept for, or the last failure is recorded               *)
FailEndless(t) ==
  /\ tasks[t].pc \in {"sent", "served"} /\ UNCHANGED memory
  /\ IF tasks[t].attempt = 0 THEN Protect(t, [tasks[t] EXCEPT !.sample = None])
     ELSE /\ Put(t, [tasks[t] EXCEPT !.pc = "backoff", !.waited = 0, !.sample = None,
                                    !.attempt = @ - 1])
          /\ UNCHANGED <<breaker, status>>

Fail(t) ==
  /\ tasks[t].pc \in {"sent", "served"} /\ UNCHANGED memory
  /\ IF tasks[t].attempt = 0 THEN Protect(t, [tasks[t] EXCEPT !.sample = None])
     ELSE IF tasks[t].attempt < Attempts(tasks[t].op)
          THEN /\ Put(t, [tasks[t] EXCEPT !.pc = "backoff", !.waited = 0, !.sample = None])
               /\ UNCHANGED <<breaker, status>>
          ELSE Respond(t, tasks[t], FALSE) /\ breaker' = RecordFailure(breaker)

Retry(t) == /\ tasks[t].pc = "backoff"
            /\ Put(t, Sent(tasks[t], tasks[t].attempt + 1))
            /\ UNCHANGED <<breaker, memory, status>>
-----------------------------------------------------------------------------------------
(* The database write is over. `if success:` tests the response object of a command, which *)
(* is never false: both outcomes are reported alike.                                       *)
Truthy(response) == TRUE
Finish(t) == /\ tasks[t].pc = "write" /\ Put(t, Idle)
             /\ IF tasks[t].op = "status" THEN Store(tasks[t]) ELSE UNCHANGED status
             /\ UNCHANGED <<breaker, memory>>

(* A tick of time; no attempt lasts longer than AttemptTime                                *)
Older(a, last) == IF a \in 0 .. last - 1 THEN a + 1 ELSE a
Waiting(task) == task.pc \in {"sent", "served"}
Tick == /\ \A t \in Tasks : Waiting(tasks[t]) => tasks[t].waited < AttemptTime
        /\ breaker' = Aged(breaker)
        /\ tasks' = [t \in Tasks |->
             [tasks[t] EXCEPT !.sample = Older(@, MaxAge),
                !.age = IF tasks[t].pc # "idle" /\ tasks[t].op = "status"
                        THEN Older(@, LastAge) ELSE @,
                !.waited = IF Waiting(tasks[t]) THEN @ + 1 ELSE @]]
        /\ memory' = IF memory.age + 1 < MemTtl
                     THEN [sample |-> Older(memory.sample, MaxAge), age |-> memory.age + 1]
                     ELSE Uncached
        /\ status' = [status EXCEPT !.sample = Older(@, MaxAge), !.age = Older(@, LastAge)]

TaskStep(t) == \/ Fetch(t) \/ DbError(t) \/ RedisMiss(t) \/ Serve(t) \/ Reply(t)
               \/ SetexRefused(t) \/ Fail(t) \/ Retry(t) \/ Finish(t) \/ Logged(t)

Next == \/ \E t \in Tasks : AskStatus(t) \/ Command(t) \/ Refuse(t) \/ TaskStep(t)
        \/ Tick

Spec == Init /\ [][Next]_vars
FairSpec == Spec /\ WF_vars(Tick) /\ \A t \in Tasks : WF_vars(TaskStep(t))
-----------------------------------------------------------------------------------------
TypeOK == /\ breaker \in BreakerType
          /\ tasks \in [Tasks -> Requests]
          /\ memory \in [sample : None .. MaxAge, age : 0 .. MemTtl]
          /\ status \in [sample : None .. MaxAge, age : 0 .. LastAge]

(* A breaker that is not closed has counted its failures: nothing takes the count away     *)
(* while it waits or probes, whatever the tasks it admitted before report late.            *)
OpenMeansFailures == breaker.state # "CLOSED" => breaker.failure_count = FailureThreshold

(* Whatever order the fetches of two requests end in, the firmware made the data of the     *)
(* status cache at most a life of the memory cache and an attempt before _last_update.      *)
(* Both answers from the cache are of this entry: the fresh one, which is then no older     *)
(* than that and _cache_ttl, and that to a database error, which asks for no age and has    *)
(* no bound (get_robot_status). Data of the database has no sample.                        *)
StatusIsRecent == status.age < LastAge => status.sample <= status.age + MemTtl + AttemptTime

(* Every request ends: its retries and its waits are bounded.                              *)
RequestsEnd == \A t \in Tasks : tasks[t].pc # "idle" ~> tasks[t].pc = "idle"

(* When the firmware answers every request from some time on and commands that pass the     *)
(* validation go on coming, the breaker closes for good. Others would not do: status        *)
(* requests go round it, and refused commands, those of /move and /stop, never reach it.    *)
BreakerRecovers ==
  <>[][\A t \in Tasks : ~Fail(t)]_vars /\ []<><<\E t \in Tasks : Command(t)>>_vars
    => <>[](breaker.state = "CLOSED")

(* "Emergency stop executed" (robot_control.py) is the answer to a command that the        *)
(* firmware has executed.                                                                  *)
ReportIsTrue ==
  [][\A t \in Tasks : tasks[t].op = "command" /\ Finish(t) /\ Truthy(tasks[t].success)
       => tasks[t].executed]_vars
========================================================================================
