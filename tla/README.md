# OHT-50: TLA+ models of the master firmware and its gateway

The OHT-50 is a rail vehicle. Its master controller runs the firmware under
`firmware_new/`; a FastAPI gateway (`backend/`) and a web frontend talk to it over
HTTP. What decides whether the vehicle may move, and what stops it, is all in
the firmware: an emergency stop latch, a safety manager, a state machine of
eleven states, a safety monitor with its LiDAR, a detector of lost modules, and
the main loop and the API thread that drive them. The gateway decides what of it
a user is told. This directory models that core in TLA+, model-checks it with TLC
and proves its central properties with TLAPS.

Paths below are relative to `firmware_new/firmware_src/` unless they begin with
`backend/`.

## The system

| part | state | operations | who calls it |
|---|---|---|---|
| system state machine, `app/core/system_state_machine.c` | `g_state_machine`: current and previous state, `system_ready`, `safety_ok`, `communication_ok`, `sensors_ok`, `location_ok`, `target_valid`, `current_fault`, entry time | `process_event` scans a table of rows (state, event, next state, condition); `update` checks sensors, timeouts and the E-Stop; `trigger_fault`, `clear_fault`, `set_*`; `init`, `deinit` | the main loop (update, E-Stop, promotion to IDLE, shutdown) and the API thread (move, pause, resume, stop, dock, emergency, reset), without a lock |
| E-Stop HAL, `hal/safety/hal_estop.c` | `estop_status`, the callback | `update` (monitor thread every millisecond, and main's loop), `reset` with a debounce sleep, `handle_emergency` | no lock; in the firmware as built nothing calls `reset` or `handle_emergency` |
| safety manager, `app/managers/safety_manager.c` | `g_safety_manager`: `estop_triggered`, level, status, fault | `estop_callback` in the thread that latched; `update` in main's loop copies the latch and computes the level; fault, interlock, recovery | main; the motor and dock handlers read its status |
| safety monitor, `app/core/safety_monitor.c` | its own state machine of six states, two E-Stop flags, LiDAR zones, basic zones, flags of interlock, sensor, communication and watchdog | `process_event`, `update`, `update_with_lidar`, `check_basic_zones`, `reset`, `set_basic_zones`, `set_zone_config` | main and the zone API; main does not initialise it |
| system controller, `app/core/system_controller.c` | `system_controller_instance`: six states, `activated`, three health flags, `error_count`; a ring of 32 events | `process_event` pushes; `update` checks safety, communication and control, then dispatches at most 8 events; `set_state`, `activate`, `reset_errors` | main's loop updates it; in the firmware as built nothing raises an event |
| critical module detector, `app/core/safety_integration/critical_module_detector.c` | an assessment per configured module, counters, the level of the system | a check of every module each 100 ms over `safety_rs485_integration.c`; recovery | the safety monitor's integration |
| graduated response, `.../graduated_response_system.c` | current level, a transition under way with its target, time in the level | `update` ends transitions and follows the detector's level; `set_level` | as above |
| module registry, `app/modules/module_registry.c` | a table of addresses with type and status | add or update, mark online, mark offline, clear | scans, discovery, API |
| module manager, `app/managers/module_manager.c` | its own table of modules with the time of the last health check; a circuit breaker per address | discovery, health check, offline check, unregister, reset | API, main |
| communication manager, `app/managers/communication_manager.c` | the flags of a scan: active, interrupted, paused | a scan of the bus with retries; stop, pause, resume | main scans once at boot, the API thread within its start-scan handler; the API thread sets the flags, which the two scans share |
| LiDAR HAL, `hal/peripherals/hal_lidar.c` | flags under a mutex, the scan thread's handle, the current scan without one, the last judgement | the scan thread reads, parses in place and judges; start, stop, check, health check, deinit | main, and the LiDAR endpoints of the API |
| gateway, `backend/app/` | circuit breaker, memory cache and Redis, the cached status of `RobotControlService` | status reads, commands, emergency stop, each through cache, breaker, retries and httpx | HTTP clients, on one event loop |
| polling manager | modules with an address and a type, set at boot | reads registers over the bus and prints them, in IDLE only | main's loop, which waits for the answers |
| module handlers (motor, dock, power, safety), network managers, control loop, telemetry, storage, HTTP server, the other endpoints | register images, numeric and formatted data | | initialised and not called again (power, motor), never created, or data only |
| frontend, EMBED, tools, services, deploy | around the firmware | | |

How the parts interact:

    button -> hal_estop (monitor thread, main loop) --callback--> safety_manager --status--> motor handler
                    |                                                  ^
                    | hal_estop_is_triggered                           | polls in main's loop
                    v                                                  |
    main loop --update, process_event--> system_state_machine <--process_event-- API thread <--HTTP-- gateway
      |   |                                                                       |
      |   +--start, stop--> LiDAR HAL + scan thread <--start, stop, check---------+
      |                         | scan                                            |
      |                         v                                                 |
      |                    safety monitor                                         |
      +--scan, discovery--> communication manager, module manager, registry <-----+
                                ^
           graduated response <- critical module detector (over the same bus)

What is hard in it: several threads share global structures without any lock; a
debounce sleep sits inside the reset of the E-Stop; the safety manager learns of
the E-Stop both by a callback and by polling; which row of the state machine fires
depends on flags that six functions write; timeouts are computed from two clocks
read by two threads; a scan is parsed in place while others read it; "offline" is
decided by ages that several functions restart; circuit breakers, retries and
caches stack up in the gateway, cut at every `await`. The `hazards` of
`PROJECT.json` list them line by line.

What makes each part correct:

- state machine: an E-Stop stops it and stays until a reset; each movement that
  begins consumes a target; busy states end; the recovery state SAFE has no fault;
- E-Stop HAL: a button held down is latched, through any reset;
- safety manager: a seen latch makes it unsafe until it is seen to be gone; a
  latch becomes known without the callback, and so does its release;
- the chain of the three: however the threads interleave, a latched button brings
  the machine to ESTOP;
- safety monitor: its flags and its state agree about a stop; a stopped monitor is
  declared safe only with nothing left of what stopped it; an obstacle that stays, or a
  blind LiDAR, stops the vehicle; a warning does not outlast its obstacle;
- system controller: its ring hands out every accepted event once and in order; a
  stopped controller stays stopped until it is released; the error limit stops it;
  waiting events are handled;
- detector and response: "offline" means silent for the timeout; the loss of a critical
  module whose configured maximum is EMERGENCY raises that level, reaches the response, and the response comes down
  only after its minimum stay;
- modules on the bus: a module that returned comes back online, one that is silent does
  not stay online; a scan that is told to stop ends;
- LiDAR: a complete scan is the points of one read; after a stop no thread scans; a
  stop ends;
- gateway: an open breaker keeps its count and closes when the firmware answers
  again; a cached status is not much older than its stamp says; every request ends.

## The modules

| module | models | correspondence |
|---|---|---|
| `SystemStates` | the table and the pure functions of the state machine | `Transitions` is the table row by row; `Holds` are the six conditions; `Firing`/`NextState` the scan; `Commit` the writes of `process_event`; `Enter` is `enter_state`; `ProcessEvent` their composition |
| `SystemStateMachine` | the state machine under a single caller | one action per public function; `Update` is the whole of `update`: the checks, the timeout's event, the E-Stop's event |
| `DriveSafety` | what the vehicle may rely on, without a table: off, starting, standby, motion, halted | abstract specification |
| `SafetyChain` | main's boot, loop and shutdown interleaved with the API thread and the monitor's latch | `process_event` cut into `Find`, `Write`, `EnterState`; the loop's program counter follows main.c; `Request` is a handler of `state_control_apis.c` or `/robot/command`; `serving` is the server's last connection after `api_manager_stop` |
| `EStop` | the E-Stop latch with its three kinds of thread | `update` cut into `ReadPin`, `Compare`, `Latch`, `Notified`; `reset` into `ResetBegin`, `ResetArm`, `ResetRecheck`, `ResetSettle` |
| `SafetyManager` | the safety manager composed with `EStop` | the callback runs in the notifying thread; main's pass is cut into `Begin`, `Due`, `Sample`, `Store`, `Judge`, `WriteLevel` |
| `EventFifo` | what the controller's event queue promises, without a ring: bounded, in order, each event once | abstract specification |
| `SystemController` | the system controller and its ring | `Push` and `Pop` with their wrapping indices; `Update` is `update` with each early return, up to the dispatcher; `Dispatch`, `Handle`, `Finish` are one turn of `dispatch_events`' loop, its body and its end, so that a callback may raise events between them; `Effect` is the switch of `handle_event`, `Enforce` the error limit after it |
| `SafetyMonitor` | the safety monitor | `Moved` is `transition_state`, `Triggered` is `trigger_emergency_stop` with procedures that may fail, `Scanned` is `check_basic_zones`, `Reported` the handlers of `process_event`, `ResetDone` is `reset`; `Update` and `UpdateWithLidar` run the checks whose period elapsed in the code's order |
| `CriticalModules` | the detector and the link to the bus | `Seen` and `Missed` are the two ends of `check_single_module`, `Acted` the safety action, `Determined` the level of the system from the counters `Counted` of a check |
| `GraduatedResponse` | the response, composed with `CriticalModules` | `Settled` ends a transition, `LevelSet` is `set_level`, `Followed` is `handle_auto_recovery`; `Update` is their composition |
| `ModuleRegistry` | the registry's table | pure operators, one per function that writes it |
| `ModuleManager` | discovery, health checks, breakers of the addresses | discovery is one `Discover` step per address and ends in `CheckOffline`, so that everything else may come between two addresses; a module answers nothing, its number only, or all (`Replies`), and only `Identifies` registers it |
| `ModuleScan` | the scan of the communication manager, composed with `ModuleManager` | the scan of each of two threads, main's (`Boot`) and the API's; `Gate`, `Wait`, `Probe`, `Backoff`, `Found`, `NotFound`, `Gap` are the places of the loop where the shared flags are read or time passes; the API thread serves one request at a time (`ApiFree`, `Served`), its own scan among them |
| `HalLidar` | the scan thread and the calls of main and the API | the thread step by step over the scan it does not lock; a point keeps four times its raw distance in a `uint16_t` (`Stored`), so that a raw distance of 16384 is stored as 0; calls hold `hal.owner` while they hold the mutex; main's order of calls is that of main.c |
| `CircuitBreaker` | `core/circuit_breaker.py` | pure operators, one per method |
| `FirmwareGateway` | `RobotControlService`, `UnifiedFirmwareService`, `RetryManager`, the caches, composed with `CircuitBreaker` | a step of a task runs from one `await` to the next; `Protect` and `Respond` are `_execute_with_protection`, `Fetch` to `SetexRefused` are `get_with_cache`, `Refuse` is a command that the service's validation refuses, `Finish` is what follows the database write |
| `MC...` | instances for TLC | constants that a cfg cannot write |
| `..._proofs` | the theorems, `SystemStates_proofs` the lemmas about the table | see below |

Operators beside a definition whose name extends it (`RowsStopInEstop`,
`StoreRelease`, `StoreNow` ...) are variants of the code with a plausible mistake.
`PROJECT.json` pairs each property with the variant that breaks it.

### Abstractions

- Time. In the state machine it is a counter of ticks since the state was entered
  (`age`), up to `MaxAge`; a state times out when it is older than
  `Timeout[state]`. In `SafetyChain`, `lapped` says that the entry is later than
  the clock update has read, the case in which the unsigned difference wraps.
  Elsewhere time is kept as ages (`unseen`, `stayed`, `age`, `waited`), each
  counted up to the bound it is compared with, so that no clock grows.
- Statistics, event callbacks that nobody registers, names and LEDs are left out.
  `check_communication_status` and `check_sensor_status` do not change what the
  table reads; the safety monitor's verdict is any Boolean at each check.
- `Write` of `SafetyChain` commits the state and its entry time in one step;
  `EnterState` sets all its flags in one step. Finer interleavings exist in the
  code; those modelled suffice to refute the claims below.
- `EStop` reads the pin once where `hal_estop_reset` reads the same pin twice in a
  row: the two readings refuse whenever one of them does.
- `SystemController` counts errors up to the limit they are compared with (their
  wrap after 2^32 is left out) and keeps of the instance what its code reads again.
  The three health checks answer anything at each update: no one of them is
  modelled. Calls from outside (`Call`) fall between two updates.
- A target is granted by `Grant` in `SafetyChain` (`Grants = TRUE`), although no
  caller under `firmware_src` exists, so that MOVE, DOCK and their timeouts are
  reached in the safety run.
- `SafetyMonitor` runs each function to its end; a LiDAR scan is the set of its
  distances; of the configured zones only their kind is kept.
- A request on the bus is one step with one outcome after all its retries, and each
  outcome belongs to its request: that the line may hand an answer to another
  request (below) is left out. In
  `CriticalModules` an answer is what it is judged as (`well`, `slow`, `warning`,
  `critical`, `fault`), or `silent`; failures are counted up to their threshold.
- `HalLidar` keeps of a point its distance. The settings, the accuracy test, and the
  filters and memory pools that nothing starts are left out.
- `FirmwareGateway`: `AttemptTime` is the longest that an attempt lasts.
  `httpx.Timeout(10.0)` limits each phase by itself (connection from the pool, connect,
  write, each read of the reply), so that it stands for their sum: 40 s when the reply
  comes in one read, 10 s more for each other one. Redis never holds a status, because
  `setex` is asked for `int(0.5)` seconds and refuses; a status is identified with the
  age of its data (`sample`, or `None` for what came from the database). The breaker
  counts up to its threshold.

## The runs

| run | shows | bounds |
|---|---|---|
| `ssm_safety` | a target for each movement that begins, the latch of ESTOP, the update under an E-Stop, no fault in SAFE, refinement of `DriveSafety` | one fault value (faults are only compared with NONE), timeouts of one tick, age up to 2: shorter, equal and longer than the timeout all occur |
| `chain_loop` | nothing main does after acting on the latch leaves ESTOP; a latched button brings the machine to ESTOP and busy states end, until the program stops | one API thread (the server is sequential), all seven commands, targets granted at any time, timeouts of one tick, no fault (main and the handlers raise none) |
| `chain_estop_left` | what the missing lock does: an API command overwrites ESTOP | same, targets never granted, as in the firmware built |
| `manager_poll` | a pass that saw the latch leaves the manager unsafe until a later pass sees it gone; a latch, and a release, become known without a callback; a button held through a debounce is not reset; a held button is latched for good | one fault value, all calls, auto reset off as the firmware configures it, a readable pin |
| `controller_events` | the ring is a bounded FIFO, also while events are raised from the event callback and across deinit and init; FAULT and EMERGENCY are left by a release only; the error limit stops the controller; waiting events are handled | a ring of 3 (not a power of two, so head, tail and wrap fall apart), 2 events per update, so that a full ring outlasts a batch, an error limit of 2, and the three events `ACTIVATE`, `EMERGENCY` and `FAULT_CLEARED`, which start, stop and release; the other events have proofs only |
| `monitor_zones` | flags and state agree about a stop; a stopped monitor is declared safe with nothing left of its stop only; what is close, or a blind LiDAR, stops the vehicle again after every reset; warnings end | distances 0 to 4 with the factory zones at 1, 2 and 3, so that a scan falls below, on and above each; four scans, the empty one among them; the limits of the factory and of an import without an emergency zone |
| `response_loss` | "offline" is silence; the loss of a critical module with that maximum level is EMERGENCY and reaches the response; the response comes down after its minimum stay | one critical module that acts at once and one ordinary module that acts later; a stay of 2 and a delay of 1, so that a transition ends before, at and after the stay; one call from outside, which is the most that the property about descents has to tell from none |
| `module_fleet` | a stop ends a scan, also a paused one, unless a start takes it back; a returned module comes online in spite of its breaker; a silent one does not stay online in the manager's table | two scanners, and one module that may change at any time, which both scans and the discovery ask: what the properties speak of is one module under them all; a cooldown that grows to its cap; two attempts per probe |
| `lidar_scan` | a complete scan is one read's; a stopped LiDAR is quiet; a stop ends | reads without a valid point, with one, with more than a rotation, and with a marker inside; two threads, the second for the start after a stop |
| `lidar_distance` | the safety check of the API reads a scan that is being cleared | same |
| `gateway_requests` | the count of an open breaker, the age of the cached status, requests end, the breaker closes | two tasks, thresholds of 2, one retry of a command, one tick for the life of each cache (in the source 5 s for the service's entry and 1 s for the memory cache; 0.5 s is asked of Redis only) and for an attempt, so that a read begins before, at and after the end of another's entry |
| `gateway_report` | a command that never reached the firmware is reported as executed | same |

Every run is exhaustive in its bounds. Deadlock is not checked where the program
ends: in the `chain` runs after SIGINT, in the `lidar` runs after main's shutdown;
in `chain_loop` a state of rest before that would show, because its liveness would
fail in it.

### Fairness

- `chain_loop`: main goes on (`WF(Main)`), a handler that started finishes
  (`WF(Step("api"))`) and time passes (`WF(Tick)`); no request, press or stop is
  obliged to come.
- `manager_poll`: the monitor thread runs, a reset that began returns, main's loop
  runs, and its check interval, which is finite, elapses (strong fairness of `Due`:
  `NotDue` may come between any number of times but not forever).
- `controller_events`: an update that reached the dispatcher returns, which its
  bounded loop justifies; that updates reach the dispatcher again and again depends
  on the health checks, which nothing obliges to pass, and is the premise of
  `EventsHandled`.
- `monitor_zones`: scans keep coming and the emergency procedures succeed at some of
  them (`WF(CheckZonesOn(TRUE))`), which holds on a board with its LEDs and relays;
  without that, see below.
- `response_loss`: the detector's check, the response's update and time go on: all
  are called from one periodic update.
- `module_fleet`: a scan or discovery that began goes on, time passes, and clients ask
  for a discovery again and again, which is served when the API thread comes to it
  (strong fairness of `Served(StartDiscovery)`, since other requests may come between).
  No client is obliged to stop, pause or resume; a scan that the API thread begins while
  scans are paused waits for a resume that only that thread could serve (`Stuck`), and
  `ReturnsOnline` and `SilenceShows` have its absence as their premise.
- `lidar_scan`: threads are scheduled, and a read of the device, which has a time-out
  of a second, returns.
- `gateway_requests`: the event loop serves each task (`WF(TaskStep(t))`) and time
  passes. `Tick` waits for an attempt that has lasted `AttemptTime`, the bound that
  httpx's time-outs give together. `BreakerRecovers` has its own premises: from some
  time on the firmware answers, and commands that pass the validation keep coming. Those
  of `/move` and `/stop` do not pass it (below).

All threads are plain pthreads; where one blocks on another (the LiDAR's mutex and
join), the action is disabled, and weak fairness says nothing.

## The proofs

`SystemStateMachine_proofs` proves, for every set of faults, every timeout table and
every clock bound allowed by `SystemStates`' assumptions, what `ssm_safety` checks
on one instance, and that the state machine implements `DriveSafety`. The invariant
is `IInv`: the types, and `Sound(sm, fresh)`, the conjunction of

- `system_ready` is TRUE exactly in IDLE, MOVE, DOCK and PAUSED;
- SAFE has no fault recorded: `safety_verified` guards each way in, and
  `trigger_fault` leaves SAFE in the same call;
- the pair of states is a row of the table or the initial pair;
- a valid target is fresh: granted since a movement last began.

None of the parts is inductive by the table alone; together they are, because
every operation is a composition of the same few functions. The proof therefore
goes through lemmas about `CheckStatus`, `Commit`, `Enter` and `ProcessEvent` that
say each keeps `Sound`, and each action's step cites them. `Update` makes up to
two transitions and uses the lemma twice.

The refinement needs the invariant: row by row it is false. The table has a row
SAFE --SAFE_RESET--> IDLE, which `DriveSafety` does not allow, and whose condition
asks for `system_ready`; since SAFE clears it and the invariant keeps it cleared,
the row never fires. Two theorems say what the code does where its tests say
otherwise, and no run claims them as what it should do: `SafeIsDeadEnd`, that SAFE is
left for FAULT only, and `ResumeIsFresh`, that a resume needs another target.

`SafetyChain_proofs` proves the types and `HeldByLatch` of the interleaved firmware.
`HeldByLatch` speaks of the moments at which main is between two calls, so the invariant
says what keeps the machine stopped while main is within one (`Holding`): before the
table is scanned, the state is stopped already or the event is ESTOP_TRIGGERED, which
every other state hears (`EstopHeard`); between the scan and the write, the state main
is about to write is a stopped one, whatever happened to the machine since the scan;
afterwards the state is stopped. main raises five events only, and none has a row out of
ESTOP or SAFE other than SHUTDOWN (`MainStaysStopped`). A write of the API thread ends
the claim (`quiet`), which is what `chain_estop_left` shows to be necessary.

`SafetyManager_proofs` first proves of `EStop` its types and, when the pin can be read
(`~Unreliable`), `ResetKeepsHeldButton`; the invariant adds that a reset that has read
the pin again over a held button is going to refuse (`Refused`). `ManagerWatches` then
shows that `SafetyManager` implements `EStop`, so that the same invariant is at hand
for the composition. `SeenLatchIsUnsafe` follows from `Known`: a pass that stored the
latch it saw left `estop_triggered` set. What could clear it is a callback telling of
a release, and without auto reset there is none in any thread (`Told`); a recovery
lowers the level and clears the fault but not that flag. The types are proved for
auto reset as well.

`SystemController_proofs` proves, for every size of the ring, burst and error limit,
that the ring implements `EventFifo`: the queue is `Waiting(ring)`, the slots from tail
onward, across the wrap. The invariant is `Closed`: head is tail plus count, wrapped;
without it a push could write a slot that still waits. `WrapIsMod` reduces the modulus
to a subtraction, which is what the solver can reason about, and `PushAppends` and
`PopTakesHead` are the two halves of the refinement. `StopsHold` and `LimitStops` hold
step by step: `Effect` and `Enforce` leave FAULT and EMERGENCY for IDLE only, and by one
of three events, and the limit is tested after every effect, the last thing a handler
does.

`Obstacles_proofs` holds the theorems about the two parts that judge obstacles. Of
`SafetyMonitor` it proves the types, `StopIsNotSafe` and `ResumesClean` for every set
of scans and limits; `StopsRemain` adds what the code makes of its stops, which the
documents see otherwise (below). Every call is a composition of a few functions on the
instance, so the proof is about one relation between an instance before and after,
`Keeps`: the type stays, the flags agree with the state (`Honest`), and a stopped
instance stays stopped. It is transitive, which carries it through an update of up
to three checks. The reset is the case that needs the table: `reset` clears the
flags before it asks for SAFE, which is sound only because a hardware flag refuses
the reset, and a refused move leaves a state that is stopped without a flag.

Of `HalLidar` it proves the types (a point is a 16-bit word, which may be 0),
`WholeScan` and `StoppedIsQuiet`, for reads of every length, any rotation and any number
of threads. The invariant is `LidarInv`:

- while main serves, one of main and the API at most is in a call (`OneCall`), which is
  main.c's order of calls and not a lock;
- while main serves, at most one thread exists, it is the one of the handle, and
  it exists only while the flag is up, a start is about to raise it or a stop is in
  its join (`Alone`); this is what makes the parse in place a single writer's;
- within the parse, the points are what a parse of the read up to `next` has found
  (`OfRead`); the one window in which a complete scan has no points is that between
  the two writes at the head of the parse (`ClearedOnly`).

`OfRead` compares the state with `Parsed`, a recursive function over the read.
That such a function has its recursive equation at each index, and that its values
are sequences of at most a rotation, are inductions over the read. The
library's induction theorems cannot be used with the installed provers, so the lemma
`Least` argues by the least counterexample instead: a nonempty set of numbers has a least
element, by `WFMin` over the order of the naturals. `FullEndsParse` says that a full
rotation ends the parse with what it has.

Three more theorems say what no run asks. `ThreadJudgesReads`: what the scan
thread itself judges is the nearest point of one read, so that the wrong distance of
`lidar_distance` comes from the other threads' check alone. `CloseIsForever`: a deinit
that finds the scan running keeps the mutex for ever (who is between lock and unlock
is the mutex's owner, `Locks`). `StoppedThreads`: while a stop waits for its thread,
nothing raises the flag, and every step of that thread brings it nearer to its exit.

`FirmwareGateway_proofs` proves the types, `OpenMeansFailures` and `StatusIsRecent` for
any number of tasks, thresholds and times, the last one as `AgeIsBounded`. That a
breaker which is not closed keeps its count is a property of each method alone
(`Counts`). The age needs the order of three clocks in one request (`Ordered`): data in
hand is not older than the wait for it, and what a request is going to store is older
than the age it stores by at most a life of the memory cache and an attempt. It follows
that a fresh answer from the cache has a bounded age. The answer to a database error is
of the same entry, whatever its age (`robot_control.py:163`): it has no bound but that
its stamp is right. The cache stores the time before the awaits, which is what makes the
bound hold when a slow read overwrites a newer one. `BreakerWaits` says of any mix of
requests that an open breaker is left after its time only, for HALF_OPEN, where its
successes are counted from zero, one at a time, up to the one that closes it: each step
applies at most one of its methods (`OneMethod`). Whose successes these are is not said:
late answers and cache hits are among them. `RequestsAreBounded` bounds the steps of a
request: `StepsLeft` falls with each of them, and neither time nor another request
raises it.

`Modules_proofs` holds those about the modules on the bus. Of `GraduatedResponse` it
proves the types, `OfflineIsUnseen`, `LossIsEmergency` and
`SlowDescent` for any set of modules, configuration, delay and stay. The detector's
part (`Sound` of each module, and `LossIsEmergency` itself) is kept by a check because
the counters are counted from the same assessments as the level, and by a recovery
because it only makes modules healthy. `Determined` chooses a maximum; that it exists
is `HighestExists`. The descent is decided when a transition begins and visible
when it ends, so the invariant is `Patient`: a transition downwards under way began
after the stay, unless somebody called `set_level` from outside.

Of `ModuleScan`, with the `ModuleManager` and `ModuleRegistry` below it, the same module
proves the types, for any addresses, ranges, thresholds and cooldowns. The invariant
`BusInv` adds to the types that a cooldown runs only for an address with enough failures
in a row (`SkippedHasFailed`), and that a scan which asks has an address in its range.
`ScansEnd` is the ranking of both scans: each step of one ends it, goes on to the next
address or leaves fewer steps at this one, and nothing else moves it. A start of the
other thread may take back a stop, and can make the scan no longer than its range.
`TableIsBounded` follows the registry through every operation that adds to it.
`ShiftAssumption` says that the cooldown's shift by up to ten does not overflow, which
the code does not check: the default of 1000 ms satisfies it, a configuration file may
not. The types of the cooldowns rest on it.

The assumptions are the named ASSUMEs of the modules, which TLC evaluates in the runs.

All safety properties of the runs are proved. Only model-checked is liveness
(`BusyEnds`, `EstopReached`, `HeldButtonLatches`, `LatchBecomesKnown`,
`ReleaseBecomesKnown`, `EventsHandled`, `CloseStops`, `WarningEnds`,
`LossReachesResponse`, `StopEndsScan`, `ReturnsOnline`, `SilenceShows`, `StopEnds`,
`RequestsEnd`, `BreakerRecovers`), which needs ENABLED under fairness and is beyond the
prover. Of seven of these the safety part is proved: what remains of the way is never
lengthened and shortened by each step that counts, so that only the fairness of those
steps is left to TLC. `StoppedThreads` is that part of `StopEnds`, `ScansEnd` of
`StopEndsScan`, `RequestsAreBounded` of `RequestsEnd`, `QueueMovesUp` of `EventsHandled`
(a place in the ring is left forwards only), `CloseStopsAtOnce` of `CloseStops` (one
scan is enough, from every state), `ClearWaySettles` of `WarningEnds` (one scan is
enough and nothing undoes it) and `LossDrivesResponse` of `LossReachesResponse` (a
transition downwards that was under way when the module was lost is counted with its
rest). The three properties that TLC refutes (`EstopLeftByReset`, `MeasuredDistance`,
`ReportIsTrue`) have no theorem.

## What the code does differently from what is written

Three are runs whose property TLC refutes; `findings` quotes the sources.

- Without a lock, an API command overwrites ESTOP (`chain_estop_left`).
- The LiDAR's safety check may judge a scan that is being cleared, and reports the
  maximum distance with an obstacle in every read (`lidar_distance`).
- The gateway tests a response object, which is always true, instead of its field:
  a stop that never reached the firmware is reported as executed (`gateway_report`).

Others were met while modelling. They are part of the models, which do as the code
does. Of the first six the `findings` quote the lines; no property of a run claims
either side of them:

- A pause and resume does not take up the movement: MOVE clears `target_valid` on entry
  (`system_state_machine.c:715`), the resume asks for it, and nothing in the firmware
  grants another. `tests/unit/app/test_state_machine.c:48-51` and `:136-139` and
  `tests/integration/test_enhanced_state_machine.c:56` expect MOVE again
  (theorem `ResumeIsFresh`).
- The reset from SAFE to IDLE (`system_state_machine.c:122`, and
  `tests/unit/app/test_state_machine.c:87-90`) never fires: its condition asks for the
  flag that the entry to SAFE cleared (theorem `SafeIsDeadEnd`).
- The safety monitor never leaves ESTOP or CRITICAL by a reset or by better conditions.
  `docs/04-SAFETY/01-safety-architecture/safety-architecture.md:48,51` has both ways, and
  `safety_monitor.c:608` and `:657` try the reset, which `transition_state` refuses after
  the flags were cleared (theorem `StopsRemain`).
- `max_response_level` of a module, "Maximum response level for this module"
  (`critical_module_detector.h:93`), is never read. The power module is configured with
  CRITICAL (`critical_module_detector.c:45`) and its loss makes the level EMERGENCY
  (`:484`, `:579`). `LossIsEmergency` therefore speaks of modules with the maximum
  EMERGENCY only.
- A start of a scan clears the stop request (`communication_manager.c:267`): a stop that
  was answered with "Module scanning stopped" is lost when a start follows before the
  other thread's scan has looked.
- `/move` and `/stop` of the gateway send commands that have `type` and no `command_type`
  (`backend/app/api/v1/robot.py:296`, `:333`). `robot_control.py:411` accepts both, the
  firmware service does not (`unified_firmware_service.py:302`), so that neither reaches
  the firmware or the breaker.
- SAFE ignores an emergency; ESTOP can be reset while the button is pressed, or left
  through FAULT and the clearing of that fault.
- By the races of `SafetyChain`, a late `enter_state` leaves ESTOP with
  `system_ready`, a fresh state times out at once (the unsigned difference wraps), and
  a handler still running at the shutdown writes over SHUTDOWN.
- The motor's safety check reads a field that the safety manager never updates.
- On a board whose emergency procedures always fail, the safety monitor never moves
  to ESTOP by its zones: `trigger_emergency_stop` returns before the transition.
- LiDAR: the scan thread is created before the flag `scanning` is set, so that it may
  find it FALSE and exit; every later start then answers "already active", until a
  stop. A deinit while scanning calls the stop with the mutex held and blocks for ever.
- `hal_rs485_send_receive` locks a mutex that the functions it calls lock again.
- `comm_manager_modbus_send_request` takes the next bytes of the line as its answer:
  the mutex is held per write and per read, nothing is flushed, slave id and function
  code are not compared, and main.c disables the CRC check. An answer that comes after
  its time-out is read by the next request, and so on from then. Its status, once
  TIMEOUT, never returns to CONNECTED, which is raised at init only.
- `safety_rs485_integration.h` announces `comm_manager_modbus_read_holding_registers`
  and thread safety; the code writes and reads the line itself.
- The end of either scan clears `g_scan_active` while the other runs on, whose pause is
  then refused. A scan that the API thread begins while scans are paused waits in its
  own pause gate for ever, since the resume is a request to the same thread.
- "Offline" is not silence: a module that answers a scan is taken offline by the age of
  its last health check when the discovery skipped it; a failed health check restarts
  that age, so that the registry keeps the silent module online; and a scan marks a module
  online after the reads of its type, whether it answered these or not.
- The endpoints that start, stop, pause and resume a scan and ask for a discovery are
  documented (`docs/05-IMPLEMENTATION/FIRMWARE/API_DOCUMENTATION.md:213-217`); the minimal
  endpoints that main.c registers include none of them, nor the reset of the modules.
  They are modelled as written.
- The parser keeps 16 bits of four times the raw distance (`hal_lidar.c:941`): a raw
  distance of 16384 passes the test for zero and is stored as 0, which the minimum
  passes over, and one just above it is stored as a near point.
- The scan's `miss_count` is local to one scan, so that its two misses are never
  reached and a scan never takes a module offline.
- Gateway: a database error is answered with the cached status however old it is; three
  hits of the memory cache count as probes and close a half-open breaker; the reset
  endpoint resets another instance's breaker; retries go on after the breaker has
  opened; a stop does not clear the cached status.

## Not modelled, and the plan

Not modelled, because nothing in the running firmware drives it: the module handlers
(main.c initialises those of power and motor after its first scan and calls nothing of
them afterwards, discovery has the power handler detect its module, which sets that
handler's own status only, and those of dock and safety are never created), the
network managers (WiFi and AP answer with constants, the fallback manager has no
caller) and the control loop (never initialised, so that its calls return an error).

Not modelled, because there is no behaviour to check beyond data and text: the
polling manager (in IDLE it reads registers and prints them, and keeps nothing of the
answers; main's loop waits meanwhile, which `SafetyChain` allows, since it gives no
step a duration), telemetry, storage, the configuration and network endpoints, the HTTP
server's parsing, validation, the relay, LED and GPIO wrappers, the frontend, tools
and scripts. These, with the register maps of the handlers and the number crunching
(control law, estimator, LiDAR filters, accuracy test), are most of the lines of the
repository: the lines that the models stand for are therefore a small share of it.

What could follow, in this order:

1. The serial protocol of `hal_rs485.c` and the transactions of the communication
   manager under lost and late answers, below the single outcome used here.
2. The docking sequence of `dock_module_handler.c` and the modes of the control loop,
   once the firmware drives them.
3. The gateway's other users of the firmware service (telemetry, WebSockets) over the
   same breaker.
