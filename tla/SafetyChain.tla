------------------------------- MODULE SafetyChain --------------------------------
(* The firmware as it runs: main.c's loop and the API server's thread share       *)
(* g_state_machine without a lock, and the E-Stop monitor thread latches the      *)
(* button meanwhile.  process_event is cut where another thread can come between: *)
(* the scan of the table, the writes of the new state, and enter_state.           *)
EXTENDS SystemStates

CONSTANT Grants   \* BOOLEAN: some caller validates targets (no code under src/ does)

ASSUME GrantsAssumption == Grants \in BOOLEAN

VARIABLES sm,       \* g_state_machine
          latched,  \* estop_status.state = ESTOP_STATE_TRIGGERED
          loop,     \* where main continues
          call,     \* for each thread, its call of process_event
          serving,  \* the API server handles one more connection
          lapped,   \* a thread stamped state_entry_time after update read the clock
          quiet     \* history: since the loop's first E-Stop test of this pass saw the
                    \* latch, no other thread has written current_state

vars == <<sm, latched, loop, call, serving, lapped, quiet>>

Threads  == {"main", "api"}
LoopPcs  == {"boot", "init", "start", "check", "timeout", "estop", "again", "promote", "stop", "done"}
Commands == {"move", "pause", "resume", "stop", "dock", "emergency", "reset"}

Idle       == [step |-> "idle", event |-> "NONE", to |-> "INIT"]
Calling(e) == [step |-> "find", event |-> e, to |-> "INIT"]

Init == /\ sm = Booted
        /\ latched = FALSE
        /\ loop = "boot"
        /\ call = [t \in Threads |-> Idle]
        /\ serving = FALSE
        /\ lapped = FALSE
        /\ quiet = FALSE
-----------------------------------------------------------------------------------
(* process_event, one thread's share at a time.  Find ends the call when no row  *)
(* fires; Commit reads current_state again, which may no longer be the state the *)
(* row was found for.                                                            *)
Find(t) ==
  /\ call[t].step = "find"
  /\ \E new \in {NextState(sm, call[t].event, latched)} :
       call' = [call EXCEPT ![t] = IF new = sm.current_state THEN Idle
                                   ELSE [@ EXCEPT !.step = "commit", !.to = new]]
  /\ sm' = [sm EXCEPT !.last_event = call[t].event]
  /\ UNCHANGED <<latched, loop, serving, lapped, quiet>>

Write(t) ==
  /\ call[t].step = "commit"
  /\ sm' = Commit(sm, call[t].to)
  /\ call' = [call EXCEPT ![t].step = "enter"]
  /\ lapped' = (lapped \/ t = "api")
  /\ quiet' = (quiet /\ t = "main")
  /\ UNCHANGED <<latched, loop, serving>>

EnterState(t) ==
  /\ call[t].step = "enter"
  /\ sm' = Enter(sm, call[t].to)
  /\ call' = [call EXCEPT ![t] = Idle]
  /\ UNCHANGED <<latched, loop, serving, lapped, quiet>>
-----------------------------------------------------------------------------------
(* main.c.  Each step of the loop starts when the call before it has returned.   *)
At(pc) == loop = pc /\ call["main"].step = "idle"

(* if (test) process_event(e), then on to the next step of the loop.             *)
MainRaises(test, e, next) ==
  /\ call' = [call EXCEPT !["main"] = IF test THEN Calling(e) ELSE @]
  /\ loop' = next

(* The boot sequence ends before api_manager_start creates the other thread.     *)
Boot == /\ \/ At("boot") /\ MainRaises(TRUE, "BOOT_COMPLETE", "init") /\ UNCHANGED serving
           \/ At("init") /\ MainRaises(TRUE, "INIT_COMPLETE", "start") /\ UNCHANGED serving
           \/ At("start") /\ loop' = "check" /\ serving' = TRUE /\ UNCHANGED call
        /\ UNCHANGED <<sm, latched, lapped, quiet>>

(* The top of system_state_machine_update: the clock is read, then the flags are *)
(* refreshed.                                                                    *)
LoopCheck == /\ At("check")
             /\ \E monitorSafe \in BOOLEAN : sm' = CheckStatus(sm, monitorSafe)
             /\ loop' = "timeout" /\ lapped' = FALSE
             /\ UNCHANGED <<latched, call, serving, quiet>>

LoopTimeoutSkipsEstop ==
  /\ At("timeout")
  /\ MainRaises(Expired(sm), "TIMEOUT", IF Expired(sm) THEN "promote" ELSE "estop")
  /\ UNCHANGED <<sm, latched, serving, lapped, quiet>>

(* current_time - state_entry_time is unsigned: when the entry is later than the *)
(* clock that update read, the difference wraps and exceeds every threshold.     *)
LoopTimeout ==
  /\ At("timeout")
  /\ MainRaises(Expired(sm) \/ (lapped /\ Timeout[sm.current_state] > 0), "TIMEOUT", "estop")
  /\ UNCHANGED <<sm, latched, serving, lapped, quiet>>

LoopEstopWhenReady ==
  /\ \/ At("estop") /\ MainRaises(latched /\ sm.system_ready, "ESTOP_TRIGGERED", "again")
        /\ quiet' = latched
     \/ At("again") /\ MainRaises(latched /\ sm.system_ready, "ESTOP_TRIGGERED", "promote")
        /\ UNCHANGED quiet
  /\ UNCHANGED <<sm, latched, serving, lapped>>

(* The E-Stop test at the end of update, and main's own after the other managers.*)
LoopEstop ==
  /\ \/ At("estop") /\ MainRaises(latched, "ESTOP_TRIGGERED", "again") /\ quiet' = latched
     \/ At("again") /\ MainRaises(latched, "ESTOP_TRIGGERED", "promote") /\ UNCHANGED quiet
  /\ UNCHANGED <<sm, latched, serving, lapped>>

(* "Promote to IDLE if init complete".                                           *)
LoopPromote ==
  /\ At("promote")
  /\ MainRaises(sm.current_state = "INIT", "INIT_COMPLETE", "check")
  /\ UNCHANGED <<sm, latched, serving, lapped, quiet>>

(* SIGINT ends the loop and api_manager_stop clears g_running without joining    *)
(* the thread: a handler that runs is the last one, and an idle server still      *)
(* takes the connection that its accept or recv is waiting for.  Then             *)
(* system_state_machine_enter_shutdown is raised, once.                           *)
Stop == /\ \/ /\ At("check") /\ loop' = "stop"
              /\ serving' = (call["api"].step = "idle") /\ UNCHANGED call
           \/ At("stop") /\ MainRaises(TRUE, "SHUTDOWN", "done") /\ UNCHANGED serving
        /\ UNCHANGED <<sm, latched, lapped, quiet>>
-----------------------------------------------------------------------------------
(* The API thread: the state checks of state_control_apis.c; /robot/command       *)
(* raises the same events without those checks; only reset and resume keep one.   *)
EventOf(command, state) ==
  CASE command = "move"      -> "MOVE_COMMAND"
    [] command = "pause"     -> "PAUSE_COMMAND"
    [] command = "resume"    -> "RESUME_COMMAND"
    [] command = "stop"      -> "STOP_COMMAND"
    [] command = "dock"      -> "DOCK_COMMAND"
    [] command = "emergency" -> "ESTOP_TRIGGERED"
    [] command = "reset"     -> IF state = "ESTOP" THEN "ESTOP_RESET" ELSE "FAULT_CLEARED"

Accepts(command, state) == /\ command = "reset"  => state \in {"ESTOP", "FAULT"}
                           /\ command = "resume" => state = "PAUSED"

Request(command) ==
  /\ serving /\ call["api"].step = "idle"
  /\ Accepts(command, sm.current_state)
  /\ call' = [call EXCEPT !["api"] = Calling(EventOf(command, sm.current_state))]
  /\ serving' = (loop \notin {"stop", "done"})
  /\ UNCHANGED <<sm, latched, loop, lapped, quiet>>

(* system_state_machine_set_target_valid and set_location_ok, where a caller     *)
(* exists.                                                                       *)
Grant == /\ Grants /\ loop \notin {"boot", "init", "start"}
         /\ sm' = [sm EXCEPT !.target_valid = TRUE, !.location_ok = TRUE]
         /\ UNCHANGED <<latched, loop, call, serving, lapped, quiet>>

(* hal_estop_update in the monitor thread.  Nothing under src/ calls             *)
(* hal_estop_reset, and auto_reset_enabled is false, so the latch stays.         *)
Press == latched' = TRUE /\ UNCHANGED <<sm, loop, call, serving, lapped, quiet>>

(* Time counts where the timeout table reads it.                                 *)
Tick == /\ sm.age < MaxAge /\ Timeout[sm.current_state] > 0
        /\ sm' = [sm EXCEPT !.age = @ + 1]
        /\ UNCHANGED <<latched, loop, call, serving, lapped, quiet>>

Step(t) == Find(t) \/ Write(t) \/ EnterState(t)
Loop    == LoopCheck \/ LoopTimeout \/ LoopEstop \/ LoopPromote
Main    == Step("main") \/ Boot \/ Loop
Api     == Step("api") \/ \E command \in Commands : Request(command)

Next == Main \/ Stop \/ Api \/ Grant \/ Press \/ Tick

Spec == Init /\ [][Next]_vars

(* The scheduler runs both threads: main's loop goes on until it is stopped, and *)
(* a handler that started finishes.  Time passes.  Nobody is obliged to send a   *)
(* request.                                                                      *)
FairSpec == Spec /\ WF_vars(Main) /\ WF_vars(Step("api")) /\ WF_vars(Tick)
-----------------------------------------------------------------------------------
(* Every variable stays within its type.                                         *)
TypeOK == /\ sm \in Machine
          /\ latched \in BOOLEAN /\ serving \in BOOLEAN /\ lapped \in BOOLEAN /\ quiet \in BOOLEAN
          /\ loop \in LoopPcs
          /\ call \in [Threads -> [step  : {"idle", "find", "commit", "enter"},
                                   event : Events \cup {"NONE"}, to : States]]

(* Once a pass of the loop has acted on the latched button, nothing main does    *)
(* (its stale timeouts, its promotion to IDLE, its shutdown) takes the machine   *)
(* out of ESTOP: only a write of the API thread can.                             *)
HeldByLatch ==
  quiet /\ call["main"].step = "idle" => sm.current_state \in {"ESTOP", "SAFE", "SHUTDOWN"}

(* However API calls interleave with the loop, a latched button brings the       *)
(* machine to ESTOP again and again, until the program is stopped.               *)
EstopReached ==
  latched ~> (sm.current_state \in {"ESTOP", "SAFE", "SHUTDOWN"} \/ loop \in {"stop", "done"})

(* Whatever the API thread asks for meanwhile, a movement, a docking and a pause *)
(* end by their timeouts while the loop runs.                                    *)
BusyEnds == \A s \in {"MOVE", "DOCK", "PAUSED"} :
              (sm.current_state = s) ~> (sm.current_state # s \/ loop \in {"stop", "done"})
-----------------------------------------------------------------------------------
(* What the repository says, and the interleaved firmware does not do.           *)

(* "EStop --> Idle: estop_released & safe_confirm & location_ok"                 *)
(* (REQ_State_Machine.md:71) is the only way out: no thread's write takes the    *)
(* machine out of ESTOP except for a reset or the shutdown.                      *)
EstopLeftByReset ==
  [][sm.current_state = "ESTOP" /\ sm'.current_state # "ESTOP" =>
       \E t \in Threads : Write(t) /\ call[t].event \in {"ESTOP_RESET", "SHUTDOWN"}]_vars

===================================================================================
