----------------------------------- MODULE HalLidar -----------------------------------
(* hal_lidar.c: the device, the scan thread and the calls that start, stop, judge and  *)
(* close it.  Main brings the LiDAR up, serves and shuts it down; the API thread calls  *)
(* while main serves, and the call it is in when main begins to shut down goes on,      *)
(* because api_manager_stop does not wait for it.  The scan thread takes no lock.       *)
(* Reads that change nothing, the resolution, accuracy and performance settings and the *)
(* memory pool are left out.                                                            *)
EXTENDS Integers, Sequences, FiniteSetsExt

CONSTANTS Threads,       \* the threads that pthread_create may return
          Nobody,        \* no thread, no holder of the mutex
          Reads,         \* what the parser finds in one read: raw distances, 0 for an invalid point
          Marker,        \* the start marker that a read may hold
          FullRotation,  \* the points that end a scan before its read does (360)
          FarthestDistance  \* LIDAR_MAX_DISTANCE_MM

Callers == {"main", "api"}

Words == 0 .. 65535  \* uint16_t

ASSUME LidarAssumption ==
  /\ Nobody \notin Threads \cup Callers
  /\ Marker \notin Nat
  /\ Reads \subseteq Seq(Words \cup {Marker})
  /\ FullRotation \in Nat \ {0}
  /\ FarthestDistance \in Nat \ {0}

VARIABLES hal,     \* lidar_state: the flags, the mutex and the handle of the scan thread
          scan,    \* current_scan
          judged,  \* min_distance_mm of safety_status, 0 before the first judgement
          thread,  \* the scan threads
          call,    \* the call that main and the API thread are in
          phase    \* how far main has come

lidarVars == <<hal, scan, judged, thread, call, phase>>

Free    == [op |-> "none", at |-> "none", answer |-> "none"]
Unborn  == [at |-> "none", read |-> <<>>, next |-> 1]

LidarInit == /\ hal = [initialized |-> FALSE, scanning |-> FALSE, open |-> FALSE,
                       owner |-> Nobody, scan_thread |-> Nobody]
             /\ scan = [points |-> <<>>, complete |-> FALSE]
             /\ judged = 0
             /\ thread = [t \in Threads |-> Unborn]
             /\ call = [c \in Callers |-> Free]
             /\ phase = "init"

Live(t) == thread[t].at \notin {"none", "exited"}
--------------------------------------------------------------------------------------
(* lidar_calculate_min_distance: it starts from the maximum and passes over a point of   *)
(* distance 0                                                                           *)
Measured(points)    == {i \in DOMAIN points : points[i] > 0}
MinDistance(points) == Min({FarthestDistance} \cup {points[i] : i \in Measured(points)})

(* lidar_scan_thread                                                                   *)
Test(t) == /\ thread[t].at = "test"
           /\ thread' = [thread EXCEPT ![t].at = IF hal.scanning THEN "read" ELSE "exited"]
           /\ UNCHANGED <<hal, scan, judged, call, phase>>

(* lidar_read_response: bytes, too few of them for the parser, none within the second   *)
(* that VTIME allows, or an error                                                       *)
ReadData(t) ==
  /\ thread[t].at = "read"
  /\ \/ /\ hal.open
        /\ \/ \E r \in Reads : thread' = [thread EXCEPT ![t] = [at |-> "reset", read |-> r, next |-> 1]]
           \/ thread' = [thread EXCEPT ![t].at = "judge"]
     \/ thread' = [thread EXCEPT ![t].at = "test"]
  /\ UNCHANGED <<hal, scan, judged, call, phase>>

(* lidar_parse_scan_data writes current_scan in place: the count of the points, then the *)
(* mark, then point by point                                                            *)
ParseReset(t) ==
  /\ thread[t].at = "reset"
  /\ scan' = [scan EXCEPT !.points = <<>>]
  /\ thread' = [thread EXCEPT ![t].at = "open"]
  /\ UNCHANGED <<hal, judged, call, phase>>

ParseOpenKeeps(t) ==
  /\ thread[t].at = "open"
  /\ thread' = [thread EXCEPT ![t].at = "parse"]
  /\ UNCHANGED <<hal, scan, judged, call, phase>>

ParseOpen(t) ==
  /\ thread[t].at = "open"
  /\ scan' = [scan EXCEPT !.complete = FALSE]
  /\ thread' = [thread EXCEPT ![t].at = "parse"]
  /\ UNCHANGED <<hal, judged, call, phase>>

(* A distance is kept in mm, four times the raw one, in a uint16_t: what is not zero in   *)
(* the read may be zero, or near, in the scan                                            *)
Narrowed(v) == v % 65536  \* to uint16_t
Stored(d)   == Narrowed(4 * d)

TookWide(points, d) == CASE d = Marker -> <<>>
                         [] d = 0      -> points
                         [] OTHER      -> Append(points, 4 * d)

Took(points, d) == CASE d = Marker -> <<>>
                     [] d = 0      -> points
                     [] OTHER      -> Append(points, Stored(d))

More(t) == thread[t].next <= Len(thread[t].read) /\ Len(scan.points) < FullRotation

ParsePoint(t) ==
  /\ thread[t].at = "parse" /\ More(t)
  /\ scan' = [scan EXCEPT !.points = Took(@, thread[t].read[thread[t].next])]
  /\ thread' = [thread EXCEPT ![t].next = @ + 1]
  /\ UNCHANGED <<hal, judged, call, phase>>

ParseEnd(t) ==
  /\ thread[t].at = "parse" /\ ~More(t)
  /\ scan' = [scan EXCEPT !.complete = @ \/ scan.points # <<>>]
  /\ thread' = [thread EXCEPT ![t] = [Unborn EXCEPT !.at = "judge"]]
  /\ UNCHANGED <<hal, judged, call, phase>>

JudgeScan(t) == /\ thread[t].at = "judge"
                /\ judged' = IF scan.complete THEN MinDistance(scan.points) ELSE judged
                /\ thread' = [thread EXCEPT ![t].at = "test"]
                /\ UNCHANGED <<hal, scan, call, phase>>

Step(t) == \/ Test(t) \/ ReadData(t) \/ ParseReset(t) \/ ParseOpen(t)
           \/ ParsePoint(t) \/ ParseEnd(t) \/ JudgeScan(t)
--------------------------------------------------------------------------------------
Unlocked == hal.owner = Nobody
In(c, op, at) == call[c].op = op /\ call[c].at = at

Return(c, answer) == call' = [call EXCEPT ![c] = [Free EXCEPT !.answer = answer]]
GoOn(c, at)       == call' = [call EXCEPT ![c].at = at]

(* hal_lidar_start_scanning: the thread is created before scanning is set              *)
StartCreate(c) ==
  /\ In(c, "start", "entry") /\ Unlocked
  /\ CASE ~hal.initialized -> Return(c, "uninitialized") /\ UNCHANGED <<hal, thread>>
       [] hal.initialized /\ hal.scanning -> Return(c, "active") /\ UNCHANGED <<hal, thread>>
       [] OTHER ->
            \/ Return(c, "error") /\ UNCHANGED <<hal, thread>>
            \/ \E t \in Threads :
                 /\ thread[t].at = "none"
                 /\ thread' = [thread EXCEPT ![t].at = "test"]
                 /\ hal' = [hal EXCEPT !.owner = c, !.scan_thread = t]
                 /\ GoOn(c, "created")
  /\ UNCHANGED <<scan, judged, phase>>

StartFlag(c) ==
  /\ In(c, "start", "created")
  /\ hal' = [hal EXCEPT !.scanning = TRUE, !.owner = Nobody]
  /\ Return(c, "ok")
  /\ UNCHANGED <<scan, judged, thread, phase>>

(* hal_lidar_stop_scanning: the flag falls under the mutex, the join is outside it      *)
StopFlagLeft(c) ==
  /\ In(c, "stop", "entry") /\ Unlocked
  /\ IF hal.initialized /\ hal.scanning THEN GoOn(c, "join") ELSE Return(c, "ok")
  /\ UNCHANGED <<hal, scan, judged, thread, phase>>

StopFlagNoJoin(c) ==
  /\ In(c, "stop", "entry") /\ Unlocked
  /\ hal' = [hal EXCEPT !.scanning = FALSE]
  /\ Return(c, "ok")
  /\ UNCHANGED <<scan, judged, thread, phase>>

StopFlag(c) ==
  /\ In(c, "stop", "entry") /\ Unlocked
  /\ IF hal.initialized /\ hal.scanning
     THEN hal' = [hal EXCEPT !.scanning = FALSE] /\ GoOn(c, "join")
     ELSE Return(c, "ok") /\ UNCHANGED hal
  /\ UNCHANGED <<scan, judged, thread, phase>>

StopJoin(c) ==
  /\ In(c, "stop", "join")
  /\ thread[hal.scan_thread].at = "exited"
  /\ thread' = [thread EXCEPT ![hal.scan_thread] = Unborn]
  /\ Return(c, "ok")
  /\ UNCHANGED <<hal, scan, judged, phase>>

(* hal_lidar_check_safety judges the scan that the thread may be writing: the mark is    *)
(* read before the points                                                               *)
Check(c) ==
  /\ In(c, "check", "entry") /\ Unlocked
  /\ CASE ~hal.initialized -> Return(c, "uninitialized") /\ UNCHANGED hal
       [] hal.initialized /\ ~scan.complete -> Return(c, "error") /\ UNCHANGED hal
       [] OTHER -> hal' = [hal EXCEPT !.owner = c] /\ GoOn(c, "judging")
  /\ UNCHANGED <<scan, judged, thread, phase>>

CheckJudge(c) ==
  /\ In(c, "check", "judging")
  /\ judged' = MinDistance(scan.points)
  /\ hal' = [hal EXCEPT !.owner = Nobody]
  /\ Return(c, "ok")
  /\ UNCHANGED <<scan, thread, phase>>

(* hal_lidar_health_check holds the mutex while it waits for an answer                 *)
HealthAsk(c) ==
  /\ In(c, "health", "entry") /\ Unlocked
  /\ IF hal.initialized THEN hal' = [hal EXCEPT !.owner = c] /\ GoOn(c, "asked")
                        ELSE Return(c, "uninitialized") /\ UNCHANGED hal
  /\ UNCHANGED <<scan, judged, thread, phase>>

HealthAnswer(c) ==
  /\ In(c, "health", "asked")
  /\ hal' = [hal EXCEPT !.owner = Nobody]
  /\ \E a \in {"ok", "error"} : Return(c, a)
  /\ UNCHANGED <<scan, judged, thread, phase>>

(* hal_lidar_deinit: while scanning it calls stop with the mutex held, which stop locks *)
CloseLidar(c) ==
  /\ In(c, "deinit", "entry") /\ Unlocked
  /\ CASE ~hal.initialized -> Return(c, "uninitialized") /\ UNCHANGED hal
       [] hal.initialized /\ hal.scanning ->
            hal' = [hal EXCEPT !.owner = c] /\ GoOn(c, "blocked")
       [] OTHER -> /\ hal' = [hal EXCEPT !.open = FALSE, !.initialized = FALSE]
                   /\ Return(c, "ok")
  /\ UNCHANGED <<scan, judged, thread, phase>>

Serve(c) == \/ StartCreate(c) \/ StartFlag(c) \/ StopFlag(c) \/ StopJoin(c)
            \/ Check(c) \/ CheckJudge(c) \/ HealthAsk(c) \/ HealthAnswer(c) \/ CloseLidar(c)
--------------------------------------------------------------------------------------
(* main.c: hal_lidar_init; when the device cannot be opened main goes on without it     *)
Bring == /\ phase = "init"
         /\ \/ hal' = [hal EXCEPT !.initialized = TRUE, !.open = TRUE] /\ phase' = "start"
            \/ phase' = "serve" /\ UNCHANGED hal
         /\ UNCHANGED <<scan, judged, thread, call>>

Call(c, op) == /\ call[c].op = "none"
               /\ call' = [call EXCEPT ![c] = [op |-> op, at |-> "entry", answer |-> "none"]]

(* main's own calls, in their order: the start, and the stop and the deinit of the      *)
(* shutdown                                                                             *)
MainCalls ==
  /\ \/ phase = "start" /\ Call("main", "start")  /\ phase' = "serve"
     \/ phase = "serve" /\ Call("main", "stop")   /\ phase' = "stop"
     \/ phase = "stop"  /\ Call("main", "deinit") /\ phase' = "closed"
  /\ UNCHANGED <<hal, scan, judged, thread>>

(* The handlers of /api/v1/lidar; the server accepts nothing once main has stopped it   *)
Request == /\ phase = "serve" /\ call["main"].op # "start"
           /\ \E op \in {"start", "stop", "check", "health"} : Call("api", op)
           /\ UNCHANGED <<hal, scan, judged, thread, phase>>

LidarNext == \/ Bring \/ MainCalls \/ Request
             \/ \E t \in Threads : Step(t)
             \/ \E c \in Callers : Serve(c)

LidarSpec == LidarInit /\ [][LidarNext]_lidarVars

(* The threads are scheduled, and a read of the device ends within a second            *)
LidarFairSpec == /\ LidarSpec
                 /\ \A t \in Threads : WF_lidarVars(Step(t))
                 /\ \A c \in Callers : WF_lidarVars(StartFlag(c) \/ StopJoin(c) \/ CheckJudge(c) \/ HealthAnswer(c))
--------------------------------------------------------------------------------------
LidarTypeOK ==
  /\ hal \in [initialized : BOOLEAN, scanning : BOOLEAN, open : BOOLEAN,
              owner : Callers \cup {Nobody}, scan_thread : Threads \cup {Nobody}]
  /\ scan \in [points : Seq(Words), complete : BOOLEAN]
  /\ judged \in Nat
  /\ thread \in [Threads -> [at : {"none", "test", "read", "reset", "open", "parse", "judge", "exited"},
                             read : Reads \cup {<<>>}, next : Nat \ {0}]]
  /\ call \in [Callers -> [op : {"none", "start", "stop", "check", "health", "deinit"},
                           at : {"none", "entry", "created", "join", "judging", "asked", "blocked"},
                           answer : {"none", "ok", "error", "active", "uninitialized"}]]
  /\ phase \in {"init", "start", "serve", "stop", "closed"}

Serving == phase \in {"init", "start", "serve"}

(* What the parser holds of a read after each of its values, and in the end              *)
Parsed(r) ==
  LET f[i \in 0 .. Len(r)] == IF i = 0 THEN <<>>
                              ELSE IF Len(f[i - 1]) = FullRotation THEN f[i - 1]
                              ELSE Took(f[i - 1], r[i])
  IN  f

Found(r) == Parsed(r)[Len(r)]

(* A scan marked complete is what one read held, or is being cleared, though the thread  *)
(* writes it in place and without the mutex: nothing of an earlier or of another         *)
(* thread's read is in it.  (lidar_parse_scan_data; the API judges current_scan by that  *)
(* mark.)                                                                                *)
WholeScan == Serving /\ scan.complete /\ scan.points # <<>> => \E r \in Reads : scan.points = Found(r)

(* The scan changes only between a start and the end of the stop that follows it: while  *)
(* main serves, no caller that was told of the stop finds a scan thread writing.         *)
(* (hal_lidar_stop_scanning)                                                             *)
StoppedIsQuiet ==
  [][Serving /\ scan' # scan => hal.scanning \/ \E c \in Callers : In(c, "stop", "join")]_lidarVars

(* A stop of the API does not wait for ever for the thread it joins: the flag it         *)
(* lowered ends the thread's loop.                                                       *)
StopEnds == In("api", "stop", "join") /\ Serving ~> ~In("api", "stop", "join") \/ ~Serving

(* hal_lidar.h calls min_distance_mm the "Minimum distance in scan": the distance that   *)
(* the safety status holds is the nearest point of one read.                             *)
MeasuredDistance == Serving /\ judged # 0 =>
                      \E r \in Reads : Found(r) # <<>> /\ judged = MinDistance(Found(r))
=======================================================================================
