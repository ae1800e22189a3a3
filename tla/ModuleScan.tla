--------------------------------- MODULE ModuleScan ---------------------------------
(* The scan of communication_manager.c, which main runs once at boot and the API thread  *)
(* within its start-scan handler, over the module manager.  The API thread serves one    *)
(* request at a time, so that it stops, pauses, resumes and resets main's scan and never  *)
(* its own; no flag tells the one scan from the other.  A probe is one step; the reads    *)
(* of the type that follow an answer lie between it and the entry in the registry.        *)
EXTENDS ModuleManager

CONSTANTS ScanRange,     \* the addresses of a scan, in order
          Probes         \* the attempts per address

ASSUME ScanAssumption == /\ ScanRange \in Seq(Addresses)
                         /\ Probes \in Nat \ {0}

Scanners == {"main", "api"}

VARIABLES scan,          \* where the scan of each thread is
          scanning,      \* g_scan_active
          interrupted,   \* g_scan_interrupt_requested
          paused         \* g_scan_paused

scanVars == <<scan, scanning, interrupted, paused>>
busVars == <<managerVars, scanVars>>

At(step, i, try) == [step |-> step, i |-> i, try |-> try]

Boot == At("boot", 0, 0)
Idle == At("idle", 0, 0)

Active(s) == scan[s].step \notin {"boot", "idle"}
Probed(s) == ScanRange[scan[s].i]

(* The API thread is between two requests.                                              *)
ApiFree == scan["api"] = Idle /\ discovery = -1

ScanInit == /\ ManagerInit
            /\ scan = [s \in Scanners |-> IF s = "main" THEN Boot ELSE Idle]
            /\ scanning = FALSE /\ interrupted = FALSE /\ paused = FALSE

Moves(s, place) == scan' = [scan EXCEPT ![s] = place]

(* comm_manager_scan_range.  It forgets an earlier stop, also one of the other thread's   *)
(* scan, and not an earlier pause.                                                      *)
Begin(s) == /\ s = "main" => scan[s] = Boot
            /\ s = "api" => ApiFree
            /\ Moves(s, At("gate", 1, 0))
            /\ scanning' = TRUE
            /\ interrupted' = FALSE
            /\ UNCHANGED <<paused, managerVars>>

(* The top of the loop over the addresses; the end of one scan clears the flag of both.   *)
Gate(s) == /\ scan[s].step = "gate"
           /\ IF interrupted \/ scan[s].i > Len(ScanRange)
              THEN Moves(s, Idle) /\ scanning' = FALSE
              ELSE Moves(s, At("wait", scan[s].i, 0)) /\ UNCHANGED scanning
           /\ UNCHANGED <<interrupted, paused, managerVars>>

WaitDeaf(s) ==
           /\ scan[s].step = "wait"
           /\ ~paused
           /\ Moves(s, IF interrupted THEN At("missed", scan[s].i, 0)
                       ELSE At("probe", scan[s].i, 1))
           /\ UNCHANGED <<scanning, interrupted, paused, managerVars>>

(* The pause gate, which a stop opens: no attempt follows, and no look at the top.        *)
Wait(s) == /\ scan[s].step = "wait"
           /\ interrupted \/ ~paused
           /\ Moves(s, IF interrupted THEN At("missed", scan[s].i, 0)
                       ELSE At("probe", scan[s].i, 1))
           /\ UNCHANGED <<scanning, interrupted, paused, managerVars>>

(* The request for the device's number, then for register 0: an answer counts unless    *)
(* the scan was stopped meanwhile.                                                      *)
Probe(s) ==
  /\ scan[s].step = "probe"
  /\ \/ /\ ~interrupted /\ Responds(Probed(s))
        /\ Moves(s, At("found", scan[s].i, 0))
     \/ /\ interrupted \/ ~Responds(Probed(s))
        /\ Moves(s, IF interrupted \/ scan[s].try = Probes THEN At("missed", scan[s].i, 0)
                    ELSE At("backoff", scan[s].i, scan[s].try + 1))
  /\ UNCHANGED <<scanning, interrupted, paused, managerVars>>

(* The delay before another attempt, which follows also when a stop cut it short.        *)
Backoff(s) == /\ scan[s].step = "backoff"
              /\ interrupted \/ ~paused
              /\ Moves(s, At("probe", scan[s].i, scan[s].try))
              /\ UNCHANGED <<scanning, interrupted, paused, managerVars>>

(* After the reads of the type, without another look at interrupted.                    *)
Found(s) == /\ scan[s].step = "found"
            /\ registry' = MarkOnline(registry, Probed(s))
            /\ Moves(s, At("gap", scan[s].i, 0))
            /\ UNCHANGED <<replies, entry, age, breaker, discovery, scanning, interrupted, paused>>

(* miss_count belongs to one scan, which visits an address once: it is 1 here, and the  *)
(* mark at two misses out of reach.                                                     *)
NotFound(s) ==
  /\ scan[s].step = "missed"
  /\ LET misses == 1 IN
       registry' = IF ~interrupted /\ misses >= 2 THEN MarkOffline(registry, Probed(s))
                   ELSE registry
  /\ Moves(s, At("gap", scan[s].i, 0))
  /\ UNCHANGED <<replies, entry, age, breaker, discovery, scanning, interrupted, paused>>

(* The delay between two addresses.                                                     *)
Gap(s) == /\ scan[s].step = "gap"
          /\ interrupted \/ ~paused
          /\ Moves(s, At("gate", scan[s].i + 1, 0))
          /\ UNCHANGED <<scanning, interrupted, paused, managerVars>>

Scan(s) == Gate(s) \/ Wait(s) \/ Probe(s) \/ Backoff(s) \/ Found(s) \/ NotFound(s) \/ Gap(s)

StopScanning == /\ ApiFree
                /\ interrupted' = TRUE
                /\ UNCHANGED <<scan, scanning, paused, managerVars>>

PauseScanning == /\ ApiFree /\ scanning
                 /\ paused' = TRUE
                 /\ UNCHANGED <<scan, scanning, interrupted, managerVars>>

ResumeScanning == /\ ApiFree
                  /\ paused' = FALSE
                  /\ UNCHANGED <<scan, scanning, interrupted, managerVars>>

(* POST /api/v1/modules/reset stops the scan and clears the registry.                   *)
ResetModules == /\ ApiFree
                /\ interrupted' = TRUE
                /\ registry' = Cleared
                /\ UNCHANGED <<replies, entry, age, breaker, discovery, scan, scanning, paused>>

(* The manager's calls are requests as well.                                            *)
Served(request) == scan["api"] = Idle /\ request /\ UNCHANGED scanVars

BusNext == \/ \E s \in Scanners : Begin(s) \/ Scan(s)
           \/ StopScanning \/ PauseScanning \/ ResumeScanning \/ ResetModules
           \/ Served(ManagerCalls)
           \/ (ModulesChange \/ ClockTick) /\ UNCHANGED scanVars

BusSpec == ScanInit /\ [][BusNext]_busVars

(* A scan and a discovery that began go on, time passes, and clients ask for a          *)
(* discovery again and again: a request waits until the API thread has served those      *)
(* before it.  No client is bound to stop, pause or resume a scan.                      *)
BusFairSpec == /\ BusSpec
               /\ \A s \in Scanners : WF_busVars(Scan(s))
               /\ WF_busVars(Served(Discover \/ CheckOffline))
               /\ SF_busVars(Served(StartDiscovery))
               /\ WF_busVars(ClockTick /\ UNCHANGED scanVars)
--------------------------------------------------------------------------------------
(* Every variable stays within its type.                                                *)
BusTypeOK ==
  /\ replies \in [Addresses -> Replies]
  /\ registry \in [Addresses -> Statuses]
  /\ entry \in [Managed -> Entries]
  /\ age \in [Managed -> 0 .. OfflineAfter + 1]
  /\ breaker \in [Managed -> [failures : 0 .. MaxFailures, cooldown : 0 .. MaxCooldown]]
  /\ discovery \in -1 .. Len(DiscoveryRange)
  /\ scan \in [Scanners ->
                 [step : {"boot", "idle", "gate", "wait", "probe", "backoff", "found", "missed", "gap"},
                  i : 0 .. Len(ScanRange) + 1, try : 0 .. Probes]]
  /\ scanning \in BOOLEAN /\ interrupted \in BOOLEAN /\ paused \in BOOLEAN

(* A scan that is told to stop ends, also while it is paused, unless a start of the other  *)
(* thread takes the stop back.                                                          *)
StopEndsScan ==
  \A s \in Scanners : interrupted /\ Active(s) ~> ~Active(s) \/ ~interrupted

(* A scan that the API thread begins while scans are paused waits for a resume that only   *)
(* the API thread could serve: from then on it serves nothing.                           *)
Stuck == paused /\ Active("api")

(* As long as requests are served, a module that answers for good is online in the        *)
(* registry again and again, whatever its breaker counted before and whoever resets the   *)
(* manager or the registry.                                                             *)
ReturnsOnline ==
  \A a \in Managed : []~Stuck /\ <>[]Identifies(a) => []<>(registry[a] = "online")

(* As long as requests are served, a module that is silent for good does not stay online   *)
(* in the manager's table, though failed checks restart its age and an open breaker        *)
(* spares it the discovery.                                                             *)
SilenceShows ==
  \A a \in Managed : []~Stuck /\ <>[]~Responds(a) => <>[](entry[a] # "online")
=====================================================================================
