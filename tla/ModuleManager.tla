-------------------------------- MODULE ModuleManager --------------------------------
(* module_manager.c over the registry: discovery with its circuit breakers, health      *)
(* checks and the mark of what was not heard of for too long.  Discovery is a loop of   *)
(* requests of up to two seconds each, one step per address here: modules change and    *)
(* time passes between its steps.  Its caller is one thread, which is in one call at a   *)
(* time.                                                                               *)
EXTENDS ModuleRegistry, Sequences, Functions

CONSTANTS DiscoveryRange,   \* the addresses of get_configured_scan_range, in order
          Unsteady,         \* the modules that may fall silent and come back
          OfflineAfter,     \* offline_threshold_ms
          FailThreshold,    \* cb_fail_threshold
          BaseCooldown,     \* cb_base_cooldown_ms
          MaxCooldown,      \* cb_max_cooldown_ms
          MaxFailures       \* the last value of the failure counter

ASSUME ManagerAssumption ==
  /\ DiscoveryRange \in Seq(Addresses)
  /\ Unsteady \subseteq Addresses
  /\ {OfflineAfter, FailThreshold, BaseCooldown, MaxCooldown, MaxFailures} \subseteq Nat

MaxDoublings == 10     \* the last value of exp

(* The shift by exp does not wrap.                                                      *)
ASSUME ShiftAssumption ==
  \A k \in 0 .. MaxDoublings : BaseCooldown * 2^k \in Nat /\ BaseCooldown * 2^k <= 2^30

VARIABLES replies,     \* what the module at an address answers to
          registry,
          entry,       \* the status in the manager's own table, "none" when unregistered
          age,         \* time since last_health_check
          breaker,     \* consecutive failures and what is left of the cooldown
          discovery    \* how many addresses the discovery under way has done, or -1

managerVars == <<replies, registry, entry, age, breaker, discovery>>

(* Only discovery registers modules, so that the manager's table knows no other.        *)
Managed == Range(DiscoveryRange)

Entries == {"none", "online", "offline", "error"}

(* To nothing; to the read of its number, while that of its type fails or yields one that *)
(* the manager does not know; to all                                                    *)
Replies == {"none", "number", "all"}
Closed  == [failures |-> 0, cooldown |-> 0]

ManagerInit == /\ replies \in [Addresses -> Replies]
               /\ \A a \in Addresses \ Unsteady : replies[a] = "all"
               /\ registry = Cleared
               /\ entry   = [a \in Managed |-> "none"]
               /\ age     = [a \in Managed |-> 0]
               /\ breaker = [a \in Managed |-> Closed]
               /\ discovery = -1

(* comm_manager_modbus_read_holding_registers after all its attempts.                   *)
Responds(a)   == replies[a] # "none"
Identifies(a) == replies[a] = "all"

Lesser(m, n) == IF m < n THEN m ELSE n

(* base * 2^(failures - threshold), of which both are capped                            *)
Doublings(failures) == Lesser(failures - FailThreshold, MaxDoublings)

CooldownUncapped(failures) == BaseCooldown * 2^Doublings(failures)
Cooldown(failures) == Lesser(BaseCooldown * 2^Doublings(failures), MaxCooldown)

Failed(b) == LET n == Lesser(b.failures + 1, MaxFailures)
             IN [failures |-> n,
                 cooldown |-> IF n >= FailThreshold THEN Cooldown(n) ELSE b.cooldown]

(* What did not answer for longer than the threshold, unless a failed health check      *)
(* already took its "online" away.                                                      *)
Overdue(ages) == {a \in Managed : entry[a] = "online" /\ ages[a] > OfflineAfter}

CheckOffline ==
  /\ discovery = Len(DiscoveryRange)
  /\ entry'    = [a \in Managed |-> IF a \in Overdue(age) THEN "offline" ELSE entry[a]]
  /\ registry' = [a \in Addresses |->
                    IF a \in Overdue(age) THEN MarkOffline(registry, a)[a] ELSE registry[a]]
  /\ discovery' = -1
  /\ UNCHANGED <<replies, age, breaker>>

Discovered(a) ==
  /\ registry' = MarkOnline(registry, a)
  /\ entry'    = [entry EXCEPT ![a] = "online"]
  /\ age'      = [age EXCEPT ![a] = 0]
  /\ breaker'  = [breaker EXCEPT ![a] = Closed]

StartDiscovery == /\ discovery = -1
                  /\ discovery' = 0
                  /\ UNCHANGED <<replies, registry, entry, age, breaker>>

DiscoverCountsSkipped ==
  /\ discovery \in 0 .. Len(DiscoveryRange) - 1
  /\ discovery' = discovery + 1
  /\ UNCHANGED replies
  /\ LET a == DiscoveryRange[discovery + 1] IN
       \/ /\ breaker[a].cooldown = 0 /\ Identifies(a)
          /\ Discovered(a)
       \/ /\ breaker[a].cooldown > 0 \/ ~Identifies(a)
          /\ breaker' = [breaker EXCEPT ![a] = Failed(@)]
          /\ UNCHANGED <<registry, entry, age>>

(* An address whose breaker is open is skipped; one that does not answer both reads, or  *)
(* answers with a type that the manager does not know, counts as a failure.             *)
Discover ==
  /\ discovery \in 0 .. Len(DiscoveryRange) - 1
  /\ discovery' = discovery + 1
  /\ UNCHANGED replies
  /\ LET a == DiscoveryRange[discovery + 1] IN
       \/ /\ breaker[a].cooldown > 0
          /\ UNCHANGED <<registry, entry, age, breaker>>
       \/ /\ breaker[a].cooldown = 0 /\ Identifies(a)
          /\ Discovered(a)
       \/ /\ breaker[a].cooldown = 0 /\ ~Identifies(a)
          /\ breaker' = [breaker EXCEPT ![a] = Failed(@)]
          /\ UNCHANGED <<registry, entry, age>>

(* The manager's own table only: the registry hears of neither verdict.  A failed check   *)
(* restarts the age as a good one does.                                                 *)
HealthCheckKeepsEntry(a) ==
  /\ discovery = -1 /\ entry[a] # "none"
  /\ age' = [age EXCEPT ![a] = 0]
  /\ IF Responds(a) THEN entry' = [entry EXCEPT ![a] = "online"] ELSE UNCHANGED entry
  /\ UNCHANGED <<replies, registry, breaker, discovery>>

HealthCheck(a) ==
  /\ discovery = -1 /\ entry[a] # "none"
  /\ age'   = [age EXCEPT ![a] = 0]
  /\ entry' = [entry EXCEPT ![a] = IF Responds(a) THEN "online" ELSE "error"]
  /\ UNCHANGED <<replies, registry, breaker, discovery>>

Unregister(a) == /\ discovery = -1 /\ entry[a] # "none"
                 /\ entry' = [entry EXCEPT ![a] = "none"]
                 /\ UNCHANGED <<replies, registry, age, breaker, discovery>>

ResetManager == /\ discovery = -1
                /\ entry' = [a \in Managed |-> "none"]
                /\ UNCHANGED <<replies, registry, age, breaker, discovery>>

(* What nothing in the code changes: the modules and the clock.                         *)
ModulesChange == /\ \E a \in Unsteady, r \in Replies : replies' = [replies EXCEPT ![a] = r]
                 /\ UNCHANGED <<registry, entry, age, breaker, discovery>>

ClockTick == /\ age'     = [a \in Managed |-> Lesser(age[a] + 1, OfflineAfter + 1)]
             /\ breaker' = [a \in Managed |->
                              [breaker[a] EXCEPT !.cooldown = IF @ > 0 THEN @ - 1 ELSE 0]]
             /\ UNCHANGED <<replies, registry, entry, discovery>>

ManagerCalls == \/ StartDiscovery \/ Discover \/ CheckOffline \/ ResetManager
                \/ \E a \in Managed : HealthCheck(a) \/ Unregister(a)

ManagerNext == ManagerCalls \/ ModulesChange \/ ClockTick

ManagerSpec == ManagerInit /\ [][ManagerNext]_managerVars
======================================================================================
