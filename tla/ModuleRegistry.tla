------------------------------- MODULE ModuleRegistry -------------------------------
(* module_registry.c: what the firmware knows of the modules on the RS485 bus, one      *)
(* entry per address.  The table is unlocked; each call is modelled as one step.        *)
EXTENDS Integers, FiniteSets

CONSTANTS Addresses,     \* the bus addresses that anything asks for
          MaxModules     \* MODULE_REGISTRY_MAX_MODULES

ASSUME RegistryAssumption == IsFiniteSet(Addresses) /\ MaxModules \in Nat

Statuses == {"absent", "unknown", "offline", "online"}

Cleared == [a \in Addresses |-> "absent"]

(* A new address is refused once the table is full.                                     *)
AddOrUpdate(reg, a, status) ==
  IF reg[a] = "absent" /\ Cardinality({b \in Addresses : reg[b] # "absent"}) >= MaxModules
  THEN reg ELSE [reg EXCEPT ![a] = status]

MarkOnline(reg, a) == AddOrUpdate(reg, a, "online")

MarkOffline(reg, a) == IF reg[a] = "absent" THEN reg ELSE [reg EXCEPT ![a] = "offline"]
=====================================================================================
