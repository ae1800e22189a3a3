SPECIFICATION FairSpec
CONSTANTS
  AutoReset  = FALSE
  Unreliable = FALSE
  NoFault    = NoFault
  Faults     = {Fault1}
  Calls      = {"trigger_fault", "clear_fault", "trigger_interlock", "recovery"}
INVARIANTS
  SeenLatchIsUnsafe
PROPERTIES
  LatchBecomesKnown
  ReleaseBecomesKnown
  ResetKeepsHeldButton
  HeldButtonLatches
