SPECIFICATION FairSpec
CONSTANTS
  NoFault = NoFault
  Faults  = {}
  Timeout <- MCTimeout
  MaxAge  = 2
  Grants  = TRUE
INVARIANTS
  HeldByLatch
PROPERTIES
  EstopReached
  BusyEnds
CHECK_DEADLOCK FALSE
