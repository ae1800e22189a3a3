SPECIFICATION Spec
CONSTANTS
  NoFault = NoFault
  Faults  = {}
  Timeout <- MCTimeout
  MaxAge  = 2
  Grants  = FALSE
CHECK_DEADLOCK FALSE
PROPERTIES
  EstopLeftByReset
