SPECIFICATION Spec
CONSTANTS
  NoFault = NoFault
  Faults  = {motor}
  Timeout <- MCTimeout
  MaxAge  = 2
  Raised  <- MCRaised
INVARIANTS
  TypeOK
  SafeHasNoFault
PROPERTIES
  OneMovePerTarget
  EstopLatched
  UpdateObeysEstop
  DriveIsSafe
