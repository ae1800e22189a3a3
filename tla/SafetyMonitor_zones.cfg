SPECIFICATION FairSpec
CONSTANTS
  Views       <- MCViews
  MaxDistance = 4
  Limits      <- MCLimits
  Factory     <- MCFactory
INVARIANTS
  TypeOK
  StopIsNotSafe
PROPERTIES
  ResumesClean
  CloseStops
  WarningEnds
