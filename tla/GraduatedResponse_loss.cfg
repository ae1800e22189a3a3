SPECIFICATION FairSpec
CONSTANTS
  Modules    <- MCModules
  Config     <- MCConfig
  Conditions <- MCConditions
  MaxUnseen  = 1
  Delay      = 1
  MinStay    = 2
  Requests   <- MCRequests
  MaxCalls   = 1
INVARIANTS
  OfflineIsUnseen
  LossIsEmergency
PROPERTIES
  SlowDescent
  LossReachesResponse
