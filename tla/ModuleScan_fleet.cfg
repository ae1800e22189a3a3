SPECIFICATION BusFairSpec
CONSTANTS
  Addresses      = {3}
  MaxModules     = 1
  DiscoveryRange <- MCDiscoveryRange
  Unsteady       = {3}
  OfflineAfter   = 1
  FailThreshold  = 1
  BaseCooldown   = 1
  MaxCooldown    = 2
  MaxFailures    = 3
  ScanRange      <- MCScanRange
  Probes         = 2
INVARIANTS
  BusTypeOK
PROPERTIES
  StopEndsScan
  ReturnsOnline
  SilenceShows
