SPECIFICATION LidarFairSpec
CONSTANTS
  Threads = {t1, t2}
  Nobody = Nobody
  Reads <- MCReads
  Marker = Marker
  FullRotation = 2
  FarthestDistance = 12000
INVARIANTS
  LidarTypeOK
  WholeScan
PROPERTIES
  StoppedIsQuiet
  StopEnds
CHECK_DEADLOCK FALSE
