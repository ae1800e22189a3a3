SPECIFICATION LidarSpec
CONSTANTS
  Threads = {t1, t2}
  Nobody = Nobody
  Reads <- MCReads
  Marker = Marker
  FullRotation = 2
  FarthestDistance = 12000
INVARIANTS
  MeasuredDistance
CHECK_DEADLOCK FALSE
