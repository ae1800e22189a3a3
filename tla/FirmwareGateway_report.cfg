SPECIFICATION FairSpec
CONSTANTS
  Tasks            = {t1, t2}
  t1 = t1
  t2 = t2
  FailureThreshold = 2
  SuccessThreshold = 2
  RecoveryTimeout  = 1
  StatusRetries    = 1
  CommandRetries   = 2
  AttemptTime      = 1
  MemTtl           = 1
  CacheTtl         = 1
PROPERTIES
  ReportIsTrue
