SPECIFICATION FairSpec
CONSTANTS
  Cache = cache
  Shared = {cache}
  Workers = {jobs}
  Databases = {write}
  Tasks = {t1, t2}
  Nothing = Nothing
  Threshold = 2
  Reset = 1
  MaxRetries = 1
  MaxConnections = 2
  MaxTroubles = 1
  Roles = {"worker", "server"}
  Concurrency = 1
  MaxAttempts = 2
  StopTimeout = 1
  DrainTimeout = 1
  ShutdownTimeout = 2
INVARIANTS BreakerAgrees AbandonedHadTime
CHECK_DEADLOCK FALSE
PROPERTIES CallsEnd RefusalsEnd ExitsOnceAsked
