SPECIFICATION FairSpec
CONSTANTS
  Jobs = {j1, j2, j3}
  Concurrency = 2
  MaxAttempts = 2
  Backoff = 1
  FailureThreshold = 2
  SuccessThreshold = 2
  RecoveryTicks = 2
  WakeSlack = 1
  MaxStalls = 1
  MaxCrashes = 2
INVARIANTS BreakerConsistent BudgetSpentOnCalls WakesIntoProbe
PROPERTIES TransitionsNeedRuns JobsSettle ImplementsJobService
