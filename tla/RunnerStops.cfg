\* Handlers and readiness endpoints may hang, and handlers crash at any time.
CONSTANTS
  NumMessages = 3
  MaxBatch = 2
  MaxHandlers = 2
  RetryCount = 0
  Startups = {"delay", "probe"}
  MaxProbes = 2

SPECIFICATION RunnerFairSpec
INVARIANTS
  RunnerTypeOK
  NoOrphans
PROPERTIES
  CancelEndsRunner
  CancelEndsWork
  CrashLosesNothing
  LifeSpec
