\* Batches of two, hooks that fail, calls that are retried, two ticks, Stop at any time.
CONSTANTS
  NumMessages = 2
  MaxCalls = 3
  MaxTime = 4
  CommitBatchSize = 2
  CommitInterval = 2
  HookEnabled = TRUE

SPECIFICATION FairSpec
INVARIANTS
  TypeOK
  AckedIsCovered
  ExposureBound
PROPERTIES
  CommitterContract
  CommitReturns
  StopEnds
