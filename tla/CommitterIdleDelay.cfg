\* One message, committed by timeout.
CONSTANTS
  NumMessages = 1
  MaxCalls = 1
  MaxTime = 6
  CommitBatchSize = 2
  CommitInterval = 2
  HookEnabled = FALSE

SPECIFICATION Spec
INVARIANTS
  CommittedWithinInterval
