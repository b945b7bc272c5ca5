\* Two retries are enough for a success between two failures.
CONSTANTS
  NumMessages = 1
  MaxBatch = 1
  MaxHandlers = 1
  RetryCount = 2

SPECIFICATION Spec
INVARIANTS
  RetriedOnlyAfterFailure
