\* Three messages, two handlers, either committer; handlers and hooks may hang.
CONSTANTS
  NumMessages = 3
  MaxBatch = 1
  MaxHandlers = 2
  RetryCount = 0
  Startups = {"delay"}
  MaxProbes = 1
  CommitBatchSize = 2

SPECIFICATION ClaimFairSpec
INVARIANTS
  ClaimTypeOK
  ClosedExactlyOnce
  LostBelowMark
  RedeliveredAboveMark
PROPERTIES
  SessionEnds
  SessionView
