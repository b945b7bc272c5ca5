\* Two messages and two handlers, so that one call is on its way to the committer
\* when the pump, the runner and the committer have ended.
CONSTANTS
  NumMessages = 2
  MaxBatch = 1
  MaxHandlers = 2
  RetryCount = 0
  Startups = {"delay"}
  MaxProbes = 1
  CommitBatchSize = 2

SPECIFICATION ClaimSpec
INVARIANT RevokedGracefully
