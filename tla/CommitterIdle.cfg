\* No hook, a batch that never fills and time for four ticks: only timeouts commit.
CONSTANTS
  NumMessages = 3
  MaxCalls = 1
  MaxTime = 9
  CommitBatchSize = 4
  CommitInterval = 2
  HookEnabled = FALSE

SPECIFICATION Spec
INVARIANTS
  CommittedWithinTwoIntervals
