\* Four messages through two handlers, batches of up to three: the loop has to
\* hold messages back, and goroutines finish in every order.
CONSTANTS
  NumMessages = 4
  MaxBatch = 3
  MaxHandlers = 2
  RetryCount = 2

SPECIFICATION FairSpec
INVARIANTS
  TypeOK
  LoopBounds
  NothingSkipped
  SlotAccounting
  MaxHandlersRespected
  SignalNeverBlocks
  OvertakingBound
  FateConsistent
PROPERTIES
  CancelStops
  ReceivedIsFinished
  PoolSpec
