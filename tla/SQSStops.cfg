\* Handlers and readiness endpoints may hang.  Three messages are one more than may be
\* read ahead.
CONSTANTS
  NumMessages = 3
  MaxBatch = 1
  MaxHandlers = 1
  RetryCount = 0
  Startups = {"probe"}
  MaxProbes = 2

SPECIFICATION PipelineFairSpec
INVARIANTS
  PipelineTypeOK
  OrderlyExit
  ReadAheadBound
PROPERTIES
  InterruptEndsProgram
  FetchedIsFinished
