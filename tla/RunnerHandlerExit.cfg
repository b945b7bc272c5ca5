\* The smallest pipeline, everything fair.
CONSTANTS
  NumMessages = 1
  MaxBatch = 1
  MaxHandlers = 1
  RetryCount = 0
  Startups = {"delay"}
  MaxProbes = 1

SPECIFICATION RunnerFairWorkSpec
PROPERTIES
  HandlerExitEndsRunner
