SPECIFICATION Spec
CONSTANTS
  Arrays <- MCFewArrays
  MaxCalls = 2
  MaxBatchSize = 2
  BytesLimited = TRUE
  MaxQueueSize = 2
  MaxFailures = 2
INVARIANTS
  FlushNeverStuck
CHECK_DEADLOCK FALSE
