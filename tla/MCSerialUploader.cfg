SPECIFICATION FairSpec
CONSTANTS
  Arrays <- MCArrays
  MaxCalls = 3
  MaxBatchSize = 2
  BytesLimited = TRUE
  MaxQueueSize = 2
  MaxFailures = 2
INVARIANTS
  Accounted
  ServerSeesPrefix
  QueueBounded
  CallersNotStuck
  FlushMeansSent
PROPERTIES
  FlushReturns
  EnqueueReturns
CHECK_DEADLOCK FALSE
