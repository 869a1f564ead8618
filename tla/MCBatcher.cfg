\* Three requests over an unbuffered channel; no readiness provider.
CONSTANTS
  r1 = r1
  r2 = r2
  r3 = r3
  NoRequest = NoRequest
  Requests <- ThreeRequests
  Tokens <- EqualTokens
  AdmissionEnabled = TRUE
  MaxBatchSize = 2
  MaxBatchWaitTime = 1
  MinWait = 1
  MaxWait = 1
  QueueHighWatermark = 2
  Millisecond = 1
  Threshold = 1
  ReadinessProvider = FALSE
  Adaptive = FALSE
  RequestQueueSize = 0
  WorkerErrorCodes = {"worker_timeout"}
  MaxTokens = 1
  MaxInFlightTokens = 2
SPECIFICATION Spec
SYMMETRY RequestSymmetry
INVARIANTS
  LeaseAccounting
  WithinBudget
  OnePlace
  TimerGuardsBatch
  CallsThroughClosedCircuit
PROPERTIES
  AbandonedNotSent
