\* Adaptive policy in front of a worker pool that reports readiness; fair scheduling.
CONSTANTS
  r1 = r1
  r2 = r2
  r3 = r3
  NoRequest = NoRequest
  Requests <- TwoRequests
  Tokens <- UnequalTokens
  AdmissionEnabled = TRUE
  MaxBatchSize = 4
  MaxBatchWaitTime = 4
  MinWait = 2
  MaxWait = 5
  QueueHighWatermark = 1
  Millisecond = 2
  Threshold = 1
  ReadinessProvider = TRUE
  Adaptive = TRUE
  RequestQueueSize = 1
  WorkerErrorCodes = {"worker_timeout", "worker_unavailable", "worker_error"}
  MaxTokens = 2
  MaxInFlightTokens = 3
SPECIFICATION FairSpec
INVARIANTS
  OpenCircuitHasFailures
  WaitBounded
  GaugeTracksQueue
PROPERTIES
  ImplementsService
  EveryRequestAnswered
