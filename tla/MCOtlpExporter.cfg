\* Two spans, one of which toOTLP accepts, a client that flushes, room for one span in queue and recorder; fair scheduling.
CONSTANTS
  t1 = t1
  t2 = t2
  t3 = t3
  t4 = t4
  f1 = f1
  NoSpan = NoSpan
  Nobody = Nobody
  Runner = Runner
  Spans <- TwoSpans
  Convertible <- FirstSpan
  Flushers <- OneFlusher
  TraceCapacity = 1
  QueueSize = 1
  MaxBatchSize = 2
SPECIFICATION FairSpec
INVARIANTS
  SpansConserved
  FlushesReachQueued
PROPERTIES
  EventuallyExported
  CloseReturns
