\* The pending spans while the collector is down.
CONSTANTS
  t1 = t1
  t2 = t2
  t3 = t3
  t4 = t4
  f1 = f1
  NoSpan = NoSpan
  Nobody = Nobody
  Runner = Runner
  Spans <- FourSpans
  Convertible <- FourSpans
  Flushers = {}
  TraceCapacity = 2
  QueueSize = 1
  MaxBatchSize = 2
SPECIFICATION Spec
INVARIANTS
  BoundedBuffer
