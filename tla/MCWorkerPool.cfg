\* Three batch calls and a stream over two endpoints.
CONSTANTS
  b1 = b1
  b2 = b2
  b3 = b3
  s1 = s1
  Calls <- BatchesAndStream
  BatchCalls <- ThreeBatches
  Workers = 2
  Streaming = {1}
  Threshold = 2
  ResetAfter = 2
  MaxClock = 3
SPECIFICATION Spec
SYMMETRY BatchSymmetry
INVARIANTS
  InFlightAccounting
  CircuitSetAtThreshold
  TurnedAwayOnlyIfTripped
