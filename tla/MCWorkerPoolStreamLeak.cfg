\* The in-flight count after every call has ended.
CONSTANTS
  b1 = b1
  b2 = b2
  b3 = b3
  s1 = s1
  Calls <- OneStream
  BatchCalls = {}
  Workers = 2
  Streaming = {1, 2}
  Threshold = 1
  ResetAfter = 2
  MaxClock = 4
SPECIFICATION Spec
INVARIANTS
  NoneInFlightWhenIdle
