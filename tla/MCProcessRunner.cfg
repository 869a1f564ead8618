\* Two requests; a child writes without end through a pipe of three, and three units are kept.
CONSTANTS
  Requests = 2
  OutputLimit = 3
  ChunkSize = 2
  PipeCapacity = 3
  MaxOutput = 6
  StopAttempts = 2
SPECIFICATION FairSpec
INVARIANTS
  NoChildLeft
  OutputsComplete
PROPERTIES
  SignalsReachOwnChild
  ImplementsContract
  Returns
