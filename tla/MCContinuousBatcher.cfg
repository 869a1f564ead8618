\* Three requests over three blocks of two tokens.
CONSTANTS
  s0 = s0
  s1 = s1
  s2 = s2
  s3 = s3
  EmptyId = s0
  Sequences <- AllIds
  TotalBlocks = 3
  TokensPerBlock = 2
  PrefixKeys = 2
  Indices <- ThreeIndices
  Workloads <- MixedWorkloads
  MaxPrefill = 2
  MaxDecode = 2
SPECIFICATION FairSpec
INVARIANTS
  MemoryAccounted
  PriorityRespected
PROPERTIES
  RejectedOnlyUnderPressure
  Returns
  ImplementsContract
