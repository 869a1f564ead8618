\* Three sequences, two prefix keys used with different lengths.
CONSTANTS
  s0 = s0
  s1 = s1
  s2 = s2
  s3 = s3
  EmptyId = s0
  Sequences <- ThreeSequences
  TotalBlocks = 3
  TokensPerBlock = 2
  PrefixKeys = 2
  PromptLengths <- AnyLength
  PrefixLengths <- MixedPrefixes
  MaxAppend = 1
  MaxGenerated = 2
SPECIFICATION AllocatorSpec
SYMMETRY SequenceSymmetry
INVARIANTS
  WellFormed
  RefusedOnlyWhenFull
PROPERTIES
  FailureLeavesSequences
