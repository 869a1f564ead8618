\* An answer of three tokens, cut and broken off anywhere.
CONSTANTS
  Tokens = 3
SPECIFICATION FairSpec
INVARIANTS
  TokensInOrder
  EndsExplicitly
  SpansTellOutcome
PROPERTIES
  BothReturn
