\* The result of the final event.
CONSTANTS
  Tokens = 2
SPECIFICATION Spec
INVARIANTS
  DoneIncludesFullResult
