CONSTANTS
  FifoSize = 2
  Tags <- MCTags
  MaxQuads = 2
SPECIFICATION Spec
INVARIANTS
  PathsKept
  Framed3
  RequestKept
  FinishNotEarly
