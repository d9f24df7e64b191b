CONSTANTS
  FifoSize = 8
  Slice = 2
  Lengths = {0, 5, 8}
SPECIFICATION FairSpec
INVARIANTS
  Framed
  RequestsFollow
  Bounded
PROPERTIES
  PacketsArrive
