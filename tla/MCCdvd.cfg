CONSTANTS
  Channels = {3, 8}
  Commands = {"nop", "standby", "stop", "pause", "seek", "read", "gettoc", "readkey"}
  Positions = {1}
  Lengths = {1, 2}
  Careful = TRUE
  Disc = 3
  MaxBreaks = 1
SPECIFICATION FairSpec
INVARIANTS
  HighestRuns
  SectorsInOrder
PROPERTIES
  NoStrayInterrupt
  IopDmaSpec
  CommandsEnd
