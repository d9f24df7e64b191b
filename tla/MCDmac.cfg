CONSTANTS
  Channels = {"VIF1", "GIF", "IPU_TO", "IPU_FROM"}
  StallSources = {"IPU_FROM", "none"}
  StallDests = {"VIF1", "none"}
  Flags = {"DMA_STALL"}
  Slice = 2
  MaxAddress = 2
  MaxQWC = 2
SPECIFICATION FairSpec
CONSTRAINT
  Within
ACTION_CONSTRAINT
  StaysSo
INVARIANTS
  ReadyTakeTurns
  DrainBehind
  RequestsReturn
PROPERTY
  ServedIfKept
