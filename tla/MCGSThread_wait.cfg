CONSTANTS
  Events = {"download in vblank"}
  ReturnSize = 2
  MaxQueued = 1
SPECIFICATION FairSpec
PROPERTY
  RequestReturns
CHECK_DEADLOCK FALSE
