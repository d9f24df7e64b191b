CONSTANTS
  Events = {"load_state", "download", "reset"}
  ReturnSize = 2
  MaxQueued = 1
SPECIFICATION FairSpec
PROPERTY
  FramesKeepComing
CHECK_DEADLOCK FALSE
