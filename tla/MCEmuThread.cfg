CONSTANTS
  UserActions = {"open file", "quick load", "cancel dialog", "load state", "save state", "key", "pause", "unpause", "stop", "frame advance", "next frame", "open gsdump", "close"}
  FatalErrors = TRUE
  MaxActions = 4
SPECIFICATION FairSpec
INVARIANTS
  StopsSoon
  FrameAdvanceSteps
PROPERTIES
  LockGranted
  ShutdownEnds
CHECK_DEADLOCK FALSE
