CONSTANTS
  Events = {"save_state", "download", "download in vblank", "reset", "emulation error", "GS error", "spurious wakeup"}
  ReturnSize = 3
  MaxQueued = 1
SPECIFICATION Spec
INVARIANTS
  DisplayedFrame
  NothingLeftOver
CHECK_DEADLOCK FALSE
