CONSTANTS
  MaxCycles = 5
  HblankCycles = 7
  VblankStart = 10
  FrameCycles = 15
  VblankDelay = 3
  IntDelay = 3
  SoundCycles = 10
  DriveDelays = {}
  Never = 1023
  MaxPending = 1
  Horizon = 20
  TimerIds = {0}
  Mask = 3
  Settle = 2
  Controls <- MCControls
  Counters = {2}
  Compares = {1, 3}
  MaxWrites = 2
SPECIFICATION TimersSpec
INVARIANTS
  ClocksAgree
  EventsOnTime
  FrameExact
  CountsEveryCycle
  NextHitPlanned
  InterruptNotLost
CHECK_DEADLOCK FALSE
