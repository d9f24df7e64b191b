CONSTANTS
  Size = 2
  Element <- MCElement
  NoElement = NoElement
  Ids = {0, 1}
  Displays = {"reset"}
SPECIFICATION RegistersSpec
INVARIANTS
  CopiesAgree
  SignalRaisesOnce
PROPERTY
  ImplementsQueue
CHECK_DEADLOCK FALSE
