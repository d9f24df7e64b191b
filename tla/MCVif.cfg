CONSTANTS
  Commands <- MCCommands
  Programs <- MCPrograms
  FifoSize = 4
  InternalSize = 2
  Quad = 2
  Tag = 1
  Careful = TRUE
  MaxControls = 1
SPECIFICATION VifFairSpec
INVARIANTS
  InStep
  UnpackFits
  PathLeft
PROPERTY
  RequestComesBack
