CONSTANTS
  HeapSize = 36
  BinStart = 2
  Bins = 2
  PageWords = 2
  Slots = 4
  PCs = {0, 1, 3, 5}
  Prologue = 7
  PrologueSize = 4
  BlockSizes = {3, 6, 9}
SPECIFICATION JitSpec
INVARIANTS
  HeapSound
  NoDanglingRecords
  FlushFreesAll
CHECK_DEADLOCK FALSE
