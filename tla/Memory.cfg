SPECIFICATION Spec
CONSTANTS
  DataEnd = 4
  StackSize = 24
  MemBytes = 72
  Word = 128
  Depth = 2
  CallStack = 56
  FrameSizes = {16, 32}
  Magnitudes = {0, 1, 15}
  Widths = {4, 8}
INVARIANTS
  ArraysApart
  ArraysInMemory
  StackBelowHeap
  ReturnsToStart
CHECK_DEADLOCK FALSE
