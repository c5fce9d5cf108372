\* Constant live set of one leaf node, every request served at once.
CONSTANTS
  Block = 1
  MaxBlocks = 6
  Kinds = {"Float"}
  MaxEdges = 0
  MaxLocals = 1
  MaxGlobals = 0
  MaxBorrows = 0
  Modes = {FALSE}
  Cap = 0
  Floor = 1
  UsizeMax = 100
SPECIFICATION PromptSpec
INVARIANTS BoundedHeap
CHECK_DEADLOCK FALSE
