\* A capped heap or the live one, grow-only and then in request mode; three
\* one-slot blocks.
CONSTANTS
  Block = 1
  MaxBlocks = 3
  Kinds = {"Cons", "Closure"}
  MaxEdges = 1
  MaxLocals = 2
  MaxGlobals = 1
  MaxBorrows = 1
  Modes = {TRUE, FALSE}
  Cap = 2
  Floor = 1
  UsizeMax = 100
SPECIFICATION Spec
INVARIANTS TypeOK NoUseAfterFree PayloadReleasedOnce SlotsAccounted NoSilentGrowth
PROPERTIES PoisonedNeverReclaims ImplementsStore
CHECK_DEADLOCK FALSE
