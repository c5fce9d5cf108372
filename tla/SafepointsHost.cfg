\* A host that enters compiled code directly although collecting is on.
CONSTANTS
  Handles = {h1}
  Interps = {i1}
  Period = 2
  MaxFrames = 4
  HostContract = FALSE
SPECIFICATION Spec
INVARIANT EntriesKeepTheirState
CHECK_DEADLOCK FALSE
