\* Compiled code: a trap-error that catches the cancellation.
CONSTANTS
  MaxBudget = 3
  Period = 3
  MaxDepth = 3
  Engines = {"walk", "aot"}
SPECIFICATION Spec
INVARIANTS CancellationSurfaces
CHECK_DEADLOCK FALSE
