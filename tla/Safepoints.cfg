\* One handle, two Interps, five activations, a poll every second op.
CONSTANTS
  Handles = {h1}
  Interps = {i1, i2}
  Period = 2
  MaxFrames = 5
  HostContract = TRUE
SPECIFICATION Spec
INVARIANTS TypeOK NothingLost CountersTellTheStack EntriesGuarded
PROPERTIES ServedAtRest ServedInTime
CHECK_DEADLOCK FALSE
