\* Every engine; the limits, and the evaluations that only interpret.
CONSTANTS
  MaxBudget = 3
  Period = 3
  MaxDepth = 3
  Engines = {"walk", "vm", "aot"}
SPECIFICATION FairSpec
INVARIANTS TypeOK WithinBudget WithinPeriod CancellationUnwinds
PROPERTIES LimitedEnds
CHECK_DEADLOCK FALSE
