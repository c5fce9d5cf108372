CONSTANTS
  Sessions = {s1, s2}
  Names = {"g"}
  TypeNames = {"number", "string", "symbol"}
  Versions <- Stable
  TcModes = {TRUE}
  MaxMoves = 4
  EditsAnyTime = FALSE
SYMMETRY Sym
SPECIFICATION Spec
INVARIANTS ReplaysAligned
PROPERTIES RepeatsReplay 
CHECK_DEADLOCK FALSE
