CONSTANTS
  Sessions = {s1}
  Names = {"g"}
  TypeNames = {"number", "string", "symbol"}
  Versions <- HalfDone
  TcModes = {TRUE, FALSE}
  MaxMoves = 5
  EditsAnyTime = FALSE
SPECIFICATION Spec
PROPERTIES ImplementsLoad
CHECK_DEADLOCK FALSE
