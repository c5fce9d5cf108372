CONSTANTS
  Sessions = {s1}
  Names = {"g"}
  TypeNames = {"number", "string", "symbol"}
  Versions <- Edited
  TcModes = {TRUE, FALSE}
  MaxMoves = 5
  EditsAnyTime = FALSE
SPECIFICATION Spec
INVARIANTS TypeOK NoTornLeft
PROPERTIES ImplementsLoad GensymNeverReused
CHECK_DEADLOCK FALSE
