SPECIFICATION Spec
CONSTANTS
  Handle = {1, 2, 3}
  Contents <- MCContents
  Scenarios <- Moves
CHECK_DEADLOCK FALSE
INVARIANTS AllFiles
