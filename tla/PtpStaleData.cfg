SPECIFICATION Spec
CONSTANTS
  Refusals = {"Busy"}
  Scenarios <- Simple
CHECK_DEADLOCK FALSE
INVARIANTS DataIsOwn
