SPECIFICATION PortsSpec
CONSTANTS
  Refusals = {"Busy"}
  Scenarios <- All
CHECK_DEADLOCK FALSE
INVARIANTS LeavesNothing OwnAnswer InSession OkIsOwn
PROPERTIES OpensAfterCrash CallsSpec Returns
