SPECIFICATION PortsSpec
CONSTANTS
  Unit = {"one", "two"}
  Address = {1, 2, 3}
  Model = {"m", "n"}
  Scenarios <- MCScenarios
CHECK_DEADLOCK FALSE
INVARIANTS Owned AsPromised Agreed EventsAccounted
PROPERTIES LosesNothing
