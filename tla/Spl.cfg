SPECIFICATION Spec
CONSTANTS
  Handle = {1, 2, 3, 4, 5, 6, 7, 8, 9}
  Scenarios <- MCScenarios
CHECK_DEADLOCK FALSE
INVARIANTS ReadsBack AsAsked
