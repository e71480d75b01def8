SPECIFICATION Everything
CONSTANTS
  Byte = 4
  cachetime = 2
  Scenarios <- MCScenarios
CHECK_DEADLOCK FALSE
INVARIANTS ReadsWhole OnePerHandle Layout StoresAllowed KnowsCamera KnowsPlayer
