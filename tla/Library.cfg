SPECIFICATION Device
CONSTANTS
  Store = {1, 2, 3}
  Handle = {1, 2, 3, 4, 5, 6}
  Scenarios <- MCScenarios
CHECK_DEADLOCK FALSE
INVARIANTS AsAsked CacheAgrees StorageSorted SendsIfRoom ListsAll FoldersInPlace ReadsBack WholeOrNone
