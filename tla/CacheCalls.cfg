SPECIFICATION Spec
CONSTANTS
  Handle = {1, 2, 3, 4, 5}
  Contents <- MCContents
  Scenarios <- All
CHECK_DEADLOCK FALSE
INVARIANTS NoStale FullListing WalkFinds
PROPERTIES CallReturns
