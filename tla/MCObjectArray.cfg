SPECIFICATION Spec
CONSTANTS
  Handle <- MCHandle
  Info = {none, known}
  NoInfo = none
INVARIANTS Sorted RightObject
PROPERTIES SearchEnds MapSpec
