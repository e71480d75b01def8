SPECIFICATION Spec
CONSTANTS
  Packet = 5
  Block = 15
  HdrLen = 2
  First = 8
  Sizes <- MCEdges
  Missing = {0, 1}
  Devices <- PlainOnly
  MaxCalls = 1
  MaxFaults = 0
CHECK_DEADLOCK FALSE
PROPERTIES SendReturns
