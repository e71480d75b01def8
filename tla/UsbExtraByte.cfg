SPECIFICATION Spec
CONSTANTS
  Packet = 5
  Block = 15
  HdrLen = 2
  First = 8
  Sizes <- MCEdges
  Missing = {0}
  Devices <- ExtraByte
  MaxCalls = 1
  MaxFaults = 0
CHECK_DEADLOCK FALSE
INVARIANTS ExtraDiscarded
