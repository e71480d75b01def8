SPECIFICATION PortsSpec
CONSTANTS
  Packet = 5
  Block = 15
  HdrLen = 2
  First = 8
  Sizes <- MCSizes
  Missing = {0}
  Devices <- MCDevices
  MaxCalls = 2
  MaxFaults = 1
CHECK_DEADLOCK FALSE
INVARIANTS DataExact NothingLeft SendFramed
PROPERTIES CallReturns
