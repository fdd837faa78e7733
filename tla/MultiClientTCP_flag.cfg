SPECIFICATION Spec
CONSTANTS
  Clients = {c1}
  Nobody = nobody
  PortCount = 4
  BasePort = 1
  MaxRequests = 2
INVARIANTS FlagTruthful
CHECK_DEADLOCK FALSE
