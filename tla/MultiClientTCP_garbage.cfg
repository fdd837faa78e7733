SPECIFICATION Spec
CONSTANTS
  Clients = {c1, c2}
  Nobody = nobody
  PortCount = 4
  BasePort = 1
  MaxRequests = 2
INVARIANTS PortWasAllocated
CHECK_DEADLOCK FALSE
