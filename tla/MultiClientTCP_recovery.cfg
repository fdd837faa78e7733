SPECIFICATION FairSpec
CONSTANTS
  Clients = {c1, c2}
  Nobody = nobody
  PortCount = 2
  BasePort = 1
  MaxRequests = 2
INVARIANTS TypeOK ThreadsAccounted ConnectedHasThread
PROPERTIES RequestsEnd DeadSocketNoticed
CHECK_DEADLOCK FALSE
