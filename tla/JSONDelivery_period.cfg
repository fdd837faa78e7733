SPECIFICATION FairSpec
CONSTANTS
  Fields = {1, 2}
  Capacity = 1
  MaxRetries = 1
  MaxUpdates = 2
  MaxLate = 1
INVARIANTS TypeOK
PROPERTIES ServerNotSetBack StateArrives
CHECK_DEADLOCK FALSE
