SPECIFICATION FairSpec
CONSTANTS
  Peers = {p1, p2}
  Room = 1
  MaxConnections = 2
  MaxChunks = 2
INVARIANTS TypeOK FlagTruthful ChunksTracked
PROPERTIES DeadNoticed
CHECK_DEADLOCK FALSE
