SPECIFICATION Spec
CONSTANTS
  Sources <- MC_SourcesFour
  Rate <- MC_OneRate
  ChunkTicks = 1
  ErrBound = 1
  TDOALength = 1
  SyncInterval = 0
  ChannelTimeout = 3
  MinSources = 3
  Layouts = {1}
  MaxBoot = 0
  MaxFaults = 0
  MaxTime = 3
INVARIANTS PositionsReceived
