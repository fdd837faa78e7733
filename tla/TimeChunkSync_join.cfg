SPECIFICATION Spec
CONSTANTS
  Sources <- MC_SourcesThree
  Rate <- MC_OneRate
  ChunkTicks = 1
  ErrBound = 1
  TDOALength = 1
  SyncInterval = 0
  ChannelTimeout = 3
  MinSources = 2
  Layouts = {1}
  MaxBoot = 2
  MaxFaults = 1
  MaxTime = 4
INVARIANTS HeadLag
PROPERTIES EmissionsAdvance
