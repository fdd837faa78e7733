SPECIFICATION Spec
CONSTANTS
  Sources <- MC_SourcesTwo
  Rate <- MC_OneRate
  ChunkTicks = 1
  ErrBound = 1
  TDOALength = 1
  SyncInterval = 0
  ChannelTimeout = 2
  MinSources = 2
  Layouts = {1}
  MaxBoot = 0
  MaxFaults = 0
  MaxTime = 5
PROPERTIES SilentSourceCleared
