SPECIFICATION Spec
CONSTANTS
  Sources <- MC_SourcesTwo
  Rate <- MC_TwoRates
  ChunkTicks = 1
  ErrBound = 1
  TDOALength = 1
  SyncInterval = 1
  ChannelTimeout = 3
  MinSources = 2
  Layouts = {1, 2}
  MaxBoot = 1
  MaxFaults = 2
  MaxTime = 4
INVARIANTS TypeOK StoresAgree GapsBounded TDOAWellFormed
PROPERTIES EmissionsSpaced
