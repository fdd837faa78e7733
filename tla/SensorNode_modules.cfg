SPECIFICATION Spec
CONSTANTS
  ChunkSize = 3
  SampleRates = {1, 2}
  FirstStamp = 7
  SleepModulus = 2
  RingSize = 7
  Files <- MC_Files
  MaxFixes = 4
  MaxPositions = 6
  Period = 3
  Modulus = 64
  MaxTime = 22
  MaxChunks = 4
  MaxReads = 14
  MaxSteps = 2
  HeaderSize = 3
  SizeModulus = 16
  MaxSize = 40
  MaxLength = 24
INVARIANTS TypeOK StampsFollowSamples StampsCaptured PlayedInTurn LockedPositionsFixed LimitedByTime SegmentsCover
CHECK_DEADLOCK FALSE
