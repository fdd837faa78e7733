SPECIFICATION FairSpec
CONSTANTS
  Sizes = {3, 4, 5}
  ReadSize = 4
  Room = 6
  MaxFrames = 4
INVARIANTS TypeOK StreamAccounted DiesOfBrokenFrame
PROPERTIES RefinesQueue StreamEnds FrameFlows
CHECK_DEADLOCK FALSE
