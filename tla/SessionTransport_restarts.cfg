SPECIFICATION FairSpec
CONSTANTS
  MaxPieces = 3
  ChannelSize = 2
  MaxChunks = 3
  MaxSenderRestarts = 1
  MaxReceiverRestarts = 1
INVARIANTS PiecesConsecutive
PROPERTIES IntactDelivered
CHECK_DEADLOCK FALSE
