SPECIFICATION Spec
CONSTANTS
  MaxPieces = 3
  ChannelSize = 2
  MaxChunks = 2
  MaxSenderRestarts = 1
  MaxReceiverRestarts = 0
INVARIANTS DeliveredWhole
CHECK_DEADLOCK FALSE
