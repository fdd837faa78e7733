SPECIFICATION Spec
CONSTANTS
  MaxPieces = 3
  ChannelSize = 2
  MaxChunks = 3
  MaxSenderRestarts = 0
  MaxReceiverRestarts = 1
INVARIANTS DeliveredWhole IInv
PROPERTIES RefinesRelay
CHECK_DEADLOCK FALSE
