SPECIFICATION Spec
CONSTANTS
  stereo = stereo
  mono = mono
  Sources = {stereo, mono}
  Channels <- MC_Channels
  Period = 1
  MaxInput = 3
  MaxLost = 1
  MaxSecond = 1
INVARIANTS TypeOK DirectionsMatched RecordingsComplete
