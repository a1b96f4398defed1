SPECIFICATION Spec
CONSTANTS
  Frames = 7
  FrameSize = 1
  MaxPackets = 3
  MaxRanges = 2
  MaxNackPackets = 2
  MaxAttempts = 1
  MaxTrouble = 0
INVARIANTS NoSilentLoss
CHECK_DEADLOCK FALSE
