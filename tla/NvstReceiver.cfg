SPECIFICATION Spec
CONSTANTS
  Frames = 3
  FrameSize = 2
  MaxPackets = 4
  MaxRanges = 2
  MaxNackPackets = 2
  MaxAttempts = 1
  MaxTrouble = 1
INVARIANTS NoSilentLoss NacksAreAbsent
PROPERTY HandsOver
CHECK_DEADLOCK FALSE
