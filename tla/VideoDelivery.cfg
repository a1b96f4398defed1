SPECIFICATION FairSpec
CONSTANTS
  Cycle = 2
  QueueCap = 2
  DecoderCap = 1
  IngressCap = 1
  MaxTrouble = 1
  MaxScenes = 2
INVARIANTS QueueIsOneChain
PROPERTIES BreakIsMended PictureReturns
CHECK_DEADLOCK FALSE
