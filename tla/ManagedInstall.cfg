SPECIFICATION FairSpec
CONSTANTS
  MaxReboots = 2
  MaxCrashes = 1
  MaxFaults = 3
PROPERTIES
  CompletedIsTrue
  UpdatesWait
  PendingIsDecided
CHECK_DEADLOCK FALSE
