SPECIFICATION FairSpec
CONSTANTS
    MaxRequests = 3
    MaxActive = 1
    MaxBackground = 0
    MaxRestarts = 1
    MaxErrors = 1
    MaxCrashes = 1
INVARIANTS
    AtMostOnce
    ToldOnce
    NoDuplicateRefused
    ControlReserve
PROPERTIES
    KeepsPromise
    EveryRequestEnds
    LinkRecovers
CHECK_DEADLOCK FALSE
