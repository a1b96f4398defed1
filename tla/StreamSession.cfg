SPECIFICATION FairSpec
CONSTANTS
    AttemptLimit = 1
    MaxReconnects = 2
    MaxTrouble = 2
    MaxRetries = 1
    MaxStops = 1
    Prompt = TRUE
INVARIANTS
    ShownMeansAlive
PROPERTIES
    RecoversAfterStop
    EndIsNoticed
    RecoveryDecided
CHECK_DEADLOCK FALSE
