SPECIFICATION FairSpec
CONSTANTS
    TreeCheck = "group"
    MaxFaults = 2
    MaxCrashes = 2
    MaxRuns = 3
    MaxSaves = 1
INVARIANTS
    OldKeptUntilAcknowledged
    CompletedMeansAcknowledged
    LauncherFailsOnlyUntouched
    BadUpdateIsUndone
    RolledBackMeansOld
PROPERTIES
    NoRollbackUnderRunningTree
    NoReplacementWhileRunning
    PortableDataCurrent
    ImplementsSafeReplacement
    HelperEnds
    LaunchEnds
CHECK_DEADLOCK FALSE
