SPECIFICATION Spec
CONSTANTS
    TreeCheck = "group"
    MaxFaults = 0
    MaxCrashes = 1
    MaxRuns = 2
    MaxSaves = 0
INVARIANTS
    MissingTargetIsRecoverable
CHECK_DEADLOCK FALSE
