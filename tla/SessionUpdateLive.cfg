SPECIFICATION FairSpec
CONSTANTS
    Workers = {w1, w2}
    NoWorker = NoWorker
    MaxTransactions = 1
    MaxSessions = 1
    MaxExits = 1
PROPERTIES
    InstallDecided
CHECK_DEADLOCK FALSE
