SPECIFICATION Spec
CONSTANTS
    Workers = {w1, w2}
    NoWorker = NoWorker
    MaxTransactions = 1
    MaxSessions = 2
    MaxExits = 0
SYMMETRY WorkerSymmetry
INVARIANTS
    InstallRejectedWithSession
CHECK_DEADLOCK FALSE
