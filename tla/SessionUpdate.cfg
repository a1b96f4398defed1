SPECIFICATION Spec
CONSTANTS
    Workers = {w1, w2}
    NoWorker = NoWorker
    MaxTransactions = 2
    MaxSessions = 2
    MaxExits = 0
SYMMETRY WorkerSymmetry
INVARIANTS
    NoTransitionUnderUpdate
    OneHelper
    BusyStatusHasOwner
    DownloadStaysInstallable
CHECK_DEADLOCK FALSE
