SPECIFICATION Spec
CONSTANTS
    Operations = {"synthetic", "mixed"}
    MaxRevision = 2
    Workers = {w1, w2}
    NoWorker = NoWorker
    MaxTasks = 3
    MaxAttempts = 1
    LeaseTicks = 1
SYMMETRY WorkerSymmetry
CHECK_DEADLOCK FALSE
INVARIANTS
    WorkFresh
    RecordsAgree
    LedgerAgrees
    OffersAccepted
