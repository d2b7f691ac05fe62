SPECIFICATION Spec
CONSTANTS
    Operations = {"synthetic"}
    MaxRevision = 2
    Workers = {w1}
    NoWorker = NoWorker
    MaxTasks = 2
    MaxAttempts = 1
    LeaseTicks = 1
CHECK_DEADLOCK FALSE
INVARIANTS
    LedgerServed
