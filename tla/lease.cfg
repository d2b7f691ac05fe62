SPECIFICATION FairSpec
CONSTANTS
    Operations = {"synthetic"}
    MaxRevision = 2
    Workers = {w1, w2}
    NoWorker = NoWorker
    MaxTasks = 1
    MaxAttempts = 3
    LeaseTicks = 4
CHECK_DEADLOCK FALSE
INVARIANTS
    OneHolder
    HistoryTruthful
PROPERTIES
    LeaseRespected
    ImplementsContract
