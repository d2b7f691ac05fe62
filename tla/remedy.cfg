SPECIFICATION DiligentSpec
CONSTANTS
    Operations = {"synthetic", "mixed"}
    MaxRevision = 3
    Workers = {w1}
    NoWorker = NoWorker
    MaxTasks = 3
    MaxAttempts = 1
    LeaseTicks = 1
CHECK_DEADLOCK FALSE
PROPERTY
    BlockedRunRemediable
