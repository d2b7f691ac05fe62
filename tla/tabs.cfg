SPECIFICATION FairTabSpec
CONSTANTS
    Students = {}
    Parents = {p1}
    Advisors = {a1}
    Milestones = 1
    LastVersion = 4
    MaxOrphans = 1
CHECK_DEADLOCK FALSE
INVARIANTS
    ReceiptsReconcile
PROPERTIES
    DropsOnlyUndone
    CommandsSettle
