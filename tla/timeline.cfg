SPECIFICATION Spec
CONSTANTS
    Students = {s1}
    Parents = {p1}
    Advisors = {a1}
    Milestones = 2
    MaxVersion = 5
    MaxCalls = 2
CHECK_DEADLOCK FALSE
INVARIANTS
    CommitOrder
    RecordSound
    HandoffProven
PROPERTIES
    ImplementsProgress
