CONSTANTS
    Operations = {"synthetic", "mixed"}
    MaxRevision = 4
    Scopes <- MCScopes
    Intakes = {"2027-02", "2028-02", "2029-02"}
    Budgets <- MCBudgets
    MaxMoves = 2
    MaxVersion = 3
    Supported = {1, 2, 3}
    Scope <- MCScope
    Passing <- MCPassing
    Keys = {k1}
    TaskKeys = {t1, t2}
    Servers = {s1, s2}
    NoCall = NoCall
    MaxEvents = 4
    MaxTasks = 2
SPECIFICATION SideSpec
SYMMETRY ServerSymmetry
CHECK_DEADLOCK FALSE
INVARIANTS
    RunsJustified
    ComparisonExplained
    SeedRepeatable
    ChainJustified
    ScopeNeverGrows
PROPERTIES
    HistoryKept
    EffectOnce
