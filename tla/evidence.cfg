SPECIFICATION LiveSpec
CONSTANTS
    Terminals = {"t1", "t2"}
    RunRoots = {"a", "b"}
    Sources = {"s1", "s2"}
    Holdouts <- SomeHoldouts
    Samples <- AllSamples
    MaxFaults = 1
CHECK_DEADLOCK FALSE
INVARIANTS
    SetupDescribesStore
    FrozenBeforeReveal
    VerdictSound
PROPERTIES
    LoopConcludes
