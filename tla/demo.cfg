CONSTANT MaxFaults = 2
SPECIFICATION TabSpec
INVARIANT ActsAsMeant
PROPERTY BudgetAsSaid ReachesPlan
CHECK_DEADLOCK FALSE
