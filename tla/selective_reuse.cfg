CONSTANTS
    Consumers <- TwoConsumers
    Tracked = {"tracked"}
    Selections <- OneBatch
    Capacity = 2
    MaxCalls = 2
    MaxMoves = 1
    None = None
SPECIFICATION Spec
CHECK_DEADLOCK FALSE
INVARIANTS
    ReusesOrRuns
