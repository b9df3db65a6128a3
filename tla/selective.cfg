CONSTANTS
    Consumers <- TwoConsumers
    Tracked = {"tracked"}
    Selections <- SomeSelections
    Capacity = 2
    MaxCalls = 2
    MaxMoves = 2
    None = None
SPECIFICATION Spec
CHECK_DEADLOCK FALSE
INVARIANTS
    TypeOK
    PassIsEarned
    ReuseIsCurrent
