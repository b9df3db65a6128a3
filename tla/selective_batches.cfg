CONSTANTS
    Consumers <- TwoConsumers
    Tracked = {"tracked"}
    Selections <- TwoBatches
    Capacity = 2
    MaxCalls = 1
    MaxMoves = 0
    None = None
SPECIFICATION Spec
CHECK_DEADLOCK FALSE
INVARIANTS
    BatchesAreAggregated
