CONSTANTS
    Providers <- TwoProviders
    Extra = "extra"
    Boundaries <- SomeBoundaries
SPECIFICATION Spec
CHECK_DEADLOCK FALSE
INVARIANTS
    BadgeIsEarned
    ConsumedIsPackaged
    GreenJob
    BadgeIsCurrent
    NothingHidden
