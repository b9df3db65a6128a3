CONSTANTS
    s1 = s1
    s2 = s2
    Sessions <- TwoSessions
    NoSession = NoSession
    TTL = 3
    MaxRun = 1
    Slack = 1
    Zones <- UTC
    Heads <- MeasuredOnly
    ApiLag = TRUE
    MaxTime = 6
    MaxCalls = 3
    MaxOthers = 1
SYMMETRY SessionSymmetry
SPECIFICATION Spec
CHECK_DEADLOCK FALSE
INVARIANTS
    TypeOK
    RunsSpaced
    HeldMeansRecentClaim
    RecordedRunFollowsClaim
PROPERTIES
    ImplementsLease
