CONSTANTS
    Members <- TwoMembers
    Standard = "standard"
    MaxRevision = 2
    FirstHead <- FirstHeads
    Outcomes <- MostlyPassing
    LastRevision <- LastRevisions
    Recorded <- RecordedIn
    Required <- RequiredBy
    Tolerated <- ToleratedBy
    Floor <- Floors
    Pins <- OnePin
    Pinned <- PinnedBy
    Unclassified <- UnclassifiedDelta
    MaxPasses = 2
    MaxCommits = 1
    None = None
SPECIFICATION Spec
CHECK_DEADLOCK FALSE
INVARIANTS
    ReplayedIsEarned
    TierIsHonest
    ProposalIsBound
    IdentityHolds
    UninterruptedPassReplays
