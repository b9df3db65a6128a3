CONSTANTS
    Producers <- TwoProducers
    Checks <- ThreeChecks
    Owner <- Owners
    Required <- TwoRequired
    Workflows <- AllWorkflows
    MaxRevision = 1
    MaxAttempts = 2
    MaxEdits = 1
    MaxLate = 1
    MayFail = {"language"}
    None = None
SPECIFICATION Spec
CHECK_DEADLOCK FALSE
INVARIANTS
    EvidenceIsSealed
    EvidenceIsOfOneContract
    SealsItsOwnRun
    GreenIsWhole
    ProposalIsObserved
