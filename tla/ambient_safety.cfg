CONSTANTS
    h1 = h1
    h2 = h2
    o1 = o1
    ci = ci
    Hosts <- TwoHosts
    Obligations <- OneObligation
    Workflows <- OneWorkflow
    Binding <- SharedBinding
    MaxDispatches = 1
    MaxAttempts = 1
    Reliable = FALSE
    MaxRevision = 2
    MaxRuns = 2
SYMMETRY HostSymmetry
SPECIFICATION Spec
CHECK_DEADLOCK FALSE
INVARIANTS
    CurrentIsProved
    InFlightAtMostOne
    OnlyPublishedRequested
    AttemptsBounded
