CONSTANTS
    h1 = h1
    h2 = h2
    o1 = o1
    ci = ci
    Hosts <- OneHost
    Obligations <- OneObligation
    Workflows <- OneWorkflow
    Binding <- SharedBinding
    MaxDispatches = 1
    MaxAttempts = 2
    Reliable = TRUE
    MaxRevision = 2
    MaxRuns = 2
SPECIFICATION FairSpec
CHECK_DEADLOCK FALSE
PROPERTIES
    EvidenceIsAdmitted
