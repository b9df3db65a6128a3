CONSTANTS
    language = language
    d1 = d1
    d2 = d2
    s1 = s1
    s2 = s2
    Default = default
    None = None
    Checks = {language}
    Details = {d1, d2}
    Outcomes <- SmallOutcomes
    Own <- OwnRecords
    Subjects = {s1, s2}
    MaxObservations = 3
    MaxSettled = 2
SPECIFICATION Spec
CHECK_DEADLOCK FALSE
INVARIANTS
    NothingVanishes
    HistoryIsObserved
    DecidedByOwners
