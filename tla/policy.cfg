CONSTANTS
    Requests <- MC_Requests
    Replacements <- MC_Replacements
SPECIFICATION RequestSpec
INVARIANTS
    QueueIsBudgetedPrefix
    DispatchIsJustified
PROPERTIES
    VerdictNeverDecides
