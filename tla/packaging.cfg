CONSTANTS
    Actions <- AllActions
    MaxExecutions = 2
SPECIFICATION JobSpec
CHECK_DEADLOCK FALSE
INVARIANTS
    TypeOK
    AcceptedIsOneExecution
    AcceptedCheckIsTheManifests
    GreenIsPackaged
    GreenIsFresh
    DebugIsOfThisFailure
