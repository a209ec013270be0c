SPECIFICATION FairSpec
CONSTANTS
    Adapters = {"codex", "cursor"}
    Cases = 2
    Threshold = 1
    MaxCommands = 1
    MaxErrors = 1
    MaxTasks = 2
    MaxFaults = 1
INVARIANTS
    IInv
    EventsAreStoredOnce
    QuietSessionsHaveEnded
PROPERTIES
    VerificationsEnd
    RefusedStartsFail
CHECK_DEADLOCK FALSE
