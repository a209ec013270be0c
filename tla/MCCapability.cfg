SPECIFICATION MCSpec
CONSTANTS
    Jobs <- TwoJobs
    Versions <- TwoVersions
    ProbeOf <- Probes
    PlanSets <- TwoPlans
    CaseCount = 1
    PassMark = 1
    MaxEdits = 1
    MaxBreaks = 1
    Entries <- SomeEntries
    Postgres <- BothStores
    MaxRequests = 3
    MaxFailures = 1
INVARIANTS
    Inv
    UserContentIsKept
    ReceiptMeansRestored
    CreatedStays
PROPERTIES
    RollbackSparesEdits
CHECK_DEADLOCK FALSE
