CONSTANTS
    o1 = o1
    o2 = o2
    o3 = o3
    n1 = n1
    r1 = r1
    r2 = r2
    None = None
    Objects <- TwoObjects
    Newcomers <- OneNewcomer
    Requests <- TwoRequests
    CopyConcurrency = 2
    Faults <- FaultKinds
    MaxFailures = 2
SPECIFICATION TrialSpec
CHECK_DEADLOCK FALSE
INVARIANTS
    NoObjectLost
PROPERTIES
    CompletedMeansMoved
    RetriesConverge
