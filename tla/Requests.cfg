CONSTANTS
    ada = ada
    bob = bob
    Identities <- TwoIdentities
    Inputs <- MixedInputs
    Concurrency = 1
    MaxJobs = 3
    Submissions = 4
    w1 = w1
    w2 = w2
    w3 = w3
    x1 = x1
    Original = Original
    Absent = Absent
    Damaged = Damaged
    None = None
    Writers <- TwoWriters
    Others <- OneOther
    KindsTried <- Kinds
    Racy = FALSE
    Faults <- EndingFaults
    MaxFaults = 2
    MaxWrites = 0
    MaxTime = 1
    MaxRequests = 4
    MaxCalls = 2
    Meetings <- AloneOrWithReplies
    k1 = k1
    k2 = k2
    Leases = {k1, k2}
    LeaseUses <- SaveMeetsAny
    NoLease = NoLease
    MaxLosses = 1
    MaxOutside = 1
    MaxBreaks = 3
    MaxPayloads = 2
SPECIFICATION RequestsSpec
CHECK_DEADLOCK FALSE
INVARIANTS
    RequestsTypeOK
    SlotsMatchRunningJobs
    UnsettledJobsAreHeld
    OnlyLateReportsPrecedeHistory
    RetryIsSafe
    CardsCanBeAnswered
    OneListener
PROPERTIES
    ImplementsJobService
    ReplacesWhatItProved
    CardsAreFinal
    EveryRequestSettles
