CONSTANTS
    w1 = w1
    w2 = w2
    w3 = w3
    x1 = x1
    Original = Original
    Absent = Absent
    Damaged = Damaged
    None = None
    Writers <- TwoWriters
    Others <- OneOther
    KindsTried <- SavesOnly
    Racy = FALSE
    Faults <- DamageOnly
    MaxFaults = 1
    MaxWrites = 0
    MaxTime = 0
SPECIFICATION FairSpec
CHECK_DEADLOCK FALSE
PROPERTIES
    EveryCommitEnds
