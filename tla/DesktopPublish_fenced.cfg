CONSTANTS
    w1 = w1
    w2 = w2
    w3 = w3
    x1 = x1
    Original = Original
    Absent = Absent
    Damaged = Damaged
    None = None
    Writers <- TwoWriters
    Others <- OneOther
    KindsTried <- Kinds
    Racy = FALSE
    Faults <- FencedFaults
    MaxFaults = 2
    MaxWrites = 1
    MaxTime = 1
SPECIFICATION PromptSpec
SYMMETRY WriterSymmetry
CHECK_DEADLOCK FALSE
INVARIANTS
    NothingLost
    CompletedIsRecoverable
    ConflictIsReal
PROPERTIES
    ImplementsAtomicSave
