CONSTANTS
    a1 = a1
    a2 = a2
    a3 = a3
    p1 = p1
    p2 = p2
    None = None
    Attempts <- TwoAttempts
    Processes <- TwoProcesses
SPECIFICATION Spec
SYMMETRY Symmetry2
CHECK_DEADLOCK FALSE
INVARIANTS
    PayloadPreserved
PROPERTIES
    LosersLeaveTheRow
    DecisionsStand
