CONSTANTS
    o1 = o1
    o2 = o2
    o3 = o3
    n1 = n1
    r1 = r1
    r2 = r2
    None = None
    Objects <- TwoObjects
    Newcomers <- OneNewcomer
    Requests <- OneRequest
    CopyConcurrency = 2
    Faults <- NewcomerOnly
    MaxFailures = 0
SPECIFICATION Spec
SYMMETRY ObjectSymmetry
CHECK_DEADLOCK FALSE
PROPERTIES
    RemovalFollowsCopy
