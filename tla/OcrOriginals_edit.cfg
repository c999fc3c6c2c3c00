CONSTANTS
    Revisions = {v1, v2}
    Restorers = {q1}
    NoFile = NoFile
    NoOne = NoOne
    Overlaps = {"edit"}
    MaxPasses = 1
    MaxEdits = 1
    MaxDeletes = 0
    MaxCrashes = 0
SPECIFICATION OcrSpec
CHECK_DEADLOCK FALSE
INVARIANTS
    OriginalsAreKept
