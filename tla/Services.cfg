CONSTANTS
    r1 = r1
    r2 = r2
    a1 = a1
    a2 = a2
    b1 = b1
    A = A
    B = B
    w1 = w1
    w2 = w2
    c1 = c1
    c2 = c2
    pa = pa
    pb = pb
    s1 = s1
    s2 = s2
    x = x
    y = y
    doc = doc
    sheet = sheet
    Requests = {r1, r2}
    Streams = {r2}
    Disturbances = 2
    Callers = {a1, a2, b1}
    Owner <- CallerOwner
    PoolSize = 2
    MaxAttempts = 2
    Drops = 1
    Hung = {A, B}
    Processes = {w1, w2}
    Commits = {c1, c2}
    Rename <- RenameThenSave
    Paths = {pa, pb}
    Bystanders = 1
    Breakdowns = 1
    OfficeFiles = {doc, sheet}
    LockIds = {x, y}
    WopiRequests = {s1, s2}
    WopiScripts <- OfficeScripts
    LockTTL = 2
    PruneLimit = 1
    LastTick = 2
    Aborts = 1
    v1 = v1
    v2 = v2
    q1 = q1
    Revisions = {v1, v2}
    Restorers = {q1}
    NoFile = NoFile
    NoOne = NoOne
    Overlaps = {}
    MaxPasses = 2
    MaxEdits = 2
    MaxDeletes = 1
    MaxCrashes = 1
    MaxStarts = 2
    RetryAfter = 2
    StaleAfter = 1
    UnreachableAfter = 3
    MaxSaves = 2
    MaxOutages = 3
    MaxExits = 3
    WorkerCount = 2
    DeliveryCount = 2
    MaxCaptures = 2
    MaxAsks = 2
    MaxTrouble = 1
    FileCount = 2
    PoolWorkers = 1
    MaxChanges = 3
    MaxMishaps = 2
SPECIFICATION ServicesSpec
CHECK_DEADLOCK FALSE
INVARIANTS
    ServicesTypeOK
    PublishesAlone
    EffectsInOrder
    EventFollowsMetadata
    LeasesAreKept
    OriginalsAreKept
    OffWithinWindow
    CompleteMeansVerified
    RetryIsFresh
    CacheAgreesWithRow
    ScanRepairsIndex
PROPERTIES
    RefusedOnlyBehindPublications
    RowMovesForward
    ImplementsEffectLog
    SaveKeepsItsLock
    RestoreStands
    SavesSurviveRestores
    NothingPinnedIsRemoved
    EveryServiceSettles
