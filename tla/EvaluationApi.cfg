CONSTANTS
    r1 = r1
    r2 = r2
    w1 = w1
    w2 = w2
    h1 = h1
    Requests = {r1, r2}
    Workers = {}
    Handlers = {}
    WorkerIds = {"host"}
    WorkerId <- SharedId
    Source <- SourceOfManifest
    Ops = {"validate", "run", "queue", "approve", "reject", "upload"}
    Faults = {"throw", "lostReply", "apiCrash"}
    MaxRuns = 3
    MaxAttempts = 1
    MaxManifests = 2
SPECIFICATION Spec
INVARIANTS ApiRunsSerial ClaimOwnsState
PROPERTY RestoreSparesNewer
SYMMETRY Interchangeable
CHECK_DEADLOCK FALSE
