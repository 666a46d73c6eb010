CONSTANTS
    r1 = r1
    r2 = r2
    w1 = w1
    w2 = w2
    h1 = h1
    Requests = {r1}
    Workers = {w1, w2}
    Handlers = {}
    WorkerIds = {"host"}
    WorkerId <- SharedId
    Source <- SourceOfManifest
    Ops = {"validate", "run", "queue"}
    Faults = {"throw", "lostReply", "workerCrash", "slowLease"}
    MaxRuns = 2
    MaxAttempts = 2
    MaxManifests = 1
SPECIFICATION Spec
INVARIANT AttemptsDistinct
 
SYMMETRY Interchangeable
CHECK_DEADLOCK FALSE
