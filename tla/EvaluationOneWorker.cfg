CONSTANTS
    r1 = r1
    r2 = r2
    w1 = w1
    w2 = w2
    h1 = h1
    Requests = {r1, r2}
    Workers = {w1}
    Handlers = {h1}
    WorkerIds = {"host"}
    WorkerId <- SharedId
    Source <- SourceOfManifest
    Ops = {"queue", "upload"}
    Faults = {"workerCrash"}
    MaxRuns = 3
    MaxAttempts = 2
    MaxManifests = 2
SPECIFICATION FairSpec
PROPERTIES QueuedRunLeaves ResultMatchesInput
CHECK_DEADLOCK FALSE
