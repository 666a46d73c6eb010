CONSTANTS
    r1 = r1
    r2 = r2
    w1 = w1
    w2 = w2
    h1 = h1
    Requests = {r1, r2}
    Workers = {}
    Handlers = {}
    WorkerIds = {"host"}
    WorkerId <- SharedId
    Source <- SourceOfManifest
    Ops = {"run", "approve"}
    Faults = {}
    MaxRuns = 2
    MaxAttempts = 1
    MaxManifests = 1
SPECIFICATION Spec
PROPERTY OldRunKeepsOff
SYMMETRY Interchangeable
CHECK_DEADLOCK FALSE
