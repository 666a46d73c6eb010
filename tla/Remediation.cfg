CONSTANTS
    r1 = r1
    r2 = r2
    r3 = r3
    Requests = {r1, r2}
    NeedsTtml = TRUE
    Faults = {"throw", "lostReply", "commit", "crash"}
    MaxFailures = 2
    MaxObjects = 3
SPECIFICATION Spec
INVARIANTS RowsHaveObjects RunningHasHandler CompletedHasAsset LeaksArePaidFor
PROPERTY FrozenWhileRunning
SYMMETRY Interchangeable
CHECK_DEADLOCK FALSE
