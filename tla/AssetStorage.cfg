CONSTANTS
    r1 = r1
    r2 = r2
    Requests = {r1, r2}
    Kinds = {"VIDEO", "SUBTITLE", "RIGHTS"}
    Contents <- SmallContents
    MaxBytes = 2
    PostLimit = 1
    TextLimit = 1
    Faults = {"throw", "commit", "crash", "outage"}
    MaxFailures = 2
    MaxRestarts = 1
    MaxFiles = 2
SPECIFICATION Spec
INVARIANTS RowsAreServed RowsAreUsable StraysArePaidFor
PROPERTY StoreIsAtomic
SYMMETRY Interchangeable
CHECK_DEADLOCK FALSE
