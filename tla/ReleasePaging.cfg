CONSTANTS
    Created = 3
    Ids <- MCIds
    Limit = 1
    Fraction = 2
    MaxTime = 3
    MaxOpen = 1
SPECIFICATION Spec
INVARIANTS TypeOK UntouchedAreShown
CHECK_DEADLOCK FALSE
