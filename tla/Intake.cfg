CONSTANTS
    b1 = b1
    b2 = b2
    h1 = h1
    h2 = h2
    Browsers = {b1, b2}
    Handlers = {h1, h2}
    Roles = {"Operator", "Approver", "Admin"}
    Ops = {"create", "submit"}
    Spellings = {"small", "capital"}
    Lifetime = 1
    Faults = {"throw", "lostReply", "crash"}
    MaxTime = 1
    MaxLogins = 2
    MaxForms = 2
    MaxPresses = 2
    MaxProjects = 2
    MaxFailures = 1
SPECIFICATION Spec
INVARIANTS TypeOK DuplicatesArePaidFor HalfDoneIsPaidFor CreatedInside ChecksAgree
SYMMETRY Interchangeable
CHECK_DEADLOCK FALSE
