CONSTANTS
    a1 = a1
    a2 = a2
    a3 = a3
    r1 = r1
    r2 = r2
    Actors = {a1, a2, a3}
    Requests = {r1, r2}
    Faults = {"throw", "lostReply", "provider", "crash"}
    MaxFailures = 3
    MaxManifests = 2
SPECIFICATION Spec
INVARIANTS OneInFlight SentIsApproved SendsArePaidFor DoneMeansAccepted
PROPERTY GateHolds
SYMMETRY Interchangeable
CHECK_DEADLOCK FALSE
