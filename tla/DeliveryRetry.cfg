CONSTANTS
    a1 = a1
    a2 = a2
    a3 = a3
    r1 = r1
    r2 = r2
    Actors = {a1, a2}
    Requests = {r1}
    Faults = {"throw", "provider"}
    MaxFailures = 1
    MaxManifests = 2
SPECIFICATION FairSpec
PROPERTIES ReceiptStopsSending SubmittingEnds
CHECK_DEADLOCK FALSE
