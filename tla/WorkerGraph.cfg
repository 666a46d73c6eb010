CONSTANTS
    i1 = i1
    i2 = i2
    Invocations = {i1, i2}
    StartInputs <- MCStartInputs
    Updates <- MCUpdates
    SubtitleFindings <- MCSubtitleFindings
    RightsFindings <- MCRightsFindings
    RepairSrt <- MCRepairSrt
    MaxCalls = 4
SPECIFICATION Spec
INVARIANTS TypeOK KeyNamesCommand PackagedIsFit ReportsAgree
PROPERTY PromiseKept
SYMMETRY Interchangeable
CHECK_DEADLOCK FALSE
