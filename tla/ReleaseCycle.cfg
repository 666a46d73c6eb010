CONSTANTS
    Second = 4
    MinDuration = 1
    MaxDuration = 3
    CpsLimit = 3
    Horizon = 4
    Nearer = 3
    Easy = 1
    Hard = 3
    FirstSubtitles <- First
    NewSubtitles <- Corrected
    FirstWindows <- Now
    NewWindows <- Later
    FirstVideos <- Long
    NewVideos <- Shorter
    WarningWindow = 1
    NeedsTtml = TRUE
    MaxTime = 2
    MaxAssets = 2
    MaxVideos = 2
SPECIFICATION Spec
INVARIANTS TypeOK SentIsFit RepairIsSafe
PROPERTIES ProposalsExecute OneApprovalNoMore
CHECK_DEADLOCK FALSE
