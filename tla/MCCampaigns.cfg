SPECIFICATION CampaignsSpec
CONSTANTS
    Recipients = {r1, r2}
    Workers = {w1}
    ChanCap = 1
    BatchSize = 1
    MinEmailsBeforeBounceCheck = 1
    MaxBounceRatePercent = 5
    InitiallySuppressed = {}
    LaterSuppressed = {}
    UseKumoHTTPAPI = TRUE
    ConnectFails = FALSE
    DBErrors = TRUE
    TallyCap = 1
    MaxRequests = 2
    MaxCrashes = 0
    Recips = {s1, s2}
    Listed = {s1}
    Hits = {h1, h2}
    MaxMails = 1
    TrackErrors = 1
    Waiting = {v1, v2}
    Burst = 2
    IdleTicks = 3
    MaxStall = 1
    Window = 3
    WindowLimit = 2
    Offsets = {0, 1}
    LastTick = 6
    MaxRedisFaults = 1
SYMMETRY MCCampaignsSymmetry
INVARIANTS CampaignsTypeOK FirstPauseHolds CancelOvershootBounded ClosedAfterSenders
    ScoreFitsCounters 
CHECK_DEADLOCK FALSE
