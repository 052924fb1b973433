SPECIFICATION FairSpec
CONSTANTS
    Recipients = {r1, r2, r3}
    Workers = {w1}
    ChanCap = 1
    BatchSize = 2
    MinEmailsBeforeBounceCheck = 1
    MaxBounceRatePercent = 5
    InitiallySuppressed = {}
    LaterSuppressed = {}
    UseKumoHTTPAPI = TRUE
    ConnectFails = FALSE
    DBErrors = FALSE
    TallyCap = 1
    MaxRequests = 0
    MaxCrashes = 0
PROPERTIES BouncePauseTakesEffect
CHECK_DEADLOCK FALSE
