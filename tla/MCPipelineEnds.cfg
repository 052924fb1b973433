SPECIFICATION EndsSpec
CONSTANTS
    Recipients = {r1, r2}
    Workers = {w1}
    ChanCap = 1
    BatchSize = 1
    MinEmailsBeforeBounceCheck = 100
    MaxBounceRatePercent = 5
    InitiallySuppressed = {r1}
    LaterSuppressed = {}
    UseKumoHTTPAPI = TRUE
    ConnectFails = FALSE
    DBErrors = FALSE
    TallyCap = 0
    MaxRequests = 2
    MaxCrashes = 0
    Callers = {k1, k2, k3}
    HalfOpenMaxCalls = 1
    SuccessThreshold = 2
    MaxFailures = 2
INVARIANT ProbesBounded
PROPERTIES   RecoversEventually
CHECK_DEADLOCK FALSE
