SPECIFICATION Spec
CONSTANTS
    Recipients = {r1, r2}
    Workers = {w1}
    ChanCap = 2
    BatchSize = 1
    MinEmailsBeforeBounceCheck = 1
    MaxBounceRatePercent = 5
    InitiallySuppressed = {}
    LaterSuppressed = {}
    UseKumoHTTPAPI = TRUE
    ConnectFails = FALSE
    DBErrors = FALSE
    TallyCap = 1
    MaxRequests = 0
    MaxCrashes = 0
INVARIANTS MailedAtMostOnce
CHECK_DEADLOCK FALSE
