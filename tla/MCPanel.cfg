SPECIFICATION PanelSpec
CONSTANTS
    Recipients = {r1, r2}
    Workers = {w1}
    ChanCap = 1
    BatchSize = 1
    MinEmailsBeforeBounceCheck = 1
    MaxBounceRatePercent = 5
    InitiallySuppressed = {r1}
    LaterSuppressed = {r2}
    UseKumoHTTPAPI = FALSE
    ConnectFails = TRUE
    DBErrors = FALSE
    TallyCap = 1
    MaxRequests = 0
    MaxCrashes = 1
    AdminEmails = {e1, e2}
    AuthRequests = {q1, q2}
    MaxAttempts = 2
    MaxSessions = 1
    MaxAdmins = 2
    MaxAuthWork = 3
    MaxWaits = 1
    Calls = {q1, q2}
    MaxRows = 2
    MaxValue = 1
    MaxPanelWork = 3
    Parts = {p1, p2}
    IPs = {"i1"}
    Appliers = {q1, q2}
    MaxPolicyChanges = 2
    MaxPolicyApplies = 2
    MaxRestarts = 1
    Askers = {q1, q2}
    Periods = {1, 2}
    DayLength = 3
    CacheTicks = 1
    ScanTicks = 1
    LastMoment = 5
    MaxLogged = 1
    MaxAsks = 3
INVARIANTS
    PanelTypeOK  SentMeansHanded 
     RowsSound PolicySound StatsSound
PROPERTIES  AdministratorKept
SYMMETRY MCPanelSymmetry
CHECK_DEADLOCK FALSE
