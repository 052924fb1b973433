SPECIFICATION ServicesSpec
CONSTANTS
  Users = {u1, u2}
  Conns = {k1, k2, k3, k4}
  MaxConnections = 3
  MinConnections = 3
  MaxHangups = 1
  NoConn = none
  Feeders = {f1, f2, f3}
  WarmingFeeders = {f3}
  Domains = {d1}
  MinuteLimit <- MCMinuteLimit
  HourLimit <- MCHourLimit
  MinutesPerHour = 2
  MaxClock = 2
  MaxRedisErrors = 1
  Jobs = {j1}
  QueueWorkers = {w1, w2}
  MaxRetries = 1
  QueueFailures = 1
  QueueCrashes = 1
  MaxStops = 2
  m1 = m1
  m2 = m2
  Mailed = {m1, m2}
  Mailings <- MCMailings
  MailingOf <- MCMailingOf
  MailSenders = {"s1", "s2"}
  SenderOf <- MCSenderOf
  MailDomains = {"d1"}
  DomainOf <- MCDomainOf
  FirstTick = 5
  FinalTick = 6
  MaxRowChanges = 1
INVARIANTS
  ServicesTypeOK PoolSound MinuteOvershootBounded JobsKept RecordedMeansApplied ReportsAddUp
SYMMETRY MCSymmetry
CHECK_DEADLOCK FALSE
