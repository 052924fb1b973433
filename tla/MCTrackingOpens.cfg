SPECIFICATION TrackingSpec
CONSTANTS
  Recips = {s1, s2}
  Listed = {s1}
  Hits = {h1, h2}
  MaxMails = 2
  TrackErrors = 0
INVARIANT OpensCounted
CHECK_DEADLOCK FALSE
