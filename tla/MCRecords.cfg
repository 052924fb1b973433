SPECIFICATION RecordsSpec
CONSTANTS
  r1 = r1
  r2 = r2
  r3 = r3
  q1 = q1
  q2 = q2
  q3 = q3
  Reports = {r1, r2, r3}
  Emails = {"a"}
  EmailOf <- MCEmailOf
  ClassOf <- MCClassOf
  Mailboxed = {r3}
  Orgs = {}
  SoftThreshold = 1
  MaxPasses = 1
  MaxDisturbed = 1
  Plans = {"standard"}
  PlanLength <- MCPlanLength
  Day = 1
  MaxTicks = 2
  Requesters = {q3}
  MaxEdits = 1
  MaxVersion = 3
  Downloads = {q1, q2}
  MaxApplies = 2
  MaxFaults = 1
  Lists = {r1, r2}
  Addresses = {"a"}
  ListRequests = {q1, q2}
  MaxListWork = 4
  MaxListCrashes = 1
  Parts = {r1, r2}
  SetupWorkers = {q1, q2}
  MaxSetups = 2
  MaxSetupFaults = 1
INVARIANTS
  RecordsTypeOK HandledMeansActedOn SoftBounceOvershootBounded
   
  OptOutHolds CounterFollowsRows 
SYMMETRY MCRecordsSymmetry
CHECK_DEADLOCK FALSE
