SPECIFICATION EnginesSpec
CONSTANTS
  Automations = {a1}
  Contacts = {c1}
  Strangers = {s1}
  Definitions = {"long", "short"}
  Workflow <- MCWorkflow
  InitialDef <- MCInitialDef
  SplitBranch <- MCSplitBranch
  Runs = {"r1"}
  Execs = {e1}
  MainExec = main
  Handlers = {h1}
  MaxRequests = 2
  MaxNodeErrors = 1
  MaxCrashes = 1
  None = None
  Addresses = {x1, x2}
  AtOnce = 1
INVARIANTS
  EnginesTypeOK RunnersMatchRows 
  SafeMeansAccepted
CHECK_DEADLOCK FALSE
PROPERTIES WaitingRunsResume 
