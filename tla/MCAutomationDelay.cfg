SPECIFICATION Spec
CONSTANTS
  Automations = {a1}
  Contacts = {c1}
  Strangers = {s1}
  Definitions = {"long", "short"}
  Workflow <- MCWorkflow
  InitialDef <- MCInitialDef
  SplitBranch <- MCSplitBranch
  Runs = {"r1"}
  Execs = {e1}
  MainExec = main
  Handlers = {h1}
  MaxRequests = 1
  MaxNodeErrors = 0
  MaxCrashes = 0
  None = None
CHECK_DEADLOCK FALSE
PROPERTY DelayHolds
