SPECIFICATION Spec
CONSTANTS
  Nodes <- TwoNodes
  Apps <- TwoApps
  Calls <- TwoCalls
  NoApp = NoApp
  Np <- OneCpu
  Limit = 2
  MaxJobs = 2
  MaxId = 4
  None = None
  Home <- OwnNodes
  AppOf <- OwnApps
  HowMany <- OneThenTwo
  Search <- FirstLocal
  Require <- OneThenTwo
  Minimum <- AllOne
  Retries = 1
  MayEnd <- OneApp
  MayStop <- Nobody
INVARIANTS
  CreateTypeOK
  LedgerBalanced
  IdsDistinct
  RunningHolds
  AllOrNothing
CHECK_DEADLOCK FALSE
