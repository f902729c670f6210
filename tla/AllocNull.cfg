SPECIFICATION Spec
CONSTANTS
  Nodes <- TwoNodes
  Apps <- OneApp
  Calls <- TwoCalls
  NoApp = NoApp
  Np <- OneCpu
  Limit = 2
  MaxJobs = 2
  MaxId = 20
  None = None
  Home <- AllAt
  AppOf <- OfA
  HowMany <- OneThenTwo
  Search <- Searching
  Require <- OneThenTwo
  Minimum <- AllOne
  Retries = 2
  MayEnd <- OneApp
  MayStop <- Nobody
INVARIANTS
  NullIsRefused
CHECK_DEADLOCK FALSE
