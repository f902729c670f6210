SPECIFICATION FairSpec
CONSTANTS
  Nodes <- TwoNodes
  Apps <- OneApp
  Calls <- OneCall
  NoApp = NoApp
  Np <- OneCpu
  Limit = 1
  MaxJobs = 2
  MaxId = 20
  None = None
  Home <- OwnNodes
  AppOf <- OfA
  HowMany <- Two
  Search <- Local
  Require <- AllOne
  Minimum <- AllOne
  Retries = 3
  MayEnd <- OneApp
  MayStop <- TwoNodes
INVARIANTS
  AllOrNothing
PROPERTIES
  Answered
CHECK_DEADLOCK FALSE
