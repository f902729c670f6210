SPECIFICATION FairSpec
CONSTANTS
  r1 = r1
  r2 = r2
  Runs = {r1, r2}
  ImageName <- OneName
  Foreign <- AllNames
  Forced = {r2}
  Clean = {r1}
  None = None
INVARIANTS
  MasterTypeOK
  UsableImage
  CleanedOrReachable
PROPERTIES
  RunEnds
CHECK_DEADLOCK FALSE
