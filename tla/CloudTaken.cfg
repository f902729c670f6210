SPECIFICATION FairSpec
CONSTANTS
  Confs <- Two
  MaxRuns = 1
  Cidr <- OwnBlocks
  Fits <- AllFit
  Ips <- OneMachine
  Manager <- First
  None = None
  Dir <- OwnDirs
  MaxFaults = 0
PROPERTIES
  DestroyFrees
CHECK_DEADLOCK FALSE
