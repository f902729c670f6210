SPECIFICATION Spec
CONSTANTS
  Confs <- Two
  MaxRuns = 1
  Cidr <- SameBlock
  Fits <- AllFit
  Ips <- OneMachine
  Manager <- First
  None = None
  Dir <- OwnDirs
  MaxFaults = 1
INVARIANTS
  CloudTypeOK
  UpIsWhole
  TornDown
CHECK_DEADLOCK FALSE
