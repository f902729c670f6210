SPECIFICATION FairSpec
CONSTANTS
  Confs <- One
  MaxRuns = 2
  Cidr <- OwnBlocks
  Fits <- AllFit
  Ips <- TwoMachines
  Manager <- First
  None = None
  Dir <- OwnDirs
  MaxFaults = 1
INVARIANTS
  InstancesAccounted
  KeyOnDisk
PROPERTIES
  DestroyConverges
CHECK_DEADLOCK FALSE
