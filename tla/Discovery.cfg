SPECIFICATION FairSpec
CONSTANTS
  Nodes = {"A", "B", "C", "D"}
  Fits <- OnlyD
  Links <- Square
  Parents <- BUnderA
  Searches = {"s", "t", "e"}
  Ends = {"e"}
  Origin <- FromA
  Hops <- FarNearFar
  Timed = {"t", "e"}
  UnlimitedHops <- Minus20
  NeighborsPath = 1
  MaxReqToSave = 1
  MaxEvents = 2
  Frames <- Anything
  None = None
INVARIANTS
  DiscoveryTypeOK
  EveryNodeAnswers
  EveryNodeEnds
  AnswersWithinDepth
  LinksSuffice
PROPERTIES
  ImplementsSearch
  
  FloodsEnd
CHECK_DEADLOCK FALSE
