SPECIFICATION FairSpec
CONSTANTS
  o1 = o1
  o2 = o2
  Objects = {o1, o2}
  Main = Main
  None = None
  MaxCalls = 2
  LowestCount <- Minus2
INVARIANTS
  CollectionTypeOK
  RefsAccounted
  ReferencedServes
  ServicesLast
PROPERTIES
  FinalizeEnds
CHECK_DEADLOCK FALSE
