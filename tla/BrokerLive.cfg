SPECIFICATION PolledSpec
CONSTANTS
  r1 = r1
  r2 = r2
  c1 = c1
  c2 = c2
  k1 = k1
  k2 = k2
  x1 = x1
  s1 = s1
  probe = probe
  ctor = ctor
  None = None
  Monitor = Monitor
  Ctor = ctor
  Receivers = {r1}
  Conns = {c1,c2}
  ConcReqs = {k1}
  MutexReqs = {x1, ctor}
  SeqReqs = {probe}
  Probe = probe
  Faulty = {k1}
  QueueMax = 0
  MaxHanded = 1
  MaxTaken = 2
  EarlyPeers = TRUE
  SelfRefs = FALSE
  Polled = TRUE
PROPERTIES
  RequestsServed
  OnlyTheRobbedHoldTheDrain
  UnreferencedEnds
CHECK_DEADLOCK FALSE
