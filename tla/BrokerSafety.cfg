SPECIFICATION Spec
CONSTANTS
  r1 = r1
  r2 = r2
  c1 = c1
  c2 = c2
  k1 = k1
  k2 = k2
  x1 = x1
  s1 = s1
  probe = probe
  ctor = ctor
  None = None
  Monitor = Monitor
  Ctor = ctor
  Receivers = {r1, r2}
  Conns = {c1, c2}
  ConcReqs = {k1, k2}
  MutexReqs = {x1, ctor}
  SeqReqs = {probe}
  Probe = probe
  Faulty = {x1}
  QueueMax = 0
  MaxHanded = 1
  MaxTaken = 2
  EarlyPeers = TRUE
  SelfRefs = FALSE
  Polled = TRUE
SYMMETRY Symmetric
INVARIANTS
  TypeOK
  CountersExact
  MutexExclusion
  QueueBound
  RefsCovered
  LeavesNothingBehind
PROPERTIES
  ImplementsObject
CHECK_DEADLOCK FALSE
