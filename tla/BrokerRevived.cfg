SPECIFICATION FairSpec
CONSTANTS
  r1 = r1
  r2 = r2
  c1 = c1
  c2 = c2
  k1 = k1
  k2 = k2
  x1 = x1
  s1 = s1
  probe = probe
  ctor = ctor
  None = None
  Monitor = Monitor
  Ctor = ctor
  Receivers = {r1}
  Conns = {c1}
  ConcReqs = {k1}
  MutexReqs = {ctor}
  SeqReqs = {s1, probe}
  Probe = probe
  Faulty = {}
  QueueMax = 1
  MaxHanded = 1
  MaxTaken = 2
  EarlyPeers = FALSE
  SelfRefs = TRUE
  Polled = FALSE
PROPERTIES
  DrainEnds
CHECK_DEADLOCK FALSE
