SPECIFICATION FairPassSpec
CONSTANTS
  Thread = {s, t1, t2}
  IP = {a, b}
  None = None
  Sampler = s
INVARIANTS
  SessionInv
  SamplesAreSnapshots
  WaitsOnFrozenOnlyToPanic
  EachThreadOnce
PROPERTY PassEnds
CHECK_DEADLOCK FALSE
