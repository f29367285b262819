SPECIFICATION FairPanicSpec
CONSTANTS
  Thread = {s, t1}
  IP = {a}
  None = None
  Sampler = s
PROPERTY TargetsResume
CHECK_DEADLOCK FALSE
