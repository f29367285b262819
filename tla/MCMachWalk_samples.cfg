SPECIFICATION FairSampleSpec
CONSTANTS
  Thread = {t1, t2, t3}
  IP = {a, b}
  None = None
  DebugAssertions = TRUE
  Failing = {t3}
  ThreadsExit = TRUE
  MaxSuspensions = 2
  Code = {a, b, c}
  Bottom = Bottom
  max_frames = 3
INVARIANTS
  MachInv
  SuspensionsBalanced
  NoAllocation
  CallersInOrder
  OkIsComplete
PROPERTIES
  ThreadsResume
  CallReturns
  WalkIsBounded
  UnwindReturns
CHECK_DEADLOCK FALSE
