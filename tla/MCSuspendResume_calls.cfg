SPECIFICATION FairSpec
CONSTANTS
  Thread = {t1, t2, t3}
  IP = {here, there}
  None = None
  Mortal = {}
  DebugAssertions = TRUE
  CallbackMayPanic = FALSE
INVARIANTS
  TypeOK
  NoUnwrapOfNone
  QuiescentBetweenCalls
PROPERTIES
  ResumedBeforeReturn
  ImplementsSuspension
  CallReturns
  ThreadsResume
