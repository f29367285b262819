SPECIFICATION FairSpec
CONSTANTS
  Thread = {t1, t2}
  IP = {here}
  None = None
  Mortal = {t2}
  DebugAssertions = TRUE
  CallbackMayPanic = FALSE
PROPERTY CallReturns

