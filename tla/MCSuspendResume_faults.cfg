SPECIFICATION Spec
CONSTANTS
  Thread = {t1, t2, t3}
  IP = {here, there}
  None = None
  Mortal = {t2, t3}
  DebugAssertions = FALSE
  CallbackMayPanic = TRUE
INVARIANTS
  FrozenContext
  HandshakeInv
  NobodyStuck
CHECK_DEADLOCK FALSE
