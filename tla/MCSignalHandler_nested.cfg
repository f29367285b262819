SPECIFICATION Spec
CONSTANTS
  Sampler = {s1, s2, s3, s4}
  None = None
  NestedScopes = TRUE
INVARIANTS
  SignalsAreHandled
  AllDroppedRestores
  Chain
