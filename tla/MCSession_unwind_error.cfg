SPECIFICATION Spec
CONSTANTS
  Thread = {s, t1, t2}
  IP = {a, b}
  None = None
  Sampler = s
INVARIANT NeverWaitsOnFrozen
