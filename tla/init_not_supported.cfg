CONSTANTS
  t1 = t1
  t2 = t2
  w1 = w1
  p1 = p1
  None = None
  Callers = {t1, t2}
  Workers = {w1}
  Processes = {p1}
  MaxCalls = 1
SPECIFICATION Spec
SYMMETRY Symmetry
INVARIANTS
  SupportedOnceInitialized
