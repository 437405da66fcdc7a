CONSTANTS
  t1 = t1
  w1 = w1
  w2 = w2
  w3 = w3
  p1 = p1
  p2 = p2
  p3 = p3
  None = None
  Callers = {t1}
  Workers = {w1, w2, w3}
  Processes = {p1, p2, p3}
  MaxCalls = 3
SPECIFICATION FairSpec
INVARIANTS
  ListInv
  FindsClient
PROPERTIES
  ImplementsClientIds
  WorkersLeave
