CONSTANTS
  r1 = r1
  r2 = r2
  c1 = c1
  n1 = n1
  s1 = s1
  bad = bad
  None = None
  Regs = {r1, r2}
  Calls = {c1}
  Names = {n1}
  Shapes = {s1, bad}
  ValidShapes = {s1}
  Handles = {1, 2, 3, 4, 5, 6}
  Recycle = TRUE
  SpuriousListen = FALSE
  ThreadFailures = FALSE
  Alloc <- AllocLowest
SPECIFICATION FairSpec
PROPERTIES
  CallReturns
  ClientHandleInvalidated
  WaitThreadExits
