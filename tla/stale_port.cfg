CONSTANTS
  r1 = r1
  r2 = r2
  c1 = c1
  n1 = n1
  n2 = n2
  s1 = s1
  None = None
  Regs = {r1, r2}
  Calls = {c1}
  Names = {n1, n2}
  Shapes = {s1}
  ValidShapes = {s1}
  Handles = {1, 2, 3, 4, 5, 6}
  Recycle = TRUE
  SpuriousListen = FALSE
  ThreadFailures = FALSE
  Alloc <- AllocLowest
SPECIFICATION Spec
INVARIANTS
  OnlyNamedServiceRuns
