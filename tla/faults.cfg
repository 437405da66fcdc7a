CONSTANTS
  r1 = r1
  r2 = r2
  r3 = r3
  c1 = c1
  n1 = n1
  s1 = s1
  s2 = s2
  None = None
  Regs = {r1, r2, r3}
  Calls = {c1}
  Names = {n1}
  Shapes = {s1, s2}
  ValidShapes = {s1, s2}
  Handles = {1, 2, 3, 4, 5, 6}
  Recycle = FALSE
  SpuriousListen = TRUE
  ThreadFailures = TRUE
  Alloc <- AllocLowest
SPECIFICATION Spec
SYMMETRY Symmetry
INVARIANTS
  CallInv
  HeldInv
  ClientIdsExact
