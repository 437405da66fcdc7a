CONSTANTS
  r1 = r1
  r2 = r2
  c1 = c1
  n1 = n1
  n2 = n2
  s1 = s1
  s2 = s2
  bad = bad
  None = None
  Regs = {r1, r2}
  Calls = {c1}
  Names = {n1, n2}
  Shapes = {s1, s2, bad}
  ValidShapes = {s1, s2}
  Handles = {1, 2, 3, 4, 5, 6}
  Recycle = FALSE
  SpuriousListen = FALSE
  ThreadFailures = TRUE
  Alloc <- AllocLowest
SPECIFICATION Spec
INVARIANTS
  NoUseAfterFree
  OnlyNamedServiceRuns
  NoneForgotten
  ContractInv
PROPERTIES
  NoneTakenLate
  ImplementsContract
