CONSTANTS
  r1 = r1
  c1 = c1
  c2 = c2
  n1 = n1
  n2 = n2
  s1 = s1
  s2 = s2
  bad = bad
  None = None
  Regs = {r1}
  Calls = {c1, c2}
  Names = {n1, n2}
  Shapes = {s1, s2, bad}
  ValidShapes = {s1, s2}
  Handles = {1, 2, 3, 4, 5, 6}
  Recycle = TRUE
  SpuriousListen = FALSE
  ThreadFailures = FALSE
  Alloc <- AllocLowest
SPECIFICATION Spec
SYMMETRY Symmetry
INVARIANTS
  CapturedAsChecked
  ClientIdsExact
  HandlesAccounted
  IInv
  HeldHandlesValid
  CallInv
  IdInv
  AccountInv
  NoneForgotten
PROPERTIES
  ImplementsContract
