CONSTANTS
  r1 = r1
  c1 = c1
  n1 = n1
  s1 = s1
  None = None
  Regs = {r1}
  Calls = {c1}
  Names = {n1}
  Shapes = {s1}
  ValidShapes = {s1}
  Handles = {1, 2, 3, 4, 5, 6}
  Recycle = FALSE
  SpuriousListen = FALSE
  ThreadFailures = FALSE
  Alloc <- AllocLowest
SPECIFICATION Spec
PROPERTIES
  NoRunAfterUnregister
