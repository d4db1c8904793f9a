SPECIFICATION Spec
SYMMETRY Symmetry
CONSTANTS
  Nodes = {n1, n2, n3, n4}
  Elements = {x, y}
  Lists = {A, B}
  NULL = NULL
  SkipNodes = {n1, n2, n3, n4}
  SkipKeys = {1, 2, 3}
  MaxLevel = 3
  HEAD = HEAD
  NIL = NIL
  TreeNodes = {n1, n2, n3, n4}
  TreeKeys = {1, 2, 3, 4}
  SENTINEL = SENTINEL
  FifoNodes = {n1, n2, n3, n4}
  Items = {n1, n2, n3, n4}
  testpernum = 3
  NOWHERE = NOWHERE
INVARIANTS
  LinksSound
  IterationComplete
PROPERTIES
  ContainersRefine
CHECK_DEADLOCK FALSE
