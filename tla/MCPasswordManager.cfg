CONSTANTS
  n1 = n1
  n2 = n2
  n3 = n3
  n4 = n4
  a = a
  b = b
  u = u
  v = v
  NULL = NULL
  FreeContent = FreeContent
  Node <- MCNode
  Key <- MCKey
  Value <- MCValue
  FIRST_CAPACITY = 2
  MAX_PAIRS = 4
SPECIFICATION Spec
INVARIANTS SpareRoom ChainSound LastNodeExact
PROPERTIES StackIsBook ListIsBook
SYMMETRY Symmetric
CHECK_DEADLOCK FALSE
