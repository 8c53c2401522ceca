CONSTANTS
  A = A
  B = B
  C = C
  k1 = k1
  k2 = k2
  short = short
  long = long
  None = None
  Garbage = Garbage
  Peer <- MCPeer
  CryptoKey <- MCCryptoKey
  Msg <- MCMsg
  Size <- MCSize
  READ_UNITS = 2
  MAX_TYPED = 2
SPECIFICATION Spec
SYMMETRY Symmetric
INVARIANTS KeysAgree PrintedInOrder
PROPERTIES PathIsTakenInRace
CHECK_DEADLOCK FALSE
