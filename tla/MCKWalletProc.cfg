CONSTANTS
  k1 = k1
  k2 = k2
  p1 = p1
  p2 = p2
  f1 = f1
  f2 = f2
  None = None
  Client <- MCClient
  KeyId <- MCKeyId
  PrivKey <- MCPrivKey
  Truncated <- MCTruncated
  BufSize <- MCBufSize
  WALLET_MAX_SLOTS = 1
  LINE_LEN = 2
  MAX_CID = 2
SPECIFICATION Spec
SYMMETRY Symmetric
INVARIANTS UndisturbedRead SoloAnswer
PROPERTIES OldKeyKnown
CHECK_DEADLOCK FALSE
