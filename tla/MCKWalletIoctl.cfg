CONSTANTS
  k1 = k1
  k2 = k2
  long1 = long1
  p1 = p1
  p2 = p2
  c1 = c1
  c2 = c2
  None = None
  Client <- MCClient
  KeyId <- MCKeyId
  PrivKey <- MCPrivKey
  Truncated <- MCTruncated
  BufSize <- MCBufSize
  WALLET_MAX_SLOTS = 2
  LINE_LEN = 2
  EMPTY_LEN = 3
  MAX_CID = 3
SPECIFICATION Spec
SYMMETRY Symmetric
INVARIANTS CutIsTold
PROPERTIES RefusalChangesNothing FaultIsCommit ExactMap
CHECK_DEADLOCK FALSE
