CONSTANTS
  k1 = k1
  k2 = k2
  long1 = long1
  p1 = p1
  p2 = p2
  c1 = c1
  None = None
  Client <- MCClient
  KeyId <- MCKeyId
  PrivKey <- MCPrivKey
  Truncated <- MCTruncated
  BufSize <- MCBufSize
  WALLET_MAX_SLOTS = 3
  LINE_LEN = 2
  MAX_CID = 5
SPECIFICATION TableSpec
SYMMETRY Symmetric
INVARIANTS TableTypeOK CidInv PlainKeysUnique
PROPERTIES MapSpec
