CONSTANTS
  k1 = k1
  k2 = k2
  p1 = p1
  f1 = f1
  f2 = f2
  None = None
  Client <- MCClient
  KeyId <- MCKeyId
  PrivKey <- MCPrivKey
  Truncated <- MCTruncated
  BufSize <- MCBufSize
  WALLET_MAX_SLOTS = 1
  LINE_LEN = 2
  MAX_CID = 2
SPECIFICATION SpecLast
INVARIANTS ReadsLastCommand
CHECK_DEADLOCK FALSE
