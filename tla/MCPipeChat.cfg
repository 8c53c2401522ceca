CONSTANTS
  A = A
  B = B
  short = short
  long = long
  Garbage = Garbage
  Peer <- MCPeer
  parent <- A
  child <- B
  Msg <- MCMsg
  Size <- MCSize
  READ_UNITS = 2
  PIPE_UNITS = 4
  MAX_TYPED <- MCTyped
  Dialog <- MCDialog
SPECIFICATION ProgramSpec
INVARIANTS PrintedInOrder PacedIsWhole DrainedAtHangUp
PROPERTIES HangUpIsSeen WriteComesBack OrphanEnds
CHECK_DEADLOCK FALSE
