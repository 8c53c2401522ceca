CONSTANTS
  f1 = f1
  f2 = f2
  u1 = u1
  u2 = u2
  None = None
  File <- MCFile
  Major <- MCMajor
  Content <- MCContent
  CAPACITY = 2
  User <- MCUser
  N_OF_SIGNALS = 10
  Default <- MCDefault
  SIGINT = 2
  Typed <- MCTyped
  MAX_LINES = 2
  MAX_TIME = 2
  Keep = {1, 2}
SPECIFICATION Spec
INVARIANTS NothingLeft UseIsSafe CommandsAgree OutputIsSorted LinesAreKept PromptChildMisses CleanTransfer
PROPERTIES OnlyRacesLoseData ChildEnds
CHECK_DEADLOCK FALSE
