SPECIFICATION Spec
CONSTANTS
  a = a
  b = b
  N = 2
  BlockSize = 2
  MaxSize = 6
  Preloaded = 4
  Conns = {a, b}
  Home <- MCHome
  Sock <- MCSock
  Requests <- MCAligned
  MaxCommands = 2
INVARIANTS
  ReadIsCurrent
CHECK_DEADLOCK FALSE
