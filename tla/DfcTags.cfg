SPECIFICATION Spec
CONSTANTS
  a = a
  b = b
  N = 2
  BlockSize = 2
  MaxSize = 6
  Preloaded = 4
  Conns = {a, b}
  Home <- MCHome
  Sock <- MCOneSock
  Requests <- MCCrossing
  MaxCommands = 4
INVARIANTS
  DataMatchCommand
CHECK_DEADLOCK FALSE
