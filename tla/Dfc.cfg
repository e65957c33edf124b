SPECIFICATION FairSpec
CONSTANTS
  a = a
  b = b
  N = 2
  BlockSize = 2
  MaxSize = 6
  Preloaded = 4
  Conns = {a, b}
  Home <- MCHome
  Sock <- MCSock
  Requests <- MCRequests
  MaxCommands = 5
INVARIANTS
  ReadIsCurrent
  DataMatchCommand
PROPERTIES
  CommandsComplete
  KillReachesAll
CHECK_DEADLOCK FALSE
