\* Five threads on a gate of three.
CONSTANTS
  Threads = {t1, t2, t3, t4, t5}
  N = 3
SPECIFICATION FairSpec
INVARIANTS TypeOK NobodyLeftBehind
PROPERTIES IsBarrier GateOpens
