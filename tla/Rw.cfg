\* Four threads: two that wait in the same way, and two others.
CONSTANT Threads = {t1, t2, t3, t4}
SPECIFICATION FairSpec
INVARIANTS
  TypeOK
  Counted
  Exclusion
  NobodyOversleeps
  DestroyedIsUnused
PROPERTIES
  WritersFirst
  AWriterWrites
\* Nothing is left to do when the lock has been destroyed.
CHECK_DEADLOCK FALSE
