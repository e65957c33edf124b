\* Two workers and two clients on a queue of two, with and without waiting for
\* room, destroyed with and without finish.
CONSTANTS
  Workers = {w1, w2}
  Clients = {c1, c2}
  Items = {i1, i2, i3, i4}
  MaxQueueSize = 2
  BlockModes = {TRUE, FALSE}
  FinishFlags = {0, 1}
SPECIFICATION FairSpec
INVARIANTS TypeOK NobodyOversleeps StartedInOrder DestroyFinishes
PROPERTIES DestroyReturns AddWorkReturns
CHECK_DEADLOCK FALSE
