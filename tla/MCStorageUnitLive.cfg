CONSTANTS
  Unit = {u1, u2}
  Guid = {g1}
  Process = {p1}
  Thread = {t1, t2}
  Device = {d1}
  Capacity = 1
  NULL = NULL
SPECIFICATION FairSpec
INVARIANT NoDangling
PROPERTY RemovedIsFreed
