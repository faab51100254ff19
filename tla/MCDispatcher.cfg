CONSTANTS
  Unit = {u1, u2}
  Thread = {t1, t2}
  Slot = {s1}
  Guid <- OwnGuid
  ThreadCount = {1, 2}
  CacheSupported = TRUE
  NULL = NULL
SPECIFICATION FairSpec
INVARIANTS
  TypeOK
  FlushIsLast
  NoUseAfterFree
PROPERTY FailureStopsAll
CHECK_DEADLOCK FALSE
