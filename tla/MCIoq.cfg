CONSTANTS
  e1 = e1
  e2 = e2
  b1 = b1
  Srb = {s1, s2}
  AbortSrb = {a1}
  Ext = {e1, e2}
  Thread = {t1, t2}
  Bucket = {b1}
  Hash <- MCHash
  DataLength = {3}
  MaxTransferLength = 2
  NULL = NULL
SPECIFICATION FairSpec
INVARIANTS
  TypeOK
  CompletedOnce
  QueuedExactlyPending
  BucketsIndexProcessList
  NoLostWakeup
  SuccessCoversTransfer
PROPERTIES
  NoOvertaking
  ServiceSpec
  PendingCompletes
  StopReleasesWaiters
CHECK_DEADLOCK FALSE
