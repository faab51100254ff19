CONSTANTS
  e1 = e1
  e2 = e2
  b1 = b1
  Srb = {s1, s2, s3}
  AbortSrb = {a1}
  Ext = {e1, e2}
  Thread = {t1, t2}
  Bucket = {b1}
  Hash <- MCHash
  DataLength = {0, 2}
  MaxTransferLength = 1
  NULL = NULL
SPECIFICATION Spec
INVARIANT AbortCompletedOnce
CHECK_DEADLOCK FALSE
