CONSTANTS
  Unit = {u1}
  Guid = {g1}
  Process = {p1, p2}
  Thread = {t1, t2}
  Device = {}
  Capacity = 1
  NULL = NULL
SPECIFICATION Spec
INVARIANT DeniedFreesNothing
