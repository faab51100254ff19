CONSTANTS
  Unit = {u1, u2}
  Guid = {g1, g2}
  Process = {p1, p2}
  Thread = {t1, t2}
  Device = {}
  Capacity = 2
  NULL = NULL
SPECIFICATION Spec
SYMMETRY Symmetry
INVARIANTS
  TypeOK
  RefCountExact
  NoDangling
  TableConsistent
  NoSrbLost
PROPERTY OwnerLifetime
