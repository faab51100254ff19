CONSTANTS
  Name = {n1, n2, n3}
  NoArgs = {}
  Unreadable = {n3}
  User = {u1}
  StopRight = {}
  Pid = {p1, p2}
  Handle = {}
  Volumes = 1
  NULL = NULL
SPECIFICATION Spec
SYMMETRY Symmetry
INVARIANTS
  TypeOK
  FreedOnce
  NoStrayProcess
  StopLeavesNone
PROPERTY RestartsAll
