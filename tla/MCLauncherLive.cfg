CONSTANTS
  Name = {n1}
  NoArgs = {n1}
  Unreadable = {}
  User = {u1}
  StopRight = {}
  Pid = {p1}
  Handle = {h1, h2}
  Volumes = 2
  NULL = NULL
SPECIFICATION FairSpec
INVARIANT VolumesStayLocked
PROPERTIES
  KilledGoes
  ClientServed
