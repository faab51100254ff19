CONSTANTS
  Name = {n1}
  NoArgs = {}
  Unreadable = {}
  User = {u1}
  StopRight = {}
  Pid = {p1}
  Handle = {h1, h2}
  Volumes = 2
  NULL = NULL
SPECIFICATION Spec
INVARIANT KillHandleValid
