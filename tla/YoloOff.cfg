\* A family that is off, a pending request, and a session that joins the family.
CONSTANTS
  i1 = i1
  i2 = i2
  top = top
  middle = middle
  child = child
  noSession = noSession
  p1 = p1
  Instances = {i1}
  Sessions = {top, child}
  NoSession = noSession
  Parent <- Family
  Forks = {}
  Permissions = {p1}
  SessionOf <- RootAsks
  MaxAttempts = 2
  MaxToggles = 1
  MaxWriteFailures = 0
SPECIFICATION Spec
\* A workspace that stopped and a session that is deleted never come back.
CHECK_DEADLOCK FALSE
PROPERTY RepliesOnlyWhenEnabled
