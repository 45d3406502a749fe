\* One workspace, three generations of which the second is a fork, learnt in any
\* order; two toggles, or one with a permission request and a write that may fail.
CONSTANTS
  i1 = i1
  i2 = i2
  top = top
  middle = middle
  child = child
  noSession = noSession
  p1 = p1
  Instances = {i1}
  Sessions = {top, middle, child}
  NoSession = noSession
  Parent <- Family
  Forks = {middle}
  Permissions = {p1}
  SessionOf <- ChildAsks
  MaxAttempts = 2
  MaxToggles = 2
  MaxWriteFailures = 1
SPECIFICATION BoundedSpec
\* A workspace that stopped and a session that is deleted never come back.
CHECK_DEADLOCK FALSE
INVARIANT StoppedStaysClear
INVARIANT PendingIsExact
INVARIANT StoreFollowsEvents
PROPERTY LostReplyNotReplayed
PROPERTY ToggleTakesEffect
PROPERTY MutationsSettle
