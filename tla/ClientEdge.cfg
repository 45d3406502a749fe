\* Store: two windows, two partitions, three requests and a fault, a renderer that is replaced or
\* a crash, or two requests and all of these.  Window: four changes, two transitions, two failing calls, two flushes.
\* Receipts: two workspaces, one request, two lists, a list and a deletion, or one trouble.
\* Stream: two streams of one key, three payloads of which one is beyond the budget.
CONSTANTS
  w1 = w1
  w2 = w2
  a = a
  b = b
  i1 = i1
  i2 = i2
  s1 = s1
  p1 = p1
  k1 = k1
  Windows = {w1, w2}
  Partitions = {a, b}
  MaxRequests = 3
  MaxFaults = 1
  MaxReloads = 1
  MaxCrashes = 1
  MaxAttempts = 2
  MaxUpdates = 4
  MaxTransitions = 2
  MaxErrors = 2
  MaxFlushes = 2
  Instances = {i1, i2}
  Sessions = {s1}
  Requests = {p1}
  SessionOf <- OneSession
  Through <- OneWorkspace
  MaxTroubles = 1
  MaxLists = 2
  Keys = {k1}
  Limit = 3
  Sizes = {1, 4}
  MaxStreams = 2
  MaxPayloads = 3
SPECIFICATION SceneSpec
SYMMETRY Symmetric
\* The requests may all be answered.
CHECK_DEADLOCK FALSE
INVARIANT RootIsComplete
INVARIANT AcknowledgedIsDurable
INVARIANT ClearedStaysClear
PROPERTY ReleasedIsQuiet
INVARIANT CleanIsSaved
PROPERTY FlushIsDurable
INVARIANT ReceiptsAreExact
INVARIANT ListedIsCurrent
INVARIANT NoGap
INVARIANT OpenIsRegistered
