\* Removals: two requests, a mutation that may never end, an agent that spawns, one failure, a checkout
\* that is replaced.
\* Workspaces: two launches that share a directory, one eviction that fails.
CONSTANTS
  c1 = c1
  c2 = c2
  d1 = d1
  noRequest = noRequest
  r1 = r1
  r2 = r2
  m1 = m1
  s1 = s1
  s2 = s2
  tree = tree
  root = root
  nowhere = nowhere
  Requests = {r1, r2}
  Mutations = {m1}
  Sessions = {s1, s2}
  Directories = {tree, root}
  Tree = tree
  Root = root
  Nowhere = nowhere
  Overlap <- Apart
  MaxFailures = 1
  MaxCheckouts = 2
SPECIFICATION SceneSpec
\* The calls and the requests of a scene may all be over.
CHECK_DEADLOCK FALSE
PROPERTY RequestsEnd
PROPERTY LaunchesSettle
PROPERTY DoomedAreRemoved
INVARIANT FenceIsExclusive
PROPERTY NothingIsStranded
PROPERTY FailureRestores
