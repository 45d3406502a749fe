\* Two workspaces of one directory, one request id, every operation.
CONSTANTS
  c1 = c1
  c2 = c2
  d1 = d1
  r1 = r1
  noRequest = noRequest
  NoRequest = noRequest
  Calls = {c1, c2}
  Directories = {d1}
  Nesting <- NoNesting
  Requests = {r1}
  MaxActive = 2
  MaxEvictFailures = 1
SYMMETRY TwoCallSymmetry
SPECIFICATION SharingSpec
INVARIANT LiveWorkspaceIsHeld
INVARIANT NoLocationLeak
INVARIANT CancellationIsExact
INVARIANT NoWorkspaceInDeletedWorktree
PROPERTY ImplementsContract
