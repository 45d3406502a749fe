\* Two calls under two identities and two daemons, or three under one and one daemon; one
\* invalidation or shutdown.
CONSTANTS
  c1 = c1
  c2 = c2
  c3 = c3
  here = here
  there = there
  noIdentity = noIdentity
  Callers = {c1, c2, c3}
  Identities = {here, there}
  NoIdentity = noIdentity
  MaxAttempts = 3
  MaxEndpoints = 2
  MaxCommands = 1
SPECIFICATION FewSpec
\* The calls may all be over.
CHECK_DEADLOCK FALSE
INVARIANT NoCircularWait
INVARIANT ConnectedMatchesPin
INVARIANT CompactionIsCarried
PROPERTY OnlyFaultsDisconnect
