\* A terminal of the first workspace is known when the second workspace opens.
CONSTANTS
  i1 = i1
  i2 = i2
  s1 = s1
  s2 = s2
  t1 = t1
  home = home
  away = away
  service = service
  router = router
  noLocation = noLocation
  Instances = {i1, i2}
  Sessions = {}
  Terminals = {t1}
  Service = service
  Locations = {home}
  NoLocation = noLocation
  Router = router
  Home <- AllAtHome
  Owned <- BothAtHome
  MaxJobs = 6
  MaxEvents = 2
  MaxConnections = 1
  MaxChanges = 0
SPECIFICATION Spec
\* The bridge may have been shut down.
CHECK_DEADLOCK FALSE
INVARIANT TerminalsStayPlaced
