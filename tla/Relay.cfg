\* One workspace that opens and stops.  A session that moves between two directories and three
\* events of it; or two events, two subscriptions, overflow and a change of ownership.
CONSTANTS
  i1 = i1
  i2 = i2
  s1 = s1
  s2 = s2
  t1 = t1
  home = home
  away = away
  service = service
  router = router
  noLocation = noLocation
  Instances = {i1}
  Sessions = {s1}
  Terminals = {}
  Service = service
  Locations = {home, away}
  NoLocation = noLocation
  Router = router
  Home <- AllAtHome
  Owned <- BothAtHome
  MaxJobs = 3
  MaxEvents = 3
  MaxConnections = 2
  MaxChanges = 1
SPECIFICATION BoundedSpec
\* The bridge may have been shut down.
CHECK_DEADLOCK FALSE
INVARIANT RoutedWhereItIs
INVARIANT NothingLost
PROPERTY InOrder
PROPERTY DeliveryIsCurrent
