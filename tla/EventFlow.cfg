\* Inventory: two reads, a failing scan, two invalidations, or one and a workspace that is forgotten.
\* Relay: a workspace opens and stops; two subscriptions, overflow.
\* Transcript: five events, two messages, a queue of three, a failing read.
CONSTANTS
  c1 = c1
  c2 = c2
  Readers = {c1, c2}
  MaxDisk = 2
  MaxInvalidations = 2
  MaxEntries = 2
  MaxFailures = 1
  MaxMessages = 2
  MaxQueue = 3
  MaxReserve = 2
  MaxDelivered = 5
  MaxReadFailures = 1
  MaxDestroyed = 1
  i1 = i1
  s1 = s1
  home = home
  service = service
  router = router
  noLocation = noLocation
SPECIFICATION SceneSpec
\* The last read and the last event may be over.
CHECK_DEADLOCK FALSE
INVARIANT StrictReadIsFenced
PROPERTY ReadsEnd
PROPERTY QueueSettles
INVARIANT ProjectionIsExact
PROPERTY Converges
