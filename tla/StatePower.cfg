CONSTANTS
  Windows = {w1, w2}
  Partitions = {a, b}
  MaxRequests = 3
  MaxFaults = 1
  MaxReloads = 1
  MaxCrashes = 1
SPECIFICATION Spec
SYMMETRY Symmetric
CHECK_DEADLOCK FALSE
INVARIANT DurableIsComplete
