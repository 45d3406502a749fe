CONSTANTS
  MaxAttempts = 2
  MaxUpdates = 4
  MaxTransitions = 2
  MaxErrors = 2
  MaxFlushes = 2
SPECIFICATION Spec
CHECK_DEADLOCK FALSE
PROPERTY RolledBackIsSaved
