CONSTANTS
  Instances = {1, 2}
  MaxSize = 2
  BatchSize = 2
  MaxAttempts = 1
  Persists = {TRUE}
  MaxEvents = 2
  MaxFaults = 1
SPECIFICATION QueueSpec
INVARIANT SavedWhenQuiet
CHECK_DEADLOCK FALSE
