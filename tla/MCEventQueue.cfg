CONSTANTS
  Instances = {1}
  MaxSize = 3
  BatchSize = 2
  MaxAttempts = 1
  Persists = {TRUE, FALSE}
  MaxEvents = 4
  MaxFaults = 2
SPECIFICATION FairQueueSpec
INVARIANTS TypeOK RemovalExactUnlessDisturbed
PROPERTY QueueDrains
CHECK_DEADLOCK FALSE
