CONSTANTS
  k1 = k1
  k2 = k2
  Rules <- MCRules
  Kinds <- MCKinds
  Keys = {k1, k2}
  NoKey = NoKey
  MaxPending = 2
  DropPolicies = {"drop_newest", "drop_oldest"}
  Concurrency = 1
  Saturation = 1
  Window = 1
  MinSamples = 2
  ThresholdPct = 50
  MaxTriggers = 4
  MaxClock = 3
  MaxHangs = 1
SPECIFICATION FairSpec
INVARIANT QueueCoherent
INVARIANT EventOfStrategy
INVARIANT AlertFollowsWindow
PROPERTY Drains
PROPERTY ImplementsPool
CHECK_DEADLOCK FALSE
