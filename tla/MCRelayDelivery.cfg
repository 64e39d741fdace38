CONSTANTS
  Runtimes = {a, b}
  Intended = {a, b}
  Trusted = {a}
  NoOne = NoOne
  same = same
  Keys = {same}
  Kinds <- MCKinds
  NoKey = NoKey
  Semantic = TRUE
  Ttl = 1
  Capacities = {1, 2}
  MaxEvents = 2
  MaxConns = 2
  MaxClock = 1
  MaxFaults = 2
SPECIFICATION FairSpec
INVARIANTS TypeOK RepeatsExplained NothingLost InOrderUnlessOvertaken
PROPERTY QueueDrains
CHECK_DEADLOCK FALSE
