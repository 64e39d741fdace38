CONSTANTS
  Modes = {"owner", "follower", "auto"}
  MaxPending = 2
  MaxEvents = 4
  MaxFaults = 3
  Drains = {TRUE, FALSE}
SPECIFICATION FairSpec
INVARIANTS TypeOK RoleConsistent TimersArmed NoSilentLossUnlessRaced StopIsFinal
PROPERTY EventsSettle
CHECK_DEADLOCK FALSE
