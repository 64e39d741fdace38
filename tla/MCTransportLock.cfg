CONSTANTS
  NoOne = NoOne
  Absent = Absent
  Dead = Dead
  Foreign = Foreign
  Unreadable = Unreadable
  Runtimes = {r1, r2, r3}
  MaxFaults = 1
  Aging = TRUE
  PidReuse = TRUE
SPECIFICATION FairSpec
INVARIANTS TypeOK OneOwnerUnlessEvicted LockNamesOwner OwnerReachableUnlessEvicted
PROPERTY OwnerRecovers
