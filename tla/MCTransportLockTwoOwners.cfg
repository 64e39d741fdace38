CONSTANTS
  NoOne = NoOne
  Absent = Absent
  Dead = Dead
  Foreign = Foreign
  Unreadable = Unreadable
  Runtimes = {r1, r2, r3}
  MaxFaults = 0
  Aging = FALSE
  PidReuse = FALSE
SPECIFICATION Spec
INVARIANT OneOwner
