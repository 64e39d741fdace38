SPECIFICATION FairSpec
CONSTANTS
  NPorts = 2
  MaxTerms = 3
  MaxCycles = 2
  MaxMoves = 2
  MaxFaults = 1
  MaxFileSize = 2
  LineSize <- MCLineSize
  MaxEvents = 4
  MaxFailures = 1
INVARIANT TypeOK
INVARIANT RoleFollowedUnlessEarly
INVARIANT FileSoundUnlessOverlapped
PROPERTY OwnerServes
PROPERTY EventsLogged
CHECK_DEADLOCK FALSE
