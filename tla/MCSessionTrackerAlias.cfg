CONSTANTS
  s = s
  t = t
  run = run
  east = east
  west = west
  other = other
  Sessions = {s, t}
  Nobody = Nobody
  Runs = {run}
  NoRun = NoRun
  RunOf <- MCRunOf
  Routes = {east, west, other}
  NoRoute = NoRoute
  RouteOf <- MCRouteOf
  KeyKind <- MCKeyKind
  KeyRoute <- MCKeyRoute
  Hooks <- MCHooks
  RouteTtl = 0
  MaxRecords = 3
  MaxHooks = 4
  MaxLate = 2
  MaxClock = 1
SPECIFICATION Spec
INVARIANT AliasNeverCollapses
CHECK_DEADLOCK FALSE
