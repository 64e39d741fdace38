SPECIFICATION Spec
CONSTANTS
  shell = shell
  read = read
  i1 = i1
  i2 = i2
  x1 = x1
  NoId = NoId
  NoCtx = NoCtx
  Scopes <- MCScopes
  Ids <- MCIds
  Ctxs <- MCCtxs
  Configs <- MCConfigs
INVARIANT DecisionsReused
INVARIANT PassedForAReason
INVARIANT HooksPaired
CHECK_DEADLOCK FALSE
