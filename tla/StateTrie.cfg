CONSTANTS
  Roots = {r1, r2}
  NoRoot = NoRoot
  MaxTime = 6
  StrictClock = TRUE
SPECIFICATION Spec
INVARIANTS
  TypeOK
  CurrentInHistory
  CachedInHistory
  QueriesAgree
PROPERTIES
  RestartKeepsRoot
  ImplementsRootLog
  PastIsStable
