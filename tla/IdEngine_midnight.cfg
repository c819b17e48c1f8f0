CONSTANTS
  Threads = {t1,t2}
  NoThread = NoThread
  t1 = t1
  t2 = t2
  SeedStep = 1
  SeedSize = 2
  DefaultStep = 1
  DefaultSize = 2
  Prepared = TRUE
  Midnight = "any"
  KillMayHappen = FALSE
  PersistMayFail = FALSE
  QueryMayFail = FALSE
  MaxDay = 2
  MaxRuns = 1
  IdBound = 4
SPECIFICATION Spec

INVARIANTS UniqueWithinRun
