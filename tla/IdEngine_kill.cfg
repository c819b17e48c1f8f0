CONSTANTS
  Threads = {t1,t2}
  NoThread = NoThread
  t1 = t1
  t2 = t2
  SeedStep = 1
  SeedSize = 2
  DefaultStep = 1
  DefaultSize = 2
  Prepared = TRUE
  Midnight = "down"
  KillMayHappen = TRUE
  PersistMayFail = FALSE
  QueryMayFail = FALSE
  MaxDay = 1
  MaxRuns = 2
  IdBound = 5
SPECIFICATION Spec

INVARIANTS Unique
