CONSTANTS
  Threads = {t1,t2}
  NoThread = NoThread
  t1 = t1
  t2 = t2
  SeedStep = 1
  SeedSize = 2
  DefaultStep = 1
  DefaultSize = 2
  Prepared = TRUE
  Midnight = "idle"
  KillMayHappen = TRUE
  PersistMayFail = TRUE
  QueryMayFail = TRUE
  MaxDay = 2
  MaxRuns = 2
  IdBound = 4
SPECIFICATION FairSpec
INVARIANTS UniqueWithinRun DateIsARealDay
PROPERTIES EveryCallReturns
