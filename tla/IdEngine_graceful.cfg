CONSTANTS
  Threads = {t1,t2,t3}
  NoThread = NoThread
  t1 = t1
  t2 = t2
  t3 = t3
  SeedStep = 1
  SeedSize = 3
  DefaultStep = 1
  DefaultSize = 3
  Prepared = TRUE
  Midnight = "down"
  KillMayHappen = FALSE
  PersistMayFail = FALSE
  QueryMayFail = FALSE
  MaxDay = 3
  MaxRuns = 3
  IdBound = 9
SPECIFICATION Spec
SYMMETRY ThreadSymmetry
INVARIANTS Unique SavedValveCoversIssuedIds NeverOutOfIds
PROPERTIES ImplementsDispenser
