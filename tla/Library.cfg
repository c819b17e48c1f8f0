SPECIFICATION LibrarySpec
CONSTANTS
  Threads = {t1, t2}
  Owner = owner
  Calls <- MCCalls
  ChunkSize = 3
  DefaultLimit = 1
  Hosts = 3
  Limits = {1, 2}
  MaxConnects = 2
  MaxCalls = 2
  Readers = {r1, r2}
  Cql <- MCCql
  Obsolete = 1
  MaxPages = 2
  MaxReadings = 2
  MaxClock = 2
  Users = {u1, u2}
  Servers = {"s1", "s2"}
  MongoCalls <- MCMongoCalls
  ConnCount = 1
  MaxPools = 3
  MaxMongoCalls = 3
  Kinds = {"bytes", "objects"}
  Values = {a, b}
  Sizes = {0, 2, 3}
  MaxN = 3
  Fields = 2
  Forced <- MCForced
  MaxBuild = 2
  MaxFaults = 1
  FirstDates <- MCFirstDates
  MaxWalk = 800
INVARIANTS
  RestraintHolds BatchInOrder PagesInOrder PoolsAreShared
  BufferIsQueue VersionSurvives RangeIsEveryDay
PROPERTIES CallsReturn MongoCallsReturn
CHECK_DEADLOCK FALSE
