SPECIFICATION ServiceSpec
CONSTANTS
  Threads = {main, r1, r2}
  Owner = handler
  Main = main
  Outsider = outsider
  Engines = 1
  Kinds = {pipe, term}
  Pipe = pipe
  MaxSignals = 2
  Calls <- MCQueries
  ChunkSize = 1
  DefaultLimit = 1
  Hosts = 2
  Limits = {1}
  MaxConnects = 2
  MaxCalls = 4
INVARIANTS ServedWithDatabase NoMapRace StoppedClean
PROPERTY StopEnds
CHECK_DEADLOCK FALSE
