CONSTANTS
  c1 = c1
  w1 = w1
  w2 = w2
  w3 = w3
  Callers = {c1}
  Workers = {w1, w2, w3}
  ThreadCounts = {0, 2}
  SpawnMayFail = TRUE
  Spurious = TRUE
  MaxTasks = 3
  MaxLives = 2
SPECIFICATION FairPoolSpec
INVARIANTS EveryTaskInOneHand NoWorkerSleepsInVain
PROPERTIES ImplementsTaskPool AcceptedTasksRun ShutdownReturns
CHECK_DEADLOCK FALSE
