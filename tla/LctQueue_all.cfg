CONSTANTS
  p1 = p1
  p2 = p2
  c1 = c1
  c2 = c2
  Producers = {p1, p2}
  Consumers = {c1, c2}
  SizeArgs = {0, 2}
  EnqueueWaits = {"none", "timed", "forever"}
  DequeueWaits = {"none", "timed", "forever"}
  Spurious = TRUE
  MaxSent = 2
SPECIFICATION FairSpec
INVARIANTS TypeOK NothingLostOrReordered ConsumersWaitOnlyOnEmpty NobodyWaitsAfterQuit
PROPERTIES ConsumersReturn
