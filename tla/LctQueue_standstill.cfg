CONSTANTS
  p1 = p1
  p2 = p2
  c1 = c1
  c2 = c2
  Producers = {p1, p2}
  Consumers = {c1, c2}
  SizeArgs = {1}
  EnqueueWaits = {"forever"}
  DequeueWaits = {"forever"}
  Spurious = FALSE
  MaxSent = 2
SPECIFICATION Spec
INVARIANTS NoStandstill
