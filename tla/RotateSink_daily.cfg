CONSTANTS
  MaxFiles = 2
  MaxSize = 2
  MaxDay = 3
  MaxMessages = 7
  MaxFaults = 2
  MaxStops = 1
SPECIFICATION Spec
INVARIANTS DailyFiles
CHECK_DEADLOCK FALSE
