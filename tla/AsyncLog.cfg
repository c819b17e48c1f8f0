CONSTANTS
  t1 = t1
  t2 = t2
  w = w
  Loggers = {t1, t2}
  Worker = w
  Spurious = TRUE
  MaxMessages = 2
  MaxLives = 2
SPECIFICATION FairLogSpec
INVARIANTS NoMessageLostOrReordered WorkerNeverSleepsInVain
PROPERTIES NothingWrittenWhenClosed MessagesAreWritten InitAndCloseReturn
CHECK_DEADLOCK FALSE
