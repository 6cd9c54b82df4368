SPECIFICATION FairSpec
CONSTANTS
  w1 = w1
  w2 = w2
  NoMail = NoMail
  Workers <- TwoWorkers
  Mails <- Mails3
  BatchLimit = 2
  MaxAttempts = 2
  Faults <- CrashFaults
CHECK_DEADLOCK FALSE
INVARIANTS
  AtMostOneCopy
  RetryableMeansUndelivered
PROPERTIES
  PromiseKept
  QueuedIsSettled
