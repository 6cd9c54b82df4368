SPECIFICATION Spec
CONSTANTS
  w1 = w1
  w2 = w2
  NoMail = NoMail
  Workers <- TwoWorkers
  Mails <- Mails2
  BatchLimit = 2
  MaxAttempts = 2
  Faults = {"lost_ack"}
CHECK_DEADLOCK FALSE
INVARIANTS
  RetryableMeansUndelivered
