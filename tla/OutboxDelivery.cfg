SPECIFICATION FairSpec
CONSTANTS
  Worker = {w1, w2}
  Admin = {a1}
  NumEvents = 1
  NumEndpoints = 2
  MaxAttempts = 2
  Take = 1
  MaxFaults = 1
  MaxRequeues = 1
  LeaseOverrun = TRUE
INVARIANTS SentWasAccepted
PROPERTIES EventuallySettled
CHECK_DEADLOCK FALSE
