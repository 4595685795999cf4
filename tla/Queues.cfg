SPECIFICATION QueuesSpec
CONSTANTS
  Worker = {w1, w2}
  Admin = {}
  NumEvents = 2
  NumEndpoints = 1
  MaxAttempts = 2
  Take = 2
  MaxFaults = 2
  MaxRequeues = 0
  LeaseOverrun = FALSE
  NumScans = 2
  NumSteps = 2
  Codes <- TwoCodes
  NumFaults = 2
SYMMETRY WorkerSymmetry
INVARIANTS OneHolder DeadLetterUsedAttempts KeptOnDevice AppliedOnce
PROPERTIES SentIsFinal
CHECK_DEADLOCK FALSE
