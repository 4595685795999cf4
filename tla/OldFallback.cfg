SPECIFICATION OfflineSpec
CONSTANTS
  NumScans = 3
  NumSteps = 2
  Codes <- ThreeCodes
  NumFaults = 4
INVARIANTS SurvivesOldFallback
CHECK_DEADLOCK FALSE
