SPECIFICATION DevicesSpec
CONSTANTS
  Agent = {"a1", "a2"}
  NoAgent = "none"
  Printer = {"p1", "p2"}
  Serves <- OnePrinterAgent
  MaxAttempts = 2
  Limit = 1
  NumJobs = 2
  Budgets <- PrintBudgets
  NumScans = 1
  NumSteps = 2
  Codes <- OneCode
  NumFaults = 1
  Asker = {"r1", "r2", "rt"}
  Stream = {"rt"}
  NumGrants = 4
  Budget <- BrowserBudgets
INVARIANTS DevicesTypeOK NoBlindReprint PrintedWasSent SessionSurvives LogoutIsFinal
PROPERTIES JobsAreServed
CHECK_DEADLOCK FALSE
