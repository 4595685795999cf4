SPECIFICATION FloorSpec
CONSTANTS
  Client = {c1, c2}
  Nobody = nobody
  NumOrders = 1
  NumLines = 2
  NumQuants = 1
  OrderOf <- OneOrderOf
  Ordered <- OneEach
  OnHand <- TwoOnHand
  Matches <- AllMatch
  NumResv = 2
  NumTasks = 2
  MaxOps = 5
  Loose = TRUE
  LineOverride = TRUE
  Service = {"reserve", "allocate", "release", "releasePicking", "confirmPick", "task", "rfPick", "rfException"}
  EditTo = {"CANCELLED"}
  HandMade = TRUE
SYMMETRY ClientSymmetry
INVARIANTS ReservedWithinOnHand DeadlockNeedsRfOrAllocation
CHECK_DEADLOCK FALSE
