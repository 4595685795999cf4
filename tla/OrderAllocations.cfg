SPECIFICATION Spec
CONSTANTS
  Client = {c1, c2}
  Nobody = nobody
  NumOrders = 2
  NumLines = 2
  NumQuants = 2
  OrderOf <- TwoOrdersOf
  Ordered <- TwoEach
  OnHand <- TwoOnHand
  Matches <- AllMatch
  NumResv = 3
  NumTasks = 3
  MaxOps = 4
  Loose = TRUE
  LineOverride = FALSE
  Service = {"reserve", "allocate", "release", "releasePicking", "confirmPick"}
SYMMETRY ClientSymmetry
PROPERTIES LedgerSpec
CHECK_DEADLOCK FALSE
