SPECIFICATION FloorSpec
CONSTANTS
  Client = {c1, c2}
  Nobody = nobody
  NumOrders = 1
  NumLines = 1
  NumQuants = 1
  OrderOf <- OneOrderOf
  Ordered <- TwoEach
  OnHand <- TwoOnHand
  Matches <- AllMatch
  NumResv = 2
  NumTasks = 2
  MaxOps = 4
  Loose = FALSE
  LineOverride = FALSE
  Service = {"reserve", "release", "rfPick"}
  EditTo = {}
  HandMade = FALSE
SYMMETRY ClientSymmetry
INVARIANTS ReservedIsActive
CHECK_DEADLOCK FALSE
