SPECIFICATION Spec
CONSTANTS
  Client = {c1, c2}
  Nobody = nobody
  NumOrders = 1
  NumLines = 2
  NumQuants = 1
  OrderOf <- OneOrderOf
  Ordered <- TwoEach
  OnHand <- FourOnHand
  Matches <- AllMatch
  NumResv = 2
  NumTasks = 2
  MaxOps = 6
  Loose = FALSE
  LineOverride = FALSE
  Service = {"reserve", "allocate", "release", "releasePicking", "confirmPick", "pack", "ship", "task"}
SYMMETRY ClientSymmetry
INVARIANTS ReservedIsActive LineNotOverpromised TakenIsPicked PickedMeansPicked
PROPERTIES ReservationFinal
CHECK_DEADLOCK FALSE
