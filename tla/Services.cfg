SPECIFICATION ServicesSpec
CONSTANTS
  Client = {c1, c2}
  Work <- Mixes
  Order = {o1, o2}
  Line = {l1}
  Ordered = 2
  NumShipments = 2
  NumPackages = 2
  NumLabels = 1
  NumWaves = 1
  NumTasks = 2
  NumWorders = 1
  WorderLines = 2
  NumWtasks = 4
  Expected <- TwoReturned
  NumTokens = 4
  Threshold = 2
  BillingEvent = {e1, e2}
  NumInvoices = 3
  Serial = {s1, s2}
  SerialOrder = {so1, so2}
  Bin = {b1, b2}
  Needed = 2
  Command = {m1, m2}
  Job = {j1}
  Visit = {v1}
  Trailer = {t1, t2}
  Door = {d1, d2}
SYMMETRY ServicesSymmetry
INVARIANTS ServicesTypeOK PackedWithinPicked OneShipmentShips ClosedOrderClosedLines ReturnWithinExpected OneActivePerFamily EndedStaysEnded FailuresCounted BilledOnce OneSerialPerPiece ClaimsFollowFailures
PROPERTIES WaveNeverReopens
CHECK_DEADLOCK FALSE
