SPECIFICATION StorageSpec
CONSTANTS
  Client = {c1, c2}
  Loc = {"bin", "dock"}
  Key = {k1}
  NoKey = nokey
  Amount = {1}
  Start <- TwoOnShelf
  NumRows = 4
  Mixes <- AllMixes
  PickFace = "dock"
  MinPick = 1
  Target = 1
  NumMoves = 2
  Expected <- TwoLines
  Dock = "dock"
  EditStatus = {"CLOSED"}
  Counted = {1, 3}
SYMMETRY ClientSymmetry
INVARIANTS StorageTypeOK ReservedWithinOnHand OneRowPerIdentity KeyUsedOnce LedgerExplainsStock ReceivedMeansComplete ReceiptsCounted
CHECK_DEADLOCK FALSE
