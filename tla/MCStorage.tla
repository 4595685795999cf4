----------------------------- MODULE MCStorage ------------------------------
(* Instances of CycleCount and the modules it extends, for TLC.             *)
EXTENDS CycleCount, TLC

Quant(l, s, n) == [loc |-> l, st |-> s, qty |-> n, res |-> 0, by |-> "identity"]
TwoOnShelf == <<Quant("bin", "AVAILABLE", 2)>>
OneBlocked == <<Quant("bin", "AVAILABLE", 2), Quant("bin", "BLOCKED", 1)>>
TwoLines == <<1, 1>>
OneLine  == <<2>>
Mix(S, n) == [mix |-> S, max |-> n]
AllMixes ==
  {Mix({"receive", "move", "adjust", "release"}, 4),
   Mix({"block", "unblock", "adjustNew", "order", "release"}, 4),
   Mix({"adjust", "order", "release"}, 5),
   Mix({"putaway", "rfputaway", "order", "release"}, 5),
   Mix({"putaway", "move", "order", "release"}, 6),
   Mix({"evaluate", "replenish", "receive", "order", "release"}, 6),
   Mix({"inbound", "release"}, 3),
   Mix({"count", "approve", "move", "order"}, 6),
   Mix({"rfcount", "count", "approve", "order"}, 5),
   Mix({"release", "count", "approve", "adjust"}, 4)}
(* For the runs that show one thing.                                        *)
FreezeMix  == {Mix({"count", "move"}, 3)}
ConfirmMix == {Mix({"putaway"}, 3)}
ClientSymmetry == Permutations(Client)
=============================================================================
