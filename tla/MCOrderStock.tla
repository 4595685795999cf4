---------------------------- MODULE MCOrderStock ----------------------------
(* Instances of OrderStock for TLC.                                         *)
EXTENDS OrderStock, TLC

ClientSymmetry == Permutations(Client)

OneOrderOf    == [l \in Line |-> 1]
TwoOrdersOf   == [l \in Line |-> l]
TwoEach       == [l \in Line |-> 2]
FourOnHand    == [q \in Quant |-> 4]
TwoOnHand     == [q \in Quant |-> 2]
AllMatch      == [l \in Line |-> Quant]
=============================================================================
