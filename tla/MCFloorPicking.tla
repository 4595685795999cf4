--------------------------- MODULE MCFloorPicking ---------------------------
(* Instances of FloorPicking for TLC.                                       *)
EXTENDS FloorPicking, TLC

ClientSymmetry == Permutations(Client)

OneOrderOf  == [l \in Line |-> 1]
OneEach     == [l \in Line |-> 1]
TwoEach     == [l \in Line |-> 2]
ThreeEach   == [l \in Line |-> 3]
FourOnHand  == [q \in Quant |-> 4]
TwoOnHand   == [q \in Quant |-> 2]
AllMatch    == [l \in Line |-> Quant]
=============================================================================
