------------------------------ MODULE Shipping ------------------------------
(***************************************************************************)
(* Shipments of outbound orders: ShippingService (packages, staging, ship   *)
(* confirmation) and the labels of CarriersService.  addPackage is the only *)
(* operation that locks the order; stage and ship check what they read and  *)
(* write their rows by id.  The writes of a transaction become visible in   *)
(* its commit.  Shipments without an order check no contents and are left   *)
(* out; parcels packed by FulfillmentService are in OrderStock.             *)
(***************************************************************************)
EXTENDS Requests

CONSTANTS Order,
          Line,          \* lines of every order
          Ordered,       \* ordered quantity of each line
          NumShipments, NumPackages, NumLabels   \* bounds

ASSUME ShippingConstants == Ordered \in Nat

VARIABLES order,     \* outbound_orders.status
          picked,    \* per order and line: picked_quantity
          ship,      \* shipments: order and status
          pack,      \* shipment_packages with their contents per line
          label      \* carrier_labels; pack = 0 labels the whole shipment

shipVars == <<order, picked, ship, pack, label>>

OrderStatus    == {"ALLOCATED", "PICKING", "PICKED", "PACKING", "PACKED", "SHIPPED"}
ShipmentStatus == {"DRAFT", "PACKING", "STAGED", "LOADING", "SHIPPED", "CANCELLED"}
PackageStatus  == {"PACKED", "STAGED", "LOADED", "SHIPPED"}
LabelStatus    == {"GENERATED", "PRINTED", "CANCELLED"}

ShippingTypeOK ==
  /\ order \in [Order -> OrderStatus]
  /\ picked \in [Order -> [Line -> 0..Ordered]]
  /\ \A s \in DOMAIN ship : ship[s] \in [order : Order, st : ShipmentStatus]
  /\ \A p \in DOMAIN pack : pack[p].ship \in DOMAIN ship /\ pack[p].st \in PackageStatus
  /\ \A b \in DOMAIN label : label[b].ship \in DOMAIN ship /\ label[b].st \in LabelStatus

ShippingInit ==
  /\ order = [o \in Order |-> "ALLOCATED"]
  /\ picked = [o \in Order |-> [l \in Line |-> 0]]
  /\ ship = <<>> /\ pack = <<>> /\ label = <<>>

Packages(s, S) == {p \in DOMAIN pack : pack[p].ship = s /\ pack[p].st \in S}
Contents(P, l) == MapThenSumSet(LAMBDA p : pack[p].has[l], P)
PackagesOf(o)  == {p \in DOMAIN pack : ship[pack[p].ship].order = o}

(* assertOutboundOrderPacked.  (Variant: the packages of all shipments of    *)
(* the order count.)                                                        *)
CoversTogether(o, P) == \A l \in Line : picked[o][l] > 0 => Contents(PackagesOf(o), l) >= picked[o][l]

Covers(o, P) == \A l \in Line : picked[o][l] > 0 => Contents(P, l) >= picked[o][l]

-----------------------------------------------------------------------------
CreateShipment(o) ==
  /\ Len(ship) < NumShipments
  /\ Once("create")
  /\ ship' = Append(ship, [order |-> o, st |-> "PACKING"])
  /\ UNCHANGED <<order, picked, pack, label>>

(* The row lock on the order: taken by addPackage before it plans, by a wave *)
(* with its update, both until they commit.                                 *)
OrderFree(o) == \A c \in Client : reqs[c].op \in {"pack", "release"} => o \notin reqs[c].locks

(* Every line of the order is picked, l counted as n.                       *)
LastPick(o, l, n) == \A m \in Line : (IF m = l THEN n ELSE picked[o][m]) >= Ordered

(* A confirmed pick brings the line to n.  The desk first releases an order *)
(* that is not being picked; a scanner takes it as it is, and counts its    *)
(* pieces twice when it asks whether they were the last.                    *)
Picks(o, l, n) ==
  /\ picked' = [picked EXCEPT ![o][l] = n]
  /\ \/ /\ order[o] \in {"ALLOCATED", "PICKING"}
        /\ order' = [order EXCEPT ![o] = IF LastPick(o, l, n) THEN "PICKED" ELSE "PICKING"]
     \/ order' = [order EXCEPT ![o] = IF LastPick(o, l, 2 * n - picked[o][l]) THEN "PICKED" ELSE @]
  /\ order' # order => OrderFree(o)

Pick == /\ Once("pick")
        /\ \E o \in Order, l \in Line : /\ picked[o][l] < Ordered
                                       /\ Picks(o, l, picked[o][l] + 1)
        /\ UNCHANGED <<ship, pack, label>>

(* addPackage.                                                              *)
BeginPack(c, s) ==
  /\ ship[s].st \in {"DRAFT", "PACKING"} /\ Len(pack) < NumPackages
  /\ Begin(c, [op |-> "pack", pc |-> "lock", ship |-> s, locks |-> {}])
  /\ UNCHANGED shipVars

(* buildPackageContentPlan: what of each line goes into the package.        *)
(* (Variant: only what this shipment has packed is counted.)                *)
FitsOfShipment(s, has) ==
  /\ \E l \in Line : has[l] > 0
  /\ \A l \in Line : has[l] > 0 =>
       has[l] <= picked[ship[s].order][l] - Contents(Packages(s, PackageStatus), l)

Fits(s, has) ==
  LET o == ship[s].order IN
  /\ \E l \in Line : has[l] > 0
  /\ \A l \in Line : has[l] > 0 => has[l] <= picked[o][l] - Contents(PackagesOf(o), l)

(* isOrderFullyPackedAfterPlan.                                             *)
FullyPacked(o, has) ==
  \A l \in Line : picked[o][l] > 0 => Contents(PackagesOf(o), l) + has[l] >= picked[o][l]

(* (Variant: the order is not locked, its packages are read all the same.)  *)
LockAndPlanUnlocked(c) ==
  LET s == reqs[c].ship  o == ship[s].order IN
  /\ At(c, "pack", "lock")
  /\ \E has \in [Line -> 0..Ordered] :
       /\ Fits(s, has)
       /\ Advance(c, [op |-> "pack", pc |-> "commit", ship |-> s, locks |-> {},
                      has |-> has, full |-> FullyPacked(o, has)])
  /\ UNCHANGED shipVars

LockAndPlan(c) ==
  LET s == reqs[c].ship  o == ship[s].order IN
  /\ At(c, "pack", "lock") /\ OrderFree(o)
  /\ \E has \in [Line -> 0..Ordered] :
       /\ Fits(s, has)
       /\ Advance(c, [op |-> "pack", pc |-> "commit", ship |-> s, locks |-> {o},
                      has |-> has, full |-> FullyPacked(o, has)])
  /\ UNCHANGED shipVars

CommitPack(c) ==
  LET r == reqs[c] IN
  /\ At(c, "pack", "commit")
  /\ pack' = Append(pack, [ship |-> r.ship, st |-> "PACKED", has |-> r.has])
  /\ order' = [order EXCEPT ![ship[r.ship].order] = IF r.full THEN "PACKED" ELSE "PACKING"]
  /\ Finish(c)
  /\ UNCHANGED <<picked, ship, label>>

-----------------------------------------------------------------------------
(* stageShipment and shipShipment: read the shipment, check, write.         *)
BeginStage(c, s) ==
  /\ ship[s].st \in {"PACKING", "DRAFT"}
  /\ Begin(c, [op |-> "stage", pc |-> "check", ship |-> s])
  /\ UNCHANGED shipVars

BeginShip(c, s) ==
  /\ ship[s].st \in {"STAGED", "LOADING"}
  /\ Begin(c, [op |-> "ship", pc |-> "check", ship |-> s])
  /\ UNCHANGED shipVars

ReadyToStage(s) == LET P == Packages(s, {"PACKED"})
                   IN P # {} /\ Covers(ship[s].order, P)

(* Every package, or the shipment, has a label that is not cancelled; the   *)
(* request may waive it, and so do carriers that need none.                 *)
Labelled(s, P) ==
  LET usable == {b \in DOMAIN label : label[b].ship = s /\ label[b].st \in {"GENERATED", "PRINTED"}}
  IN \/ \E b \in usable : label[b].pack = 0
     \/ \A p \in P : \E b \in usable : label[b].pack = p

ReadyToShip(s, waived) ==
  LET P == Packages(s, {"STAGED", "LOADED"})
  IN P # {} /\ (waived \/ Labelled(s, P)) /\ Covers(ship[s].order, P)

Check(c) ==
  LET s == reqs[c].ship IN
  /\ \/ At(c, "stage", "check") /\ ReadyToStage(s)
     \/ At(c, "ship", "check") /\ \E waived \in BOOLEAN : ReadyToShip(s, waived)
  /\ Advance(c, [reqs[c] EXCEPT !.pc = "commit"])
  /\ UNCHANGED shipVars

SetPackages(s, S, st) == [p \in DOMAIN pack |->
  IF p \in Packages(s, S) THEN [pack[p] EXCEPT !.st = st] ELSE pack[p]]

CommitStage(c) ==
  LET s == reqs[c].ship IN
  /\ At(c, "stage", "commit")
  /\ ship' = [ship EXCEPT ![s].st = "STAGED"]
  /\ pack' = SetPackages(s, {"PACKED"}, "STAGED")
  /\ Finish(c)
  /\ UNCHANGED <<order, picked, label>>

CommitShip(c) ==
  LET s == reqs[c].ship IN
  /\ At(c, "ship", "commit") /\ OrderFree(ship[s].order)
  /\ ship' = [ship EXCEPT ![s].st = "SHIPPED"]
  /\ pack' = SetPackages(s, {"PACKED", "STAGED", "LOADED"}, "SHIPPED")
  /\ label' = [b \in DOMAIN label |-> IF label[b].ship = s /\ label[b].st = "GENERATED"
                                      THEN [label[b] EXCEPT !.st = "PRINTED"] ELSE label[b]]
  /\ order' = [order EXCEPT ![ship[s].order] = "SHIPPED"]
  /\ Finish(c)
  /\ UNCHANGED picked

-----------------------------------------------------------------------------
NewLabel(s, p) ==
  /\ Len(label) < NumLabels
  /\ label' = Append(label, [ship |-> s, pack |-> p, st |-> "GENERATED"])
  /\ UNCHANGED <<order, picked, ship, pack>>

(* ShippingService.generateLabel; without a package it is for the shipment. *)
GenerateLabel(s) == /\ Once("label")
                    /\ \E p \in Packages(s, PackageStatus) \cup {0} : NewLabel(s, p)

(* CarriersService.createLabel: the package named or the first; the carrier's *)
(* reference, if known, names the label there is.                           *)
CreateLabel(s) == /\ Once("label")
                  /\ \E p \in Packages(s, PackageStatus) : NewLabel(s, p)

BeginVoid(c, b) ==
  /\ label[b].st = "GENERATED"
  /\ Begin(c, [op |-> "void", pc |-> "commit", label |-> b])
  /\ UNCHANGED shipVars

CommitVoid(c) ==
  /\ At(c, "void", "commit")
  /\ label' = [label EXCEPT ![reqs[c].label].st = "CANCELLED"]
  /\ Finish(c)
  /\ UNCHANGED <<order, picked, ship, pack>>

(* receiveTrackingWebhook or syncTracking with the status CANCELLED; other  *)
(* tracking events leave the status of the label.                           *)
TrackingCancels(b) ==
  /\ Once("track")
  /\ label' = [label EXCEPT ![b].st = "CANCELLED"]
  /\ UNCHANGED <<order, picked, ship, pack>>

ShippingStep ==
  \/ Pick
  \/ \E o \in Order : CreateShipment(o)
  \/ \E c \in Client, s \in DOMAIN ship : BeginPack(c, s) \/ BeginStage(c, s) \/ BeginShip(c, s)
  \/ \E c \in Client : \/ LockAndPlan(c) \/ CommitPack(c) \/ Check(c)
                       \/ CommitStage(c) \/ CommitShip(c) \/ CommitVoid(c)
  \/ \E s \in DOMAIN ship : GenerateLabel(s) \/ CreateLabel(s)
  \/ \E c \in Client, b \in DOMAIN label : BeginVoid(c, b)
  \/ \E b \in DOMAIN label : TrackingCancels(b)

-----------------------------------------------------------------------------
(* What lies in the packages of an order, in all its shipments together,    *)
(* was picked for it: concurrent packers never pack a piece twice.          *)
PackedWithinPicked ==
  \A o \in Order, l \in Line : Contents(PackagesOf(o), l) <= picked[o][l]

(* Goods of an order leave with one shipment only, although neither stage   *)
(* nor ship locks anything and both may act on what is no longer so.        *)
OneShipmentShips ==
  \A o \in Order : Cardinality({s \in DOMAIN ship : ship[s].order = o
                                  /\ Packages(s, {"SHIPPED"}) # {}}) <= 1
=============================================================================
