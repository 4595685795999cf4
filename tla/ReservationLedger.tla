------------------------- MODULE ReservationLedger --------------------------
(***************************************************************************)
(* What the order desk promises, with no transaction, lock or task in it:   *)
(* each request changes the stock, the reservations, the lines and the      *)
(* stage of an order in one step, and its conditions hold in the very state *)
(* it changes.  OrderStock implements it.                                   *)
(***************************************************************************)
EXTENDS Integers, FiniteSets, FiniteSetsExt

CONSTANTS Order, Line, Quant, Resv, OrderOf, Ordered, OnHand

VARIABLES
  quantity, reserved,   \* per quant
  resv,                 \* the reservations
  picked,               \* per line
  stage                 \* per order: how far it has got

vars == <<quantity, reserved, resv, picked, stage>>

Init ==
  /\ quantity = OnHand
  /\ reserved = [q \in Quant |-> 0]
  /\ \A r \in Resv : resv[r].status = "NONE"
  /\ picked = [l \in Line |-> 0]
  /\ stage = [o \in Order |-> "CREATED"]

Active(r)  == resv[r].status = "ACTIVE"
Pieces(f, R) == MapThenSumSet(LAMBDA r : f[r].qty, R)
Complete(o) == \A l \in Line : OrderOf[l] = o => picked[l] >= Ordered[l]

(* New reservations for one order (0: for none), out of stock that nobody   *)
(* else has been promised and within what the lines still need.             *)
Promise(o) ==
  LET new == {r \in Resv : resv[r].status = "NONE" /\ Active(r)'} IN
  /\ \A r \in Resv \ new : resv'[r] = resv[r]
  /\ \A r \in new : resv'[r].order = o
  /\ o # 0 => stage[o] # "SHIPPED"
  /\ \A q \in Quant :
       /\ reserved'[q] = reserved[q] + Pieces(resv', {r \in new : resv'[r].quant = q})
       /\ reserved'[q] <= quantity[q]
  /\ \A l \in Line :
       (\E r \in new : resv'[r].line = l) =>
          picked[l] + Pieces(resv', {r \in Resv : Active(r)' /\ resv'[r].line = l}) <= Ordered[l]
  /\ stage' \in {stage, [x \in Order |-> IF x = o /\ stage[x] = "CREATED"
                                         THEN "ALLOCATED" ELSE stage[x]]}
  /\ UNCHANGED <<quantity, picked>>

(* A reservation is withdrawn once, and gives back exactly what it held.    *)
Withdraw(r) ==
  /\ Active(r)
  /\ \E s \in {"RELEASED", "CANCELLED"} : resv' = [resv EXCEPT ![r].status = s]
  /\ reserved' = [reserved EXCEPT ![resv[r].quant] = @ - resv[r].qty]
  /\ UNCHANGED <<quantity, picked, stage>>

(* n pieces leave the shelf out of one reservation of the line's order.     *)
Take(r, l, n) ==
  /\ Active(r)
  /\ n <= resv[r].qty
  /\ picked[l] + n <= Ordered[l]
  /\ stage[OrderOf[l]] = "PICKING"
  /\ resv[r].order = OrderOf[l]
  /\ resv' = IF n = resv[r].qty THEN [resv EXCEPT ![r].status = "PICKED"]
                                ELSE [resv EXCEPT ![r].qty = @ - n]
  /\ quantity' = [quantity EXCEPT ![resv[r].quant] = @ - n]
  /\ reserved' = [reserved EXCEPT ![resv[r].quant] = @ - n]
  /\ picked' = [picked EXCEPT ![l] = @ + n]
  /\ stage' = IF Complete(OrderOf[l])' THEN [stage EXCEPT ![OrderOf[l]] = "PICKED"]
                                       ELSE stage

(* An order moves on one stage at a time.                                   *)
Advance(o) ==
  /\ \/ stage[o] = "ALLOCATED" /\ stage' = [stage EXCEPT ![o] = "PICKING"]
     \/ stage[o] = "PICKED" /\ stage' = [stage EXCEPT ![o] = "PACKED"]
     \/ stage[o] = "PACKED" /\ stage' = [stage EXCEPT ![o] = "SHIPPED"]
  /\ UNCHANGED <<quantity, reserved, resv, picked>>

Next ==
  \/ \E o \in Order \cup {0} : Promise(o)
  \/ \E r \in Resv : Withdraw(r)
  \/ \E r \in Resv, l \in Line : \E n \in 1..Ordered[l] : Take(r, l, n)
  \/ \E o \in Order : Advance(o)

Spec == Init /\ [][Next]_vars
=============================================================================
