----------------------------- MODULE DeskProofs -----------------------------
(* The order desk for any number of requests, orders, lines, quants,        *)
(* reservations and tasks: columns and transactions keep their types, no    *)
(* interleaving promises more stock than is on hand, a reservation that was *)
(* picked, released or cancelled stays as it is, and an order is PICKED,    *)
(* PACKED or SHIPPED only with all its lines picked.  With the scanners at  *)
(* work too, only they and the allocations can wait for each other, and     *)
(* still no more stock is promised than is on hand.                         *)
EXTENDS FloorPicking, FiniteSetTheorems, TLAPS

(* What a transaction that is at a quant or at its write has prepared.      *)
Ready(t) ==
  /\ \/ t.pc = "quant"
     \/ t.op = "reserve" /\ t.pc \in {"order", "plan"}
     \/ t.op = "confirmPick" /\ t.pc = "resv"
     => t.plan # <<>>
  /\ t.op = "task" => t.target \in TaskStatus
  /\ t.op = "release" => t.target \in {"RELEASED", "CANCELLED"} /\ t.resv \in Resv
  /\ t.op = "confirmPick" => t.line \in Line /\ t.task \in Task

(* The strengthening: a transaction changes only the quants it has locked,  *)
(* and with its own changes counted, what is reserved is on hand.           *)
Covered(c, q) ==
  /\ owner[<<"quant", q>>] # c => dQty[c][q] = 0 /\ dRes[c][q] = 0
  /\ 0 <= reserved[q] + dRes[c][q]
  /\ reserved[q] + dRes[c][q] <= quantity[q] + dQty[c][q]

IInv ==
  /\ TypeOK
  /\ \A c \in Client : Ready(txn[c])
  /\ \A c \in Client, q \in Quant : Covered(c, q)
  /\ ReservedWithinOnHand
-----------------------------------------------------------------------------
(* Any set of rows is counted by a natural number.                          *)
LEMMA RowsAreCounted ==
  /\ \A P \in SUBSET Resv : Cardinality(P) \in Nat
  /\ \A P \in SUBSET Task : Cardinality(P) \in Nat
<1>1. IsFiniteSet(Resv) /\ IsFiniteSet(Task)
  BY FS_Interval, OrderStockConstants DEF Resv, Task
<1>2. QED
  BY <1>1, FS_Subset, FS_CardinalityType

(* The rows that exist are counted by natural numbers.                      *)
LEMMA CountsAreNatural == ResvCount \in Nat /\ TaskCount \in Nat
BY RowsAreCounted DEF ResvCount, TaskCount

(* An idle transaction is a transaction with nothing prepared.              *)
LEMMA IdleIsReady == Idle \in Txn /\ Ready(Idle) /\ NoChange \in [Quant -> Int]
<1>1. <<>> \in Seq(Part) /\ <<>> \in Seq(Resv) /\ [l \in Line |-> 0] \in [Line -> Nat]
  OBVIOUS
<1>2. Idle \in Txn
  BY <1>1 DEF Idle, Txn, TaskStatus, ResvStatus
<1>3. Ready(Idle)
  BY DEF Idle, Ready
<1>4. NoChange \in [Quant -> Int]
  BY DEF NoChange
<1>5. QED
  BY <1>2, <1>3, <1>4

(* A step that reads and locks keeps the invariant: locking a row takes it  *)
(* from nobody else, so the others' changes stay within what they locked.   *)
LEMMA LocalStep ==
  ASSUME IInv, NEW c \in Client, NEW t \in Txn, Ready(t),
         txn' = [txn EXCEPT ![c] = t],
         UNCHANGED <<data, dQty, dRes>>, ops' \in Nat,
         owner' = owner \/ \E row : Acquire(c, row)
  PROVE  IInv'
<1> USE OrderStockConstants
<1>1. \A x \in Row : owner'[x] \in Client \cup {Nobody}
  BY DEF Acquire, IInv, TypeOK
<1>2. owner' \in [Row -> Client \cup {Nobody}]
  BY <1>1 DEF Acquire, IInv, TypeOK
<1>3. TypeOK'
  BY <1>2 DEF IInv, TypeOK, data
<1>4. \A d \in Client : Ready(txn'[d])
  BY DEF IInv, TypeOK
<1>5. ASSUME NEW d \in Client, NEW q \in Quant PROVE Covered(d, q)'
  <2>1. <<"quant", q>> \in Row
    BY DEF Row
  <2>2. owner'[<<"quant", q>>] # d => owner[<<"quant", q>>] # d
    BY <2>1 DEF Acquire, IInv, TypeOK
  <2>3. QED
    BY <2>2 DEF IInv, Covered, data
<1>6. QED
  BY <1>3, <1>4, <1>5 DEF IInv, ReservedWithinOnHand, data

(* A step that locks quant q and adds to its own changes of q alone keeps   *)
(* the invariant if q stays covered.                                        *)
LEMMA QuantStep ==
  ASSUME IInv, NEW c \in Client, NEW t \in Txn, Ready(t), NEW q,
         NEW x \in [Quant -> Int], NEW y \in [Quant -> Int],
         txn' = [txn EXCEPT ![c] = t],
         dQty' = [dQty EXCEPT ![c] = x], dRes' = [dRes EXCEPT ![c] = y],
         \A k \in Quant \ {q} : x[k] = dQty[c][k] /\ y[k] = dRes[c][k],
         q \in Quant => /\ 0 <= reserved[q] + y[q]
                        /\ reserved[q] + y[q] <= quantity[q] + x[q],
         Acquire(c, <<"quant", q>>),
         UNCHANGED <<data, ops>>
  PROVE  IInv'
<1> USE OrderStockConstants
<1>1. owner' \in [Row -> Client \cup {Nobody}]
  BY DEF Acquire, IInv, TypeOK
<1>2. dQty' \in [Client -> [Quant -> Int]] /\ dRes' \in [Client -> [Quant -> Int]]
  BY DEF IInv, TypeOK
<1>3. TypeOK'
  BY <1>1, <1>2 DEF IInv, TypeOK, data
<1>4. \A d \in Client : Ready(txn'[d])
  BY DEF IInv, TypeOK
<1>5. ASSUME NEW d \in Client, NEW k \in Quant PROVE Covered(d, k)'
  <2>1. <<"quant", k>> \in Row
    BY DEF Row
  <2>2. d # c => dQty'[d] = dQty[d] /\ dRes'[d] = dRes[d]
    BY DEF IInv, TypeOK
  <2>3. dQty'[c] = x /\ dRes'[c] = y
    BY DEF IInv, TypeOK
  <2>4. d # c /\ owner'[<<"quant", k>>] # d => owner[<<"quant", k>>] # d
    BY <2>1 DEF Acquire, IInv, TypeOK
  <2>5. k = q => owner'[<<"quant", k>>] = c
    BY <2>1 DEF Acquire, IInv, TypeOK
  <2>6. k # q => owner'[<<"quant", k>>] = owner[<<"quant", k>>]
    BY <2>1 DEF Acquire, IInv, TypeOK
  <2>7. CASE d # c
    BY <2>2, <2>4, <2>7 DEF IInv, Covered, data
  <2>8. CASE d = c /\ k = q
    BY <2>3, <2>5, <2>8 DEF Covered, data
  <2>9. CASE d = c /\ k # q
    BY <2>3, <2>6, <2>9 DEF IInv, Covered, data
  <2>10. QED
    BY <2>7, <2>8, <2>9
<1>6. QED
  BY <1>3, <1>4, <1>5 DEF IInv, ReservedWithinOnHand, data

(* A commit adds to the rows exactly what was covered, under its own locks. *)
LEMMA CommitStep ==
  ASSUME IInv, NEW c \in Client, NEW op, Commit(c, op),
         resv' \in [Resv -> ResvRow], task' \in [Task -> TaskRow],
         status' \in [Order -> OrderStatus],
         fulfil' \in [Order -> OrderStatus \cup {"UNSET"}],
         picked' \in [Line -> Nat]
  PROVE  IInv'
<1> USE OrderStockConstants
<1>1. \A k \in Quant : /\ quantity'[k] = quantity[k] + dQty[c][k]
                       /\ reserved'[k] = reserved[k] + dRes[c][k]
                       /\ 0 <= reserved'[k] /\ reserved'[k] <= quantity'[k]
                       /\ quantity'[k] \in Int /\ reserved'[k] \in Int
  <2> TAKE k \in Quant
  <2>1. /\ quantity[k] \in Nat /\ reserved[k] \in Nat
        /\ dQty[c][k] \in Int /\ dRes[c][k] \in Int
    BY DEF IInv, TypeOK
  <2>2. Covered(c, k)
    BY DEF IInv
  <2>3. /\ quantity'[k] = quantity[k] + dQty[c][k]
        /\ reserved'[k] = reserved[k] + dRes[c][k]
    BY DEF Commit
  <2>4. QED
    BY <2>1, <2>2, <2>3 DEF Covered
<1>2. quantity' \in [Quant -> Nat] /\ reserved' \in [Quant -> Nat]
  BY <1>1 DEF Commit
<1>3. NoChange \in [Quant -> Int]
  BY IdleIsReady
<1>4. Idle \in Txn /\ Ready(Idle)
  BY IdleIsReady
<1>5. owner' \in [Row -> Client \cup {Nobody}]
  BY DEF Commit, Unlocked, IInv, TypeOK
<1>6. TypeOK'
  BY <1>2, <1>3, <1>4, <1>5 DEF Commit, IInv, TypeOK
<1>7. \A d \in Client : Ready(txn'[d])
  BY <1>4 DEF Commit, IInv, TypeOK
<1>8. ASSUME NEW d \in Client, NEW k \in Quant PROVE Covered(d, k)'
  <2>1. <<"quant", k>> \in Row
    BY DEF Row
  <2>2. owner'[<<"quant", k>>] = IF owner[<<"quant", k>>] = c THEN Nobody
                                 ELSE owner[<<"quant", k>>]
    BY <2>1 DEF Commit, Unlocked
  <2>3. CASE d = c
    BY <1>1, <2>3 DEF Commit, Covered, NoChange, IInv, TypeOK
  <2>4. CASE d # c
    <3>1. dQty'[d] = dQty[d] /\ dRes'[d] = dRes[d]
      BY <2>4 DEF Commit, IInv, TypeOK
    <3>2. Covered(c, k) /\ Covered(d, k)
      BY DEF IInv
    <3>3. /\ quantity[k] \in Nat /\ reserved[k] \in Nat
          /\ dQty[c][k] \in Int /\ dRes[c][k] \in Int
          /\ dQty[d][k] \in Int /\ dRes[d][k] \in Int
      BY DEF IInv, TypeOK
    <3>4. CASE owner[<<"quant", k>>] = c
      BY <1>1, <2>4, <3>1, <3>2, <3>3, <3>4 DEF Covered
    <3>5. CASE owner[<<"quant", k>>] # c
      BY <1>1, <2>2, <3>1, <3>2, <3>3, <3>5 DEF Covered
    <3>6. QED
      BY <3>4, <3>5
  <2>5. QED
    BY <2>3, <2>4
<1>9. QED
  BY <1>1, <1>6, <1>7, <1>8 DEF IInv, ReservedWithinOnHand

(* A rollback forgets the changes of a transaction and frees its locks.     *)
LEMMA RollbackStep ==
  ASSUME IInv, NEW c \in Client, Rollback(c) PROVE IInv'
<1> USE OrderStockConstants
<1>1. Idle \in Txn /\ Ready(Idle) /\ NoChange \in [Quant -> Int]
  BY IdleIsReady
<1>2. owner' \in [Row -> Client \cup {Nobody}]
  BY DEF Rollback, Unlocked, IInv, TypeOK
<1>3. TypeOK'
  BY <1>1, <1>2 DEF Rollback, IInv, TypeOK, data
<1>4. \A d \in Client : Ready(txn'[d])
  BY <1>1 DEF Rollback, IInv, TypeOK
<1>5. ASSUME NEW d \in Client, NEW k \in Quant PROVE Covered(d, k)'
  <2>1. <<"quant", k>> \in Row
    BY DEF Row
  <2>2. owner'[<<"quant", k>>] = d => owner[<<"quant", k>>] = d
    BY <2>1 DEF Rollback, Unlocked, IInv, TypeOK
  <2>3. Covered(d, k) /\ reserved[k] \in Nat /\ quantity[k] \in Nat /\ reserved[k] <= quantity[k]
    BY DEF IInv, TypeOK, ReservedWithinOnHand
  <2>4. reserved' = reserved /\ quantity' = quantity
    BY DEF Rollback, data
  <2>5. CASE d = c
    BY <2>3, <2>4, <2>5 DEF Rollback, Covered, NoChange, IInv, TypeOK
  <2>6. CASE d # c
    <3>1. dQty'[d] = dQty[d] /\ dRes'[d] = dRes[d]
      BY <2>6 DEF Rollback, IInv, TypeOK
    <3>2. owner'[<<"quant", k>>] # d => owner[<<"quant", k>>] # d
      BY <2>1, <2>6 DEF Rollback, Unlocked
    <3>3. QED
      BY <2>3, <2>4, <3>1, <3>2 DEF Covered
  <2>7. QED
    BY <2>5, <2>6
<1>6. QED
  BY <1>3, <1>4, <1>5 DEF Rollback, IInv, ReservedWithinOnHand, data

(* Beginning a transaction locks nothing.                                   *)
LEMMA BeginStep ==
  ASSUME IInv, NEW c \in Client, NEW request \in Txn, Ready(request), Begin(c, request)
  PROVE  IInv'
<1>1. /\ txn' = [txn EXCEPT ![c] = request] /\ owner' = owner
      /\ UNCHANGED <<data, dQty, dRes>> /\ ops' \in Nat
  BY DEF Begin, IInv, TypeOK
<1>2. QED
  BY <1>1, LocalStep

(* A transaction in its course has the type, and can be edited field by     *)
(* field.                                                                   *)
LEMMA TxnIsTyped ==
  ASSUME IInv, NEW c \in Client
  PROVE  txn[c] \in Txn /\ Ready(txn[c]) /\ ops \in Nat
BY DEF IInv, TypeOK

(* One part makes a plan.                                                   *)
LEMMA OnePart ==
  ASSUME NEW l \in Line \cup {0}, NEW q \in Quant \cup {0}, NEW n \in Nat
  PROVE  /\ <<[line |-> l, quant |-> q, qty |-> n]>> \in Seq(Part)
         /\ <<[line |-> l, quant |-> q, qty |-> n]>> # <<>>
BY DEF Part

(* A sequence of two or more is not exhausted by its first element.         *)
LEMMA TailNotEmpty ==
  ASSUME NEW S, NEW s \in Seq(S), Len(s) > 1 PROVE Tail(s) # <<>>
<1> DEFINE u == Tail(s)
<1>1. Len(s) \in Nat /\ Len(u) = Len(s) - 1
  OBVIOUS
<1> HIDE DEF u
<1>2. u # <<>>
  BY <1>1
<1>3. QED
  BY <1>2 DEF u

-----------------------------------------------------------------------------
(* reserveStockQuant covers what it adds by the check under the quant lock. *)
LEMMA ReserveStockQuantStep ==
  ASSUME IInv, NEW c \in Client, ReserveStockQuant(c) PROVE IInv'
<1> USE OrderStockConstants
<1> DEFINE t == txn[c]
           p == Head(t.plan)
           u == [t EXCEPT !.plan = Tail(@), !.made = Append(@, p),
                   !.pc = IF Len(t.plan) > 1 THEN "quant"
                          ELSE IF t.op = "allocate" THEN "plan" ELSE "commit"]
           y == [dRes[c] EXCEPT ![p.quant] = @ + p.qty]
<1>1. t \in Txn /\ Ready(t)
  BY TxnIsTyped
<1>2. t.plan \in Seq(Part) /\ t.made \in Seq(Part) /\ t.plan # <<>>
  BY <1>1 DEF Txn, Ready, ReserveStockQuant
<1>3. p \in Part /\ Tail(t.plan) \in Seq(Part) /\ Append(t.made, p) \in Seq(Part)
  BY <1>2
<1>4. Len(t.plan) > 1 => Tail(t.plan) # <<>>
  BY <1>2, TailNotEmpty
<1>5. u \in Txn
  <2> DEFINE pc == IF Len(t.plan) > 1 THEN "quant"
                   ELSE IF t.op = "allocate" THEN "plan" ELSE "commit"
             rest == Tail(t.plan)
             done == Append(t.made, p)
  <2>1. rest \in Seq(Part) /\ done \in Seq(Part)
    BY <1>3
  <2>2. pc \in {"quant", "plan", "commit"}
    OBVIOUS
  <2> HIDE DEF t, p, pc, rest, done
  <2>3. [t EXCEPT !.plan = rest, !.made = done, !.pc = pc] \in Txn
    BY <1>1, <2>1, <2>2, ZenonT(60) DEF Txn
  <2>4. QED
    BY <2>3 DEF pc, rest, done
<1>6. Ready(u)
  BY <1>1, <1>4, <1>5, ZenonT(60) DEF Ready, Txn, ReserveStockQuant
<1>7. txn' = [txn EXCEPT ![c] = u]
  BY DEF ReserveStockQuant, IInv, TypeOK
<1>8. p.quant \in Quant \cup {0} /\ p.qty \in Nat
  BY <1>3 DEF Part
<1>9. y \in [Quant -> Int] /\ dQty[c] \in [Quant -> Int]
  <2>1. dRes[c] \in [Quant -> Int] /\ dQty[c] \in [Quant -> Int]
    BY DEF IInv, TypeOK
  <2>2. p.quant \in Quant => dRes[c][p.quant] + p.qty \in Int
    BY <1>8, <2>1
  <2> HIDE DEF p
  <2>3. QED
    BY <2>1, <2>2
<1>10. dRes' = [dRes EXCEPT ![c] = y] /\ dQty' = [dQty EXCEPT ![c] = dQty[c]]
  BY DEF ReserveStockQuant, IInv, TypeOK
<1>11. \A k \in Quant \ {p.quant} : y[k] = dRes[c][k]
  BY DEF IInv, TypeOK
<1>12. p.quant \in Quant => /\ 0 <= reserved[p.quant] + y[p.quant]
                            /\ reserved[p.quant] + y[p.quant] <= quantity[p.quant] + dQty[c][p.quant]
  <2> SUFFICES ASSUME p.quant \in Quant
               PROVE  /\ 0 <= reserved[p.quant] + y[p.quant]
                      /\ reserved[p.quant] + y[p.quant] <= quantity[p.quant] + dQty[c][p.quant]
    OBVIOUS
  <2>1. /\ quantity[p.quant] \in Nat /\ reserved[p.quant] \in Nat
        /\ dQty[c][p.quant] \in Int /\ dRes[c][p.quant] \in Int
        /\ y[p.quant] = dRes[c][p.quant] + p.qty
    BY DEF IInv, TypeOK
  <2>2. Covered(c, p.quant)
    BY DEF IInv
  <2>3. p.qty <= Available(c, p.quant)
    BY DEF ReserveStockQuant
  <2> HIDE DEF p, y
  <2>4. QED
    BY <1>8, <2>1, <2>2, <2>3 DEF Covered, Available
<1>13. Acquire(c, <<"quant", p.quant>>) /\ UNCHANGED <<data, ops>>
  BY DEF ReserveStockQuant
<1> HIDE DEF t, p, u, y
<1>14. QED
  BY <1>5, <1>6, <1>7, <1>9, <1>10, <1>11, <1>12, <1>13, QuantStep

(* The rows inserted for the parts reserved have their columns' types.      *)
LEMMA InsertedRows ==
  ASSUME IInv, NEW c \in Client, InsertResv(NewReservations(c)), InsertTask(NewTasks(c))
  PROVE  resv' \in [Resv -> ResvRow] /\ task' \in [Task -> TaskRow]
<1> USE OrderStockConstants
<1>1. /\ txn[c].made \in Seq(Part) /\ txn[c].order \in Order \cup {0}
      /\ resv \in [Resv -> ResvRow] /\ task \in [Task -> TaskRow]
  BY DEF IInv, TypeOK, Txn
<1>2. \A i \in 1..Len(txn[c].made) : txn[c].made[i] \in Part
  BY <1>1
<1>3. \A i \in 1..Len(txn[c].made) : NewReservations(c)[i] \in ResvRow
  BY <1>1, <1>2 DEF NewReservations, ResvRow, ResvStatus, Part
<1>4. Len(NewReservations(c)) = Len(txn[c].made) /\ Len(txn[c].made) \in Nat
  BY <1>1 DEF NewReservations
<1>5. resv' \in [Resv -> ResvRow]
  BY <1>1, <1>3, <1>4 DEF InsertResv
<1>6. ResvCount + Len(txn[c].made) <= NumResv /\ ResvCount \in Nat
  BY <1>4, CountsAreNatural DEF InsertResv
<1>7. \A i \in 1..Len(NewTasks(c)) : NewTasks(c)[i] \in TaskRow
  <2>1. CASE txn[c].line = 0
    BY <2>1 DEF NewTasks
  <2>2. CASE txn[c].line # 0
    <3>1. Len(NewTasks(c)) = Len(txn[c].made)
      BY <1>4, <2>2 DEF NewTasks
    <3>2. ASSUME NEW i \in 1..Len(txn[c].made) PROVE NewTasks(c)[i] \in TaskRow
      <4>1. ResvCount + i \in Resv
        BY <1>4, <1>6 DEF Resv
      <4>2. txn[c].made[i].line \in Line \cup {0}
        BY <1>2 DEF Part
      <4>3. QED
        BY <2>2, <4>1, <4>2 DEF NewTasks, TaskRow, TaskStatus
    <3>3. QED
      BY <3>1, <3>2
  <2>3. QED
    BY <2>1, <2>2
<1>8. task' \in [Task -> TaskRow]
  BY <1>1, <1>7 DEF InsertTask
<1>9. QED
  BY <1>5, <1>8

(* ReservationsService.create keeps the invariant.                          *)
LEMMA ReservingStep ==
  ASSUME IInv, NEW c \in Client, Reserving(c) PROVE IInv'
<1> USE OrderStockConstants
<1> DEFINE t == txn[c]
<1>0. t \in Txn /\ Ready(t) /\ ops \in Nat
  BY TxnIsTyped
<1>1. CASE BeginReserve(c)
  <2>1. PICK x \in ReserveContext, q \in Quant : \E n \in 1..OnHand[q] :
          Begin(c, [Idle EXCEPT !.op = "reserve", !.order = x.order, !.line = x.line,
                      !.pc = IF x.order = 0 THEN "quant" ELSE "order",
                      !.plan = <<[line |-> x.line, quant |-> q, qty |-> n]>>])
    BY <1>1 DEF BeginReserve
  <2>2. PICK n \in 1..OnHand[q] :
          Begin(c, [Idle EXCEPT !.op = "reserve", !.order = x.order, !.line = x.line,
                      !.pc = IF x.order = 0 THEN "quant" ELSE "order",
                      !.plan = <<[line |-> x.line, quant |-> q, qty |-> n]>>])
    BY <2>1
  <2> DEFINE plan == <<[line |-> x.line, quant |-> q, qty |-> n]>>
             request == [Idle EXCEPT !.op = "reserve", !.order = x.order, !.line = x.line,
                           !.pc = IF x.order = 0 THEN "quant" ELSE "order", !.plan = plan]
  <2>3. x.order \in Order \cup {0} /\ x.line \in Line \cup {0} /\ x.line \in Nat
    BY DEF ReserveContext, Line
  <2>4. n \in Nat
    OBVIOUS
  <2>5. plan \in Seq(Part) /\ plan # <<>>
    BY <2>3, <2>4, OnePart
  <2>6. "reserve" \in Service
    BY <2>2, IdleIsReady DEF Begin, Txn
  <2> HIDE DEF plan
  <2>7. request \in Txn /\ Ready(request)
    BY <2>3, <2>5, <2>6, IdleIsReady, ZenonT(60) DEF Txn, Ready
  <2>8. Begin(c, request)
    BY <2>2 DEF plan
  <2> HIDE DEF request
  <2>9. QED
    BY <2>7, <2>8, BeginStep
<1>2. CASE LockOrderToReserve(c)
  <2> DEFINE u == [t EXCEPT !.pc = IF t.line = 0 THEN "quant" ELSE "plan", !.saw = picked]
  <2>1. t.op = "reserve" /\ t.pc = "order"
    BY <1>2 DEF LockOrderToReserve, LockOrder
  <2>2. picked \in [Line -> Nat]
    BY DEF IInv, TypeOK
  <2>3. u \in Txn /\ Ready(u)
    BY <1>0, <2>1, <2>2, ZenonT(60) DEF Txn, Ready
  <2>4. txn' = [txn EXCEPT ![c] = u]
    BY <1>2 DEF LockOrderToReserve, IInv, TypeOK
  <2>5. UNCHANGED <<data, dQty, dRes>> /\ ops' \in Nat /\ \E row : Acquire(c, row)
    BY <1>0, <1>2 DEF LockOrderToReserve, LockOrder
  <2> HIDE DEF u
  <2>6. QED
    BY <2>3, <2>4, <2>5, LocalStep
<1>3. CASE CheckRemainingQuantity(c)
  <2> DEFINE u == [t EXCEPT !.pc = "quant"]
  <2>1. t.op = "reserve" /\ t.pc = "plan"
    BY <1>3 DEF CheckRemainingQuantity, CheckRemaining
  <2>2. u \in Txn /\ Ready(u)
    BY <1>0, <2>1 DEF Txn, Ready
  <2>3. txn' = [txn EXCEPT ![c] = u]
    BY <1>3 DEF CheckRemainingQuantity, CheckRemaining, IInv, TypeOK
  <2>4. UNCHANGED <<data, dQty, dRes, owner>> /\ ops' \in Nat
    BY <1>0, <1>3 DEF CheckRemainingQuantity, CheckRemaining
  <2> HIDE DEF u
  <2>5. QED
    BY <2>2, <2>3, <2>4, LocalStep
<1>4. CASE ReserveStockQuant(c)
  BY <1>4, ReserveStockQuantStep
<1>5. CASE CommitReserve(c)
  <2>1. resv' \in [Resv -> ResvRow] /\ task' \in [Task -> TaskRow]
    BY <1>5, InsertedRows DEF CommitReserve
  <2>2. /\ status' \in [Order -> OrderStatus]
        /\ fulfil' \in [Order -> OrderStatus \cup {"UNSET"}]
        /\ picked' \in [Line -> Nat]
    BY <1>5 DEF CommitReserve, IInv, TypeOK
  <2>3. QED
    BY <1>5, <2>1, <2>2, CommitStep DEF CommitReserve
<1>6. QED
  BY <1>1, <1>2, <1>3, <1>4, <1>5 DEF Reserving

(* The candidates chosen for a line are parts, at least one of them.        *)
LEMMA PlansAreParts ==
  ASSUME NEW c, NEW l \in Line, NEW need, NEW p \in Plans(c, l, need)
  PROVE  p \in Seq(Part) /\ p # <<>>
<1> USE OrderStockConstants
<1> DEFINE candidates == {q \in Matches[l] : Available(c, q) > 0}
           F(k) == [1..k -> [line : {l}, quant : candidates, qty : 1..need]]
<1>1. PICK k \in 1..Cardinality(candidates) : p \in F(k)
  BY DEF Plans
<1>2. k \in Nat \ {0}
  OBVIOUS
<1>3. candidates \subseteq Quant
  OBVIOUS
<1>4. [line : {l}, quant : candidates, qty : 1..need] \subseteq Part
  BY <1>3 DEF Part
<1>5. p \in [1..k -> Part]
  BY <1>1, <1>4
<1>6. QED
  BY <1>2, <1>5

(* AllocationService.allocateOutboundOrder keeps the invariant.             *)
LEMMA AllocatingStep ==
  ASSUME IInv, NEW c \in Client, Allocating(c) PROVE IInv'
<1> USE OrderStockConstants
<1> DEFINE t == txn[c]
<1>0. t \in Txn /\ Ready(t) /\ ops \in Nat
  BY TxnIsTyped
<1>1. CASE BeginAllocate(c)
  <2>1. PICK o \in Order :
          Begin(c, [Idle EXCEPT !.op = "allocate", !.pc = "order", !.order = o])
    BY <1>1 DEF BeginAllocate
  <2> DEFINE request == [Idle EXCEPT !.op = "allocate", !.pc = "order", !.order = o]
  <2>2. "allocate" \in Service
    BY <2>1, IdleIsReady DEF Begin, Txn
  <2>3. request \in Txn /\ Ready(request)
    BY <2>2, IdleIsReady, ZenonT(60) DEF Txn, Ready
  <2> HIDE DEF request
  <2>4. QED
    BY <2>1, <2>3, BeginStep DEF request
<1>2. CASE LockOrderToAllocate(c)
  <2> DEFINE u == [t EXCEPT !.pc = "plan", !.line = 1, !.saw = picked]
  <2>1. t.op = "allocate"
    BY <1>2 DEF LockOrderToAllocate, LockOrder
  <2>2. picked \in [Line -> Nat]
    BY DEF IInv, TypeOK
  <2>3. u \in Txn /\ Ready(u)
    BY <1>0, <2>1, <2>2, ZenonT(60) DEF Txn, Ready
  <2>4. txn' = [txn EXCEPT ![c] = u]
    BY <1>2 DEF LockOrderToAllocate, IInv, TypeOK
  <2>5. UNCHANGED <<data, dQty, dRes>> /\ ops' \in Nat /\ \E row : Acquire(c, row)
    BY <1>0, <1>2 DEF LockOrderToAllocate, LockOrder
  <2> HIDE DEF u
  <2>6. QED
    BY <2>3, <2>4, <2>5, LocalStep
<1>3. CASE FindAvailableStockQuants(c)
  <2> DEFINE need == Ordered[t.line] - t.saw[t.line] - Total(ActiveOf(t.line))
             l == t.line
  <2>1. PICK p \in Plans(c, l, need) :
          txn' = [txn EXCEPT ![c].plan = p, ![c].pc = "quant", ![c].line = l + 1]
    BY <1>3 DEF FindAvailableStockQuants
  <2>2. l \in Line /\ l \in Nat /\ t.op = "allocate"
    BY <1>3 DEF FindAvailableStockQuants, LinesOf, Line
  <2>3. p \in Seq(Part) /\ p # <<>>
    BY <2>1, <2>2, PlansAreParts
  <2> DEFINE u == [t EXCEPT !.plan = p, !.pc = "quant", !.line = l + 1]
  <2>4. u \in Txn /\ Ready(u)
    <3>1. l + 1 \in Nat
      BY <2>2
    <3> DEFINE m == l + 1
    <3> HIDE DEF m
    <3>2. [t EXCEPT !.plan = p, !.pc = "quant", !.line = m] \in Txn
      BY <1>0, <2>3, <3>1 DEF Txn, m
    <3>3. Ready([t EXCEPT !.plan = p, !.pc = "quant", !.line = m])
      BY <1>0, <2>2, <2>3 DEF Txn, Ready
    <3>4. QED
      BY <3>2, <3>3 DEF m
  <2>5. txn' = [txn EXCEPT ![c] = u]
    BY <2>1 DEF IInv, TypeOK
  <2>6. UNCHANGED <<data, dQty, dRes, owner>> /\ ops' \in Nat
    BY <1>0, <1>3 DEF FindAvailableStockQuants
  <2> HIDE DEF u
  <2>7. QED
    BY <2>4, <2>5, <2>6, LocalStep
<1>4. CASE NextLine(c)
  <2>1. PICK u \in {[t EXCEPT !.line = @ + 1], [t EXCEPT !.pc = "commit"]} :
          txn' = [txn EXCEPT ![c] = u]
    BY <1>4 DEF NextLine, IInv, TypeOK
  <2>2. t.op = "allocate" /\ t.pc = "plan"
    BY <1>4 DEF NextLine
  <2>3. u \in Txn /\ Ready(u)
    <3>1. CASE u = [t EXCEPT !.line = @ + 1]
      <4>0. t.line \in Nat
        BY <1>0 DEF Txn
      <4>1. t.line + 1 \in Nat
        BY <4>0
      <4>2. u \in Txn
        BY <1>0, <3>1, <4>1 DEF Txn
      <4>3. u.pc = "plan" /\ u.op = "allocate"
        BY <1>0, <2>2, <3>1 DEF Txn
      <4>4. QED
        BY <4>2, <4>3 DEF Ready
    <3>2. CASE u = [t EXCEPT !.pc = "commit"]
      BY <1>0, <2>2, <3>2 DEF Txn, Ready
    <3>3. QED
      BY <3>1, <3>2
  <2>4. UNCHANGED <<data, dQty, dRes, owner>> /\ ops' \in Nat
    BY <1>0, <1>4 DEF NextLine
  <2>5. QED
    BY <2>1, <2>3, <2>4, LocalStep
<1>5. CASE CommitAllocate(c)
  <2>1. resv' \in [Resv -> ResvRow] /\ task' \in [Task -> TaskRow]
    BY <1>5, InsertedRows DEF CommitAllocate
  <2>2. /\ status' \in [Order -> OrderStatus]
        /\ fulfil' \in [Order -> OrderStatus \cup {"UNSET"}]
        /\ picked' \in [Line -> Nat]
    BY <1>5 DEF CommitAllocate, IInv, TypeOK, OrderStatus
  <2>3. QED
    BY <1>5, <2>1, <2>2, CommitStep DEF CommitAllocate
<1>6. QED
  BY <1>1, <1>2, <1>3, <1>4, <1>5, ReserveStockQuantStep DEF Allocating

(* Releasing and cancelling keep the invariant.                             *)
LEMMA ReleasingStep ==
  ASSUME IInv, NEW c \in Client, Releasing(c) PROVE IInv'
<1> USE OrderStockConstants
<1> DEFINE t == txn[c]
           r == t.resv
           plan == <<[line |-> resv[r].line, quant |-> resv[r].quant, qty |-> resv[r].qty]>>
<1>0. t \in Txn /\ Ready(t) /\ ops \in Nat
  BY TxnIsTyped
<1>1. CASE BeginRelease(c)
  <2>1. PICK k \in {x \in Resv : resv[x].status # "NONE"}, target \in {"RELEASED", "CANCELLED"} :
          Begin(c, [Idle EXCEPT !.op = "release", !.resv = k, !.order = resv[k].order,
                      !.pc = IF resv[k].order = 0 THEN "resv" ELSE "order",
                      !.target = target])
    BY <1>1 DEF BeginRelease
  <2> DEFINE request == [Idle EXCEPT !.op = "release", !.resv = k, !.order = resv[k].order,
                           !.pc = IF resv[k].order = 0 THEN "resv" ELSE "order",
                           !.target = target]
  <2>2. "release" \in Service
    BY <2>1, IdleIsReady DEF Begin, Txn
  <2>3. k \in Resv /\ resv[k].order \in Order \cup {0}
    BY DEF IInv, TypeOK, ResvRow
  <2>4. target \in TaskStatus \cup ResvStatus \cup {""}
    BY DEF ResvStatus
  <2>5. request \in Txn
    BY <2>2, <2>3, <2>4, IdleIsReady, ZenonT(60) DEF Txn
  <2>6. Ready(request)
    BY IdleIsReady DEF Txn, Ready
  <2> HIDE DEF request
  <2>7. QED
    BY <2>1, <2>5, <2>6, BeginStep DEF request
<1>2. CASE LockOrderToRelease(c)
  <2> DEFINE u == [t EXCEPT !.pc = "resv"]
  <2>1. t.op = "release"
    BY <1>2 DEF LockOrderToRelease, LockOrder
  <2>2. u \in Txn /\ Ready(u)
    BY <1>0, <2>1 DEF Txn, Ready
  <2>3. txn' = [txn EXCEPT ![c] = u]
    BY <1>2 DEF LockOrderToRelease, IInv, TypeOK
  <2>4. UNCHANGED <<data, dQty, dRes>> /\ ops' \in Nat /\ \E row : Acquire(c, row)
    BY <1>0, <1>2 DEF LockOrderToRelease, LockOrder
  <2> HIDE DEF u
  <2>5. QED
    BY <2>2, <2>3, <2>4, LocalStep
<1>3. CASE LockResvToRelease(c)
  <2> DEFINE u == [t EXCEPT !.pc = "quant", !.qty = resv[r].qty, !.plan = plan]
  <2>1. t.op = "release" /\ resv[r].status = "ACTIVE" /\ r \in Resv
    BY <1>0, <1>3 DEF LockResvToRelease, LockResv, Ready
  <2>2. resv[r] \in ResvRow
    BY <2>1 DEF IInv, TypeOK
  <2>3. plan \in Seq(Part) /\ plan # <<>> /\ resv[r].qty \in Nat
    BY <2>2, OnePart DEF ResvRow
  <2>4. txn' = [txn EXCEPT ![c] = u]
    BY <1>3 DEF LockResvToRelease, IInv, TypeOK
  <2>5. UNCHANGED <<data, dQty, dRes>> /\ ops' \in Nat /\ \E row : Acquire(c, row)
    BY <1>0, <1>3 DEF LockResvToRelease, LockResv
  <2> HIDE DEF plan
  <2>6. u \in Txn /\ Ready(u)
    BY <1>0, <2>1, <2>3 DEF Txn, Ready
  <2> HIDE DEF u
  <2>7. QED
    BY <2>4, <2>5, <2>6, LocalStep
<1>4. CASE ReleaseReservedStockQuant(c)
  <2> DEFINE q == t.plan[1].quant
             u == [t EXCEPT !.pc = "commit"]
             y == [dRes[c] EXCEPT ![q] = @ - t.qty]
  <2>1. t.op = "release" /\ t.qty \in Nat
    BY <1>0, <1>4 DEF ReleaseReservedStockQuant, Txn
  <2>2. u \in Txn /\ Ready(u)
    BY <1>0, <2>1 DEF Txn, Ready
  <2>3. txn' = [txn EXCEPT ![c] = u]
    BY <1>4 DEF ReleaseReservedStockQuant, IInv, TypeOK
  <2>4. dRes[c] \in [Quant -> Int] /\ dQty[c] \in [Quant -> Int]
    BY DEF IInv, TypeOK
  <2>5. dRes' = [dRes EXCEPT ![c] = y] /\ dQty' = [dQty EXCEPT ![c] = dQty[c]]
    BY <1>4 DEF ReleaseReservedStockQuant, IInv, TypeOK
  <2>6. /\ reserved[q] + dRes[c][q] >= t.qty
        /\ Acquire(c, <<"quant", q>>) /\ UNCHANGED <<data, ops>>
    BY <1>4 DEF ReleaseReservedStockQuant
  <2> HIDE DEF q
  <2>7. y \in [Quant -> Int] /\ \A k \in Quant \ {q} : y[k] = dRes[c][k]
    <3>1. q \in Quant => dRes[c][q] - t.qty \in Int
      BY <2>1, <2>4
    <3>2. QED
      BY <2>4, <3>1
  <2>8. q \in Quant => /\ 0 <= reserved[q] + y[q]
                       /\ reserved[q] + y[q] <= quantity[q] + dQty[c][q]
    <3> SUFFICES ASSUME q \in Quant PROVE /\ 0 <= reserved[q] + y[q]
                                          /\ reserved[q] + y[q] <= quantity[q] + dQty[c][q]
      OBVIOUS
    <3>1. quantity[q] \in Nat /\ reserved[q] \in Nat /\ Covered(c, q)
      BY DEF IInv, TypeOK
    <3>2. dRes[c][q] \in Int /\ dQty[c][q] \in Int /\ y[q] = dRes[c][q] - t.qty
      BY <2>4
    <3> HIDE DEF y
    <3>3. QED
      BY <2>1, <2>6, <3>1, <3>2 DEF Covered
  <2> HIDE DEF u, y
  <2>9. QED
    BY <2>2, <2>3, <2>4, <2>5, <2>6, <2>7, <2>8, QuantStep
<1>5. CASE CommitRelease(c)
  <2>1. /\ status' \in [Order -> OrderStatus]
        /\ fulfil' \in [Order -> OrderStatus \cup {"UNSET"}]
        /\ picked' \in [Line -> Nat]
    BY <1>5 DEF CommitRelease, IInv, TypeOK
  <2>2. t.target \in ResvStatus
    BY <1>0, <1>5 DEF CommitRelease, Commit, Ready, ResvStatus
  <2>3. resv' \in [Resv -> ResvRow]
    <3>1. resv \in [Resv -> ResvRow] /\ resv' = [resv EXCEPT ![r].status = t.target]
      BY <1>5 DEF CommitRelease, IInv, TypeOK
    <3>2. \A k \in Resv : [resv[k] EXCEPT !.status = t.target] \in ResvRow
      BY <2>2, <3>1 DEF ResvRow
    <3>3. QED
      BY <3>1, <3>2
  <2>4. task' \in [Task -> TaskRow]
    <3>1. task \in [Task -> TaskRow]
      BY DEF IInv, TypeOK
    <3>2. \A k \in Task : [task[k] EXCEPT !.status = "CANCELLED"] \in TaskRow
      BY <3>1 DEF TaskRow, TaskStatus
    <3>3. QED
      BY <1>5, <3>1, <3>2 DEF CommitRelease
  <2>5. QED
    BY <1>5, <2>1, <2>3, <2>4, CommitStep DEF CommitRelease
<1>6. QED
  BY <1>1, <1>2, <1>3, <1>4, <1>5 DEF Releasing

(* FulfillmentService.releasePicking, pack and ship keep the invariant.     *)
LEMMA StagingStep ==
  ASSUME IInv, NEW c \in Client, Staging(c) PROVE IInv'
<1> USE OrderStockConstants
<1> DEFINE t == txn[c]
<1>0. t \in Txn /\ Ready(t) /\ ops \in Nat
  BY TxnIsTyped
<1>1. /\ resv \in [Resv -> ResvRow] /\ task \in [Task -> TaskRow]
      /\ status \in [Order -> OrderStatus]
      /\ fulfil \in [Order -> OrderStatus \cup {"UNSET"}]
      /\ picked \in [Line -> Nat]
  BY DEF IInv, TypeOK
<1>2. ASSUME NEW op \in {"releasePicking", "pack", "ship"}, BeginOnOrder(c, op) PROVE IInv'
  <2>1. PICK o \in Order : Begin(c, [Idle EXCEPT !.op = op, !.pc = "order", !.order = o])
    BY <1>2 DEF BeginOnOrder
  <2> DEFINE request == [Idle EXCEPT !.op = op, !.pc = "order", !.order = o]
  <2>2. op \in Service
    BY <2>1, IdleIsReady DEF Begin, Txn
  <2>3. request \in Txn /\ Ready(request)
    BY <2>2, IdleIsReady DEF Txn, Ready
  <2> HIDE DEF request
  <2>4. QED
    BY <2>1, <2>3, BeginStep DEF request
<1>3. CASE LockOrderToReleasePicking(c)
  <2> DEFINE R == IF HasOpenPick(t.order) THEN {} ELSE PickableResv(t.order)
  <2>1. PICK s \in [1..Cardinality(R) -> R] :
          txn' = [txn EXCEPT ![c].pc = "commit", ![c].tasks = s]
    BY <1>3 DEF LockOrderToReleasePicking
  <2>2. R \subseteq Resv
    BY DEF PickableResv
  <2>3. s \in Seq(Resv)
    <3>1. Cardinality(R) \in Nat
      BY <2>2, RowsAreCounted
    <3> HIDE DEF R
    <3>2. s \in [1..Cardinality(R) -> Resv]
      BY <2>1, <2>2
    <3>3. QED
      BY <3>1, <3>2
  <2> DEFINE u == [t EXCEPT !.pc = "commit", !.tasks = s]
  <2>4. txn' = [txn EXCEPT ![c] = u]
    BY <2>1 DEF IInv, TypeOK
  <2>5. u \in Txn /\ Ready(u)
    BY <1>0, <2>3, ZenonT(60) DEF Txn, Ready
  <2>6. UNCHANGED <<data, dQty, dRes>> /\ ops' \in Nat /\ \E row : Acquire(c, row)
    BY <1>0, <1>3 DEF LockOrderToReleasePicking, LockOrder
  <2> HIDE DEF u
  <2>7. QED
    BY <2>4, <2>5, <2>6, LocalStep
<1>4. CASE CommitReleasePicking(c)
  <2> DEFINE s == t.tasks
             new == [i \in 1..Len(s) |->
                       [status |-> "OPEN", resv |-> s[i], line |-> resv[s[i]].line]]
  <2>1. s \in Seq(Resv)
    BY <1>0 DEF Txn
  <2>2. Len(new) = Len(s) /\ \A i \in 1..Len(s) : s[i] \in Resv
    BY <2>1
  <2>3. \A i \in 1..Len(new) : new[i] \in TaskRow
    BY <1>1, <2>2 DEF ResvRow, TaskRow, TaskStatus
  <2>4. InsertTask(new)
    BY <1>4 DEF CommitReleasePicking
  <2> HIDE DEF new
  <2>5. task' \in [Task -> TaskRow]
    BY <1>1, <2>3, <2>4 DEF InsertTask
  <2>6. /\ status' \in [Order -> OrderStatus]
        /\ fulfil' \in [Order -> OrderStatus \cup {"UNSET"}]
        /\ resv' = resv /\ picked' = picked
    BY <1>4, <1>1 DEF CommitReleasePicking, UpdateOrderStatus, OrderStatus
  <2>7. QED
    BY <1>4, <1>1, <2>5, <2>6, CommitStep DEF CommitReleasePicking
<1>5. CASE LockOrderToPack(c) \/ LockOrderToShip(c)
  <2> DEFINE u == [t EXCEPT !.pc = "commit"]
  <2>1. u \in Txn /\ Ready(u)
    BY <1>0, ZenonT(60) DEF Txn, Ready
  <2>2. txn' = [txn EXCEPT ![c] = u]
    BY <1>5 DEF LockOrderToPack, LockOrderToShip, IInv, TypeOK
  <2>3. UNCHANGED <<data, dQty, dRes>> /\ ops' \in Nat /\ \E row : Acquire(c, row)
    BY <1>0, <1>5 DEF LockOrderToPack, LockOrderToShip, LockOrder
  <2> HIDE DEF u
  <2>4. QED
    BY <2>1, <2>2, <2>3, LocalStep
<1>6. CASE CommitPack(c)
  <2>1. /\ status' \in [Order -> OrderStatus]
        /\ fulfil' \in [Order -> OrderStatus \cup {"UNSET"}]
        /\ resv' = resv /\ task' = task /\ picked' = picked
    BY <1>6, <1>1 DEF CommitPack, UpdateOrderStatus, OrderStatus
  <2>2. QED
    BY <1>6, <1>1, <2>1, CommitStep DEF CommitPack
<1>7. CASE CommitShip(c)
  <2>1. /\ status' \in [Order -> OrderStatus]
        /\ fulfil' \in [Order -> OrderStatus \cup {"UNSET"}]
        /\ resv' = resv /\ task' = task /\ picked' = picked
    BY <1>7, <1>1 DEF CommitShip, UpdateOrderStatus, OrderStatus
  <2>2. QED
    BY <1>7, <1>1, <2>1, CommitStep DEF CommitShip
<1>8. QED
  BY <1>2, <1>3, <1>4, <1>5, <1>6, <1>7 DEF Staging

(* FulfillmentService.confirmPick keeps the invariant.                      *)
LEMMA PickingStep ==
  ASSUME IInv, NEW c \in Client, Picking(c) PROVE IInv'
<1> USE OrderStockConstants
<1> DEFINE t == txn[c]
<1>0. t \in Txn /\ Ready(t) /\ ops \in Nat
  BY TxnIsTyped
<1>1. /\ resv \in [Resv -> ResvRow] /\ task \in [Task -> TaskRow]
      /\ status \in [Order -> OrderStatus]
      /\ fulfil \in [Order -> OrderStatus \cup {"UNSET"}]
      /\ picked \in [Line -> Nat]
  BY DEF IInv, TypeOK
<1>2. CASE BeginConfirmPick(c)
  <2>1. PICK k \in Task : \E l \in (IF LineOverride THEN Line ELSE {task[k].line}) \ {0} :
          \E n \in 1..Ordered[l] :
            Begin(c, [Idle EXCEPT !.op = "confirmPick", !.pc = "order",
                        !.order = OrderOf[l], !.line = l, !.task = k, !.qty = n])
    BY <1>2 DEF BeginConfirmPick
  <2>2. PICK l \in (IF LineOverride THEN Line ELSE {task[k].line}) \ {0} :
          \E n \in 1..Ordered[l] :
            Begin(c, [Idle EXCEPT !.op = "confirmPick", !.pc = "order",
                        !.order = OrderOf[l], !.line = l, !.task = k, !.qty = n])
    BY <2>1
  <2>3. PICK n \in 1..Ordered[l] :
          Begin(c, [Idle EXCEPT !.op = "confirmPick", !.pc = "order",
                      !.order = OrderOf[l], !.line = l, !.task = k, !.qty = n])
    BY <2>2
  <2> DEFINE request == [Idle EXCEPT !.op = "confirmPick", !.pc = "order",
                           !.order = OrderOf[l], !.line = l, !.task = k, !.qty = n]
  <2>4. l \in Line
    <3>1. task[k].line \in Line \cup {0}
      BY <1>1 DEF TaskRow
    <3>2. QED
      BY <2>2, <3>1
  <2>5. OrderOf[l] \in Order /\ l \in Nat /\ n \in Nat
    BY <2>3, <2>4 DEF Line
  <2>6. "confirmPick" \in Service
    BY <2>3, IdleIsReady DEF Begin, Txn
  <2>7. request \in Txn
    BY <2>5, <2>6, IdleIsReady DEF Txn
  <2>8. Ready(request)
    BY <2>4, IdleIsReady DEF Txn, Ready
  <2> HIDE DEF request
  <2>9. QED
    BY <2>3, <2>7, <2>8, BeginStep DEF request
<1>3. CASE LockOrderToPick(c)
  <2>1. PICK s \in PickSources(t.line, t.task) :
          txn' = [txn EXCEPT ![c].pc = IF s.resv = 0 THEN "quant" ELSE "resv",
                    ![c].saw = picked, ![c].resv = s.resv,
                    ![c].plan = <<[line |-> t.line, quant |-> s.quant, qty |-> t.qty]>>]
    BY <1>3 DEF LockOrderToPick
  <2>2. t.op = "confirmPick" /\ t.qty \in Nat /\ t.line \in Line /\ t.task \in Task
    BY <1>0, <1>3 DEF LockOrderToPick, LockOrder, Txn, Ready
  <2>3. s.resv \in Resv \cup {0} /\ s.quant \in Quant \cup {0}
    <3> DEFINE R == IF task[t.task].resv # 0 THEN {task[t.task].resv} ELSE ActiveOf(t.line)
    <3>1. task[t.task] \in TaskRow
      BY <1>1, <2>2
    <3>2. R \subseteq Resv
      BY <3>1 DEF TaskRow, ActiveOf
    <3>3. CASE R # {}
      <4>1. PICK r \in R : s = [resv |-> r, quant |-> resv[r].quant]
        BY <2>1, <3>3 DEF PickSources
      <4>2. resv[r] \in ResvRow /\ r \in Resv
        BY <1>1, <3>2
      <4> HIDE DEF R
      <4>3. QED
        BY <4>1, <4>2 DEF ResvRow
    <3>4. CASE R = {}
      <4>1. PICK q \in Matches[t.line] : s = [resv |-> 0, quant |-> q]
        BY <2>1, <3>4 DEF PickSources
      <4>2. q \in Quant
        BY <2>2
      <4> HIDE DEF R
      <4>3. QED
        BY <4>1, <4>2
    <3>5. QED
      BY <3>3, <3>4
  <2> DEFINE plan == <<[line |-> t.line, quant |-> s.quant, qty |-> t.qty]>>
             u == [t EXCEPT !.pc = IF s.resv = 0 THEN "quant" ELSE "resv",
                     !.saw = picked, !.resv = s.resv, !.plan = plan]
  <2>4. plan \in Seq(Part) /\ plan # <<>>
    BY <2>2, <2>3, OnePart
  <2>5. txn' = [txn EXCEPT ![c] = u]
    BY <2>1 DEF IInv, TypeOK
  <2>6. UNCHANGED <<data, dQty, dRes>> /\ ops' \in Nat /\ \E row : Acquire(c, row)
    BY <1>0, <1>3 DEF LockOrderToPick, LockOrder
  <2> HIDE DEF plan
  <2>7. u \in Txn
    BY <1>0, <1>1, <2>3, <2>4, ZenonT(60) DEF Txn
  <2>8. Ready(u)
    BY <1>0, <2>2, <2>4 DEF Txn, Ready
  <2> HIDE DEF u
  <2>9. QED
    BY <2>5, <2>6, <2>7, <2>8, LocalStep
<1>4. CASE LockResvToPick(c)
  <2> DEFINE u == [t EXCEPT !.pc = "quant"]
  <2>1. t.op = "confirmPick" /\ t.pc = "resv"
    BY <1>4 DEF LockResvToPick, LockResv
  <2>2. u \in Txn /\ Ready(u)
    BY <1>0, <2>1 DEF Txn, Ready
  <2>3. txn' = [txn EXCEPT ![c] = u]
    BY <1>4 DEF LockResvToPick, IInv, TypeOK
  <2>4. UNCHANGED <<data, dQty, dRes>> /\ ops' \in Nat /\ \E row : Acquire(c, row)
    BY <1>0, <1>4 DEF LockResvToPick, LockResv
  <2> HIDE DEF u
  <2>5. QED
    BY <2>2, <2>3, <2>4, LocalStep
<1>5. CASE ApplyPickToQuant(c)
  <2> DEFINE q == t.plan[1].quant
             u == [t EXCEPT !.pc = "commit"]
             x == [dQty[c] EXCEPT ![q] = @ - t.qty]
             y == [dRes[c] EXCEPT ![q] = @ - t.qty]
  <2>1. t.op = "confirmPick" /\ t.qty \in Nat
    BY <1>0, <1>5 DEF ApplyPickToQuant, Txn
  <2>2. u \in Txn /\ Ready(u)
    BY <1>0, <2>1 DEF Txn, Ready
  <2>3. txn' = [txn EXCEPT ![c] = u]
    BY <1>5 DEF ApplyPickToQuant, IInv, TypeOK
  <2>4. dRes[c] \in [Quant -> Int] /\ dQty[c] \in [Quant -> Int]
    BY DEF IInv, TypeOK
  <2>5. dRes' = [dRes EXCEPT ![c] = y] /\ dQty' = [dQty EXCEPT ![c] = x]
    BY <1>5 DEF ApplyPickToQuant, IInv, TypeOK
  <2>6. /\ reserved[q] + dRes[c][q] >= t.qty
        /\ Acquire(c, <<"quant", q>>) /\ UNCHANGED <<data, ops>>
    BY <1>5 DEF ApplyPickToQuant
  <2> HIDE DEF q
  <2>7. /\ x \in [Quant -> Int] /\ y \in [Quant -> Int]
        /\ \A k \in Quant \ {q} : x[k] = dQty[c][k] /\ y[k] = dRes[c][k]
    <3>1. q \in Quant => dRes[c][q] - t.qty \in Int /\ dQty[c][q] - t.qty \in Int
      BY <2>1, <2>4
    <3>2. QED
      BY <2>4, <3>1
  <2>8. q \in Quant => /\ 0 <= reserved[q] + y[q]
                       /\ reserved[q] + y[q] <= quantity[q] + x[q]
    <3> SUFFICES ASSUME q \in Quant PROVE /\ 0 <= reserved[q] + y[q]
                                          /\ reserved[q] + y[q] <= quantity[q] + x[q]
      OBVIOUS
    <3>1. quantity[q] \in Nat /\ reserved[q] \in Nat /\ Covered(c, q)
      BY DEF IInv, TypeOK
    <3>2. /\ dRes[c][q] \in Int /\ y[q] = dRes[c][q] - t.qty
          /\ dQty[c][q] \in Int /\ x[q] = dQty[c][q] - t.qty
      BY <2>4
    <3> HIDE DEF x, y
    <3>3. QED
      BY <2>1, <2>6, <3>1, <3>2 DEF Covered
  <2> HIDE DEF u, x, y
  <2>9. QED
    BY <2>2, <2>3, <2>5, <2>6, <2>7, <2>8, QuantStep
<1>6. CASE CommitConfirmPick(c)
  <2> DEFINE p == [picked EXCEPT ![t.line] = t.saw[t.line] + t.qty]
  <2>1. t.op = "confirmPick" /\ t.qty \in Nat /\ t.line \in Line /\ t.saw \in [Line -> Nat]
    BY <1>0, <1>6 DEF CommitConfirmPick, Commit, Txn, Ready
  <2>2. picked' \in [Line -> Nat]
    <3>1. t.saw[t.line] + t.qty \in Nat
      BY <2>1
    <3>2. picked' = p
      BY <1>6 DEF CommitConfirmPick
    <3>3. QED
      BY <1>1, <3>1, <3>2
  <2>3. resv' \in [Resv -> ResvRow]
    <3>1. resv' = PickedResv(t.resv, t.qty)
      BY <1>6 DEF CommitConfirmPick
    <3>2. \A r \in Resv : [resv[r] EXCEPT !.status = "PICKED"] \in ResvRow
      BY <1>1 DEF ResvRow, ResvStatus
    <3>3. \A r \in Resv : resv[r].qty > t.qty =>
            [resv[r] EXCEPT !.qty = @ - t.qty] \in ResvRow
      <4> TAKE r \in Resv
      <4> HAVE resv[r].qty > t.qty
      <4>1. resv[r] \in ResvRow /\ resv[r].qty \in Nat
        BY <1>1 DEF ResvRow
      <4>2. resv[r].qty - t.qty \in Nat
        BY <2>1, <4>1
      <4>3. QED
        BY <4>1, <4>2 DEF ResvRow
    <3>4. \A r \in Resv : resv[r].qty \in Nat
      BY <1>1 DEF ResvRow
    <3>5. CASE t.resv = 0
      BY <1>1, <3>1, <3>5 DEF PickedResv
    <3>6. CASE t.resv # 0 /\ resv[t.resv].qty <= t.qty
      BY <1>1, <3>1, <3>2, <3>6 DEF PickedResv
    <3>7. CASE t.resv # 0 /\ ~(resv[t.resv].qty <= t.qty)
      <4>1. resv' = [resv EXCEPT ![t.resv].qty = @ - t.qty]
        BY <3>1, <3>7 DEF PickedResv
      <4>2. t.resv \in Resv => resv[t.resv].qty > t.qty
        BY <2>1, <3>4, <3>7
      <4>3. t.resv \in Resv => [resv[t.resv] EXCEPT !.qty = @ - t.qty] \in ResvRow
        BY <3>3, <4>2
      <4>4. QED
        BY <1>1, <4>1, <4>3
    <3>8. QED
      BY <3>5, <3>6, <3>7
  <2>4. task' \in [Task -> TaskRow]
    <3>1. task' = [task EXCEPT ![t.task].status = "DONE"]
      BY <1>6 DEF CommitConfirmPick
    <3>2. \A k \in Task : [task[k] EXCEPT !.status = "DONE"] \in TaskRow
      BY <1>1 DEF TaskRow, TaskStatus
    <3>3. QED
      BY <1>1, <3>1, <3>2
  <2>5. /\ status' \in [Order -> OrderStatus]
        /\ fulfil' \in [Order -> OrderStatus \cup {"UNSET"}]
    BY <1>6, <1>1 DEF CommitConfirmPick, UpdateOrderStatus, OrderStatus
  <2>6. QED
    BY <1>6, <2>2, <2>3, <2>4, <2>5, CommitStep DEF CommitConfirmPick
<1>7. QED
  BY <1>2, <1>3, <1>4, <1>5, <1>6 DEF Picking

(* The unlocked read and the write of a task keep the invariant.            *)
LEMMA TaskingStep ==
  ASSUME IInv, NEW c \in Client, Tasking(c) PROVE IInv'
<1> USE OrderStockConstants
<1> DEFINE t == txn[c]
<1>1. CASE ReadTask(c)
  <2>1. PICK k \in Task : \E s \in TaskRequest \cap AllowedTransitions(task[k].status) :
          Begin(c, [Idle EXCEPT !.op = "task", !.pc = "commit", !.task = k, !.target = s])
    BY <1>1 DEF ReadTask
  <2>2. PICK s \in TaskRequest \cap AllowedTransitions(task[k].status) :
          Begin(c, [Idle EXCEPT !.op = "task", !.pc = "commit", !.task = k, !.target = s])
    BY <2>1
  <2> DEFINE request == [Idle EXCEPT !.op = "task", !.pc = "commit", !.task = k, !.target = s]
  <2>3. s \in TaskStatus
    BY DEF TaskRequest, TaskStatus
  <2>4. "task" \in Service
    BY <2>2, IdleIsReady DEF Begin, Txn
  <2>5. request \in Txn
    BY <2>3, <2>4, IdleIsReady DEF Txn
  <2>6. Ready(request)
    BY <2>3, IdleIsReady DEF Txn, Ready
  <2> HIDE DEF request
  <2>7. QED
    BY <2>2, <2>5, <2>6, BeginStep DEF request
<1>2. CASE WriteTask(c)
  <2>1. t.target \in TaskStatus
    BY <1>2, TxnIsTyped DEF WriteTask, Commit, Ready
  <2>2. task \in [Task -> TaskRow] /\ task' = [task EXCEPT ![t.task].status = t.target]
    BY <1>2 DEF WriteTask, IInv, TypeOK
  <2>3. \A k \in Task : [task[k] EXCEPT !.status = t.target] \in TaskRow
    BY <2>1, <2>2 DEF TaskRow
  <2>4. task' \in [Task -> TaskRow]
    BY <2>2, <2>3
  <2>5. /\ resv' \in [Resv -> ResvRow]
        /\ status' \in [Order -> OrderStatus]
        /\ fulfil' \in [Order -> OrderStatus \cup {"UNSET"}]
        /\ picked' \in [Line -> Nat]
    BY <1>2 DEF WriteTask, IInv, TypeOK
  <2>6. QED
    BY <1>2, <2>4, <2>5, CommitStep DEF WriteTask
<1>3. CASE ClaimTask(c)
  <2>1. PICK k \in Task, s \in {"ASSIGNED", "IN_PROGRESS"} :
          Begin(c, [Idle EXCEPT !.op = "task", !.pc = "task", !.task = k, !.target = s])
    BY <1>3 DEF ClaimTask
  <2> DEFINE request == [Idle EXCEPT !.op = "task", !.pc = "task", !.task = k, !.target = s]
  <2>2. "task" \in Service /\ s \in TaskStatus
    BY <2>1, IdleIsReady DEF Begin, Txn, TaskStatus
  <2>3. request \in Txn /\ Ready(request)
    BY <2>2, IdleIsReady DEF Txn, Ready
  <2> HIDE DEF request
  <2>4. QED
    BY <2>1, <2>3, BeginStep DEF request
<1>4. CASE LockTask(c)
  <2> DEFINE u == [t EXCEPT !.pc = "commit"]
  <2>1. u \in Txn /\ Ready(u)
    BY <1>4, TxnIsTyped, ZenonT(60) DEF LockTask, Txn, Ready
  <2>2. txn' = [txn EXCEPT ![c] = u]
    BY <1>4 DEF LockTask, IInv, TypeOK
  <2>3. UNCHANGED <<data, dQty, dRes>> /\ ops' \in Nat /\ \E row : Acquire(c, row)
    BY <1>4, TxnIsTyped DEF LockTask
  <2> HIDE DEF u
  <2>4. QED
    BY <2>1, <2>2, <2>3, LocalStep
<1>5. QED
  BY <1>1, <1>2, <1>3, <1>4 DEF Tasking

-----------------------------------------------------------------------------
(* At the start nothing is reserved and every transaction is idle.          *)
LEMMA StartsCovered == Init => IInv
<1> USE OrderStockConstants
<1> SUFFICES ASSUME Init PROVE IInv
  OBVIOUS
<1>1. NoResv \in ResvRow /\ NoTask \in TaskRow
  BY DEF NoResv, NoTask, ResvRow, TaskRow, ResvStatus, TaskStatus
<1>2. NoChange \in [Quant -> Nat]
  BY DEF NoChange
<1>3. TypeOK
  BY <1>1, <1>2, IdleIsReady DEF Init, TypeOK, OrderStatus
<1>4. \A c \in Client : Ready(txn[c])
  BY IdleIsReady DEF Init
<1>5. \A c \in Client, q \in Quant : Covered(c, q)
  BY DEF Init, Covered, NoChange
<1>6. ReservedWithinOnHand
  BY DEF Init, ReservedWithinOnHand, NoChange
<1>7. QED
  BY <1>3, <1>4, <1>5, <1>6 DEF IInv

(* The strengthened invariant holds in every reachable state: a quant's     *)
(* rows change only under its lock, and each change was checked under it.   *)
THEOREM StockStaysCovered == Spec => []IInv
<1> USE OrderStockConstants
<1>1. Init => IInv
  BY StartsCovered
<1>2. IInv /\ [Next]_vars => IInv'
  <2> SUFFICES ASSUME IInv, [Next]_vars PROVE IInv'
    OBVIOUS
  <2>1. ASSUME NEW c \in Client, DeskStep(c) PROVE IInv'
    BY <2>1, ReservingStep, AllocatingStep, ReleasingStep, PickingStep, StagingStep,
       TaskingStep, RollbackStep DEF DeskStep
  <2>2. CASE UNCHANGED vars
    <3>1. TypeOK'
      BY <2>2 DEF IInv, TypeOK, vars, data, locals
    <3>2. /\ \A c \in Client : Ready(txn'[c])
          /\ \A c \in Client, q \in Quant : Covered(c, q)'
          /\ ReservedWithinOnHand'
      BY <2>2 DEF IInv, Covered, ReservedWithinOnHand, vars, data, locals
    <3>3. QED
      BY <3>1, <3>2 DEF IInv
  <2>3. QED
    BY <2>1, <2>2 DEF Next
<1>3. QED
  BY <1>1, <1>2, PTL DEF Spec

(* Every column and every transaction keeps its type.                       *)
THEOREM OrderStockTypeCorrect == Spec => []TypeOK
<1>1. IInv => TypeOK
  BY DEF IInv
<1>2. QED
  BY <1>1, StockStaysCovered, PTL

(* However the transactions of the desk interleave, and wherever one is     *)
(* rolled back, no quant has more reserved than it holds.                   *)
THEOREM NeverOverReserved == Spec => []ReservedWithinOnHand
<1>1. IInv => ReservedWithinOnHand
  BY DEF IInv
<1>2. QED
  BY <1>1, StockStaysCovered, PTL

(* The operations that lock their order before anything else.               *)
OnOrder == {"allocate", "releasePicking", "confirmPick", "pack", "ship"}

(* What transaction t of c has locked, if own says who has locked what.     *)
Holds(own, c, t) ==
  /\ t.op \in OnOrder => t.order \in Order
  /\ t.op \in OnOrder /\ t.pc # "order" => own[<<"order", t.order>>] = c
  /\ t.op \in {"release", "confirmPick"} /\ t.pc \in {"quant", "commit"} /\ t.resv # 0
       => own[<<"resv", t.resv>>] = c

(* What t has read under these locks is still so.                           *)
Knows(t) ==
  /\ t.op \in {"release", "confirmPick"} /\ t.pc \in {"quant", "commit"} /\ t.resv # 0
       => Active(t.resv)
  /\ t.op = "confirmPick" => t.line \in LinesOf(t.order)
  /\ t.op = "confirmPick" /\ t.pc # "order" => t.saw[t.line] = picked[t.line]
  /\ t.op \in {"pack", "ship"} /\ t.pc = "commit"
       => Effective(t.order) = IF t.op = "pack" THEN "PICKED" ELSE "PACKED"

(* The rows that exist are the first ones.                                  *)
Numbered == {r \in Resv : resv[r].status # "NONE"} = 1..ResvCount

Settled ==
  /\ \A c \in Client : Holds(owner, c, txn[c]) /\ Knows(txn[c])
  /\ Numbered
  /\ PickedMeansPicked

Final == \A r \in Resv : resv[r].status \in {"PICKED", "RELEASED", "CANCELLED"} => resv'[r] = resv[r]
-----------------------------------------------------------------------------
(* What c locks is taken from nobody, and what it had it keeps.             *)
LEMMA LocksKept ==
  ASSUME IInv, NEW c \in Client, owner' = owner \/ \E row : Acquire(c, row)
  PROVE  \A x \in Row, d \in Client : owner[x] = d => owner'[x] = d
<1>1. owner \in [Row -> Client \cup {Nobody}]
  BY DEF IInv, TypeOK
<1>2. QED
  BY <1>1, OrderStockConstants DEF Acquire

(* Its end unlocks what it has locked itself.                               *)
LEMMA LocksFreed ==
  ASSUME IInv, NEW c \in Client, owner' = Unlocked(c)
  PROVE  \A x \in Row, d \in Client \ {c} : owner[x] = d => owner'[x] = d
BY OrderStockConstants DEF Unlocked

(* An operation without an order to keep and without a reservation to end.  *)
LEMMA Elsewhere ==
  ASSUME NEW c, NEW t, NEW own, t.op \notin OnOrder \cup {"release"}
  PROVE  Holds(own, c, t) /\ Knows(t)
BY DEF Holds, Knows, OnOrder

(* Nothing is held by a transaction that is over.                           *)
LEMMA IdleHoldsNothing ==
  ASSUME NEW c, NEW own PROVE Idle.op = "none" /\ Holds(own, c, Idle) /\ Knows(Idle)
<1>1. Idle.op = "none"
  BY DEF Idle
<1>2. QED
  BY <1>1, Elsewhere DEF OnOrder

(* A transaction keeps what it holds and knows while the rows it has locked *)
(* stay locked and their data are as they were.                             *)
LEMMA StaysSecured ==
  ASSUME IInv, NEW d \in Client, Holds(owner, d, txn[d]), Knows(txn[d]), txn'[d] = txn[d],
         \A x \in Row : owner[x] = d => owner'[x] = d,
         \A r \in Resv : owner[<<"resv", r>>] = d /\ Active(r) => Active(r)',
         \A o \in Order : owner[<<"order", o>>] = d =>
            Effective(o)' = Effective(o) /\ \A l \in LinesOf(o) : picked'[l] = picked[l]
  PROVE  Holds(owner', d, txn'[d]) /\ Knows(txn[d])'
<1> DEFINE t == txn[d]
<1>1. t \in Txn
  BY DEF IInv, TypeOK
<1>2. /\ \A r \in Resv : <<"resv", r>> \in Row
      /\ \A o \in Order : <<"order", o>> \in Row
  BY DEF Row
<1>3. Holds(owner', d, t)
  <2>1. t.resv \in Resv \cup {0}
    BY <1>1 DEF Txn
  <2>2. QED
    BY <1>2, <2>1 DEF Holds
<1>4. ASSUME t.op \in {"release", "confirmPick"}, t.pc \in {"quant", "commit"}, t.resv # 0
      PROVE  Active(t.resv)'
  <2>1. t.resv \in Resv
    BY <1>1, <1>4 DEF Txn
  <2>2. owner[<<"resv", t.resv>>] = d /\ Active(t.resv)
    BY <1>4 DEF Holds, Knows
  <2>3. PICK r \in Resv : r = t.resv
    BY <2>1
  <2>4. Active(r)'
    BY <2>2, <2>3
  <2>5. QED
    BY <2>3, <2>4 DEF Active
<1>5. ASSUME t.op \in OnOrder, t.pc # "order"
      PROVE  /\ Effective(t.order)' = Effective(t.order)
             /\ \A l \in LinesOf(t.order) : picked'[l] = picked[l]
  <2>1. PICK o \in Order : o = t.order /\ owner[<<"order", o>>] = d
    BY <1>5 DEF Holds
  <2>2. Effective(o)' = Effective(o) /\ \A l \in LinesOf(o) : picked'[l] = picked[l]
    BY <2>1
  <2>3. QED
    BY <2>1, <2>2 DEF Effective
<1>6. Knows(t)'
  BY <1>4, <1>5 DEF Knows, OnOrder, LinesOf, Active, Effective
<1>7. QED
  BY <1>3, <1>6

(* A step of c that changes no data.                                        *)
LEMMA StepOn ==
  ASSUME IInv, Settled, NEW c \in Client, NEW u, txn' = [txn EXCEPT ![c] = u], UNCHANGED data,
         owner' = owner \/ (\E row : Acquire(c, row)) \/ owner' = Unlocked(c),
         Holds(owner', c, u), Knows(u)
  PROVE  Settled' /\ Final
<1>1. \A d \in Client \ {c} : \A x \in Row : owner[x] = d => owner'[x] = d
  BY LocksKept, LocksFreed
<1>2. txn'[c] = u /\ \A d \in Client \ {c} : txn'[d] = txn[d]
  BY DEF IInv, TypeOK
<1>3. ASSUME NEW d \in Client PROVE Holds(owner', d, txn'[d]) /\ Knows(txn[d])'
  <2>1. CASE d = c
    BY <1>2, <2>1 DEF Knows, data, Active, Effective, LinesOf
  <2>2. CASE d # c
    BY <1>1, <1>2, <2>2, StaysSecured DEF Settled, data, Active, Effective
  <2>3. QED
    BY <2>1, <2>2
<1>4. Numbered' /\ PickedMeansPicked' /\ Final
  BY DEF Settled, data, Numbered, ResvCount, PickedMeansPicked, FullyPicked, LinesOf, Effective, Final
<1>5. QED
  BY <1>3, <1>4 DEF Settled

(* A commit of c leaves the others what they hold and know, if it keeps out *)
(* of what they have locked.                                                *)
LEMMA OthersStay ==
  ASSUME IInv, Settled, NEW c \in Client, NEW op, Commit(c, op),
         \A r \in Resv : owner[<<"resv", r>>] # c /\ Active(r) => Active(r)',
         \A o \in Order : owner[<<"order", o>>] # c =>
            Effective(o)' = Effective(o) /\ \A l \in LinesOf(o) : picked'[l] = picked[l]
  PROVE  \A d \in Client : Holds(owner', d, txn'[d]) /\ Knows(txn[d])'
<1>1. owner' = Unlocked(c) /\ txn' = [txn EXCEPT ![c] = Idle]
  BY DEF Commit
<1>2. txn'[c] = Idle /\ \A d \in Client \ {c} : txn'[d] = txn[d]
  BY <1>1 DEF IInv, TypeOK
<1>3. \A d \in Client \ {c} : \A x \in Row : owner[x] = d => owner'[x] = d
  BY <1>1, LocksFreed
<1>4. ASSUME NEW d \in Client PROVE Holds(owner', d, txn'[d]) /\ Knows(txn[d])'
  <2>1. CASE d = c
    BY <1>2, <2>1, IdleHoldsNothing DEF Knows
  <2>2. CASE d # c
    BY <1>2, <1>3, <2>2, StaysSecured DEF Settled
  <2>3. QED
    BY <2>1, <2>2
<1>5. QED
  BY <1>4

(* New reservations take the numbers after the last.                        *)
LEMMA Inserted ==
  ASSUME IInv, Numbered, NEW s, Len(s) \in Nat, InsertResv(s),
         \A i \in 1..Len(s) : s[i].status = "ACTIVE"
  PROVE  /\ Numbered'
         /\ \A r \in Resv : resv[r].status # "NONE" => resv'[r] = resv[r]
<1> DEFINE n == ResvCount
           m == ResvCount + Len(s)
           S == {r \in Resv : resv'[r].status # "NONE"}
<1>1. n \in Nat /\ m \in Nat /\ m <= NumResv /\ NumResv \in Nat
  BY CountsAreNatural, OrderStockConstants DEF InsertResv
<1>2. \A r \in Resv : resv'[r] = IF r - n \in 1..Len(s) THEN s[r - n] ELSE resv[r]
  BY DEF InsertResv
<1>3. \A r \in Resv : resv[r].status # "NONE" <=> r <= n
  BY <1>1 DEF Numbered, Resv
<1> HIDE DEF n
<1>4. \A r \in Resv : resv'[r].status # "NONE" <=> r <= m
  <2> TAKE r \in Resv
  <2>1. r \in Nat /\ r >= 1
    BY <1>1 DEF Resv
  <2>2. CASE r <= n
    BY <1>1, <1>2, <1>3, <2>1, <2>2 DEF n
  <2>3. CASE r > n /\ r <= m
    <3>1. r - n \in 1..Len(s)
      BY <1>1, <2>1, <2>3 DEF n
    <3>2. QED
      BY <1>2, <2>3, <3>1
  <2>4. CASE r > m
    BY <1>1, <1>2, <1>3, <2>1, <2>4 DEF n
  <2>5. QED
    BY <1>1, <2>1, <2>2, <2>3, <2>4
<1>5. S = 1..m
  BY <1>1, <1>4 DEF Resv
<1>6. Cardinality(1..m) = m
  BY <1>1, FS_Interval
<1>7. Numbered'
  BY <1>5, <1>6 DEF Numbered, ResvCount
<1>8. QED
  BY <1>1, <1>2, <1>3, <1>7 DEF Resv

(* Reservations that exist are edited.                                      *)
LEMMA Rewritten ==
  ASSUME Numbered, \A r \in Resv : resv'[r].status # "NONE" <=> resv[r].status # "NONE"
  PROVE  Numbered'
<1>1. {r \in Resv : resv'[r].status # "NONE"} = {r \in Resv : resv[r].status # "NONE"}
  OBVIOUS
<1>2. QED
  BY <1>1 DEF Numbered, ResvCount

-----------------------------------------------------------------------------
(* A request that begins has locked nothing.                                *)
LEMMA BeginSecured ==
  ASSUME IInv, Settled, NEW c \in Client, NEW request, Begin(c, request),
         Holds(owner, c, request), Knows(request)
  PROVE  Settled' /\ Final
BY StepOn DEF Begin

(* Steps of operations that neither keep an order nor end a reservation.    *)
LEMMA FreeStep ==
  ASSUME IInv, Settled, NEW c \in Client, NEW u, txn' = [txn EXCEPT ![c] = u], UNCHANGED data,
         owner' = owner \/ \E row : Acquire(c, row),
         u.op \notin OnOrder \cup {"release"}
  PROVE  Settled' /\ Final
BY Elsewhere, StepOn

(* A transaction keeps the order it has locked, or locks it now.            *)
LEMMA KeepsOrder ==
  ASSUME IInv, Settled, NEW c \in Client, txn[c].op \in OnOrder,
         \/ txn[c].pc # "order" /\ (owner' = owner \/ \E row : Acquire(c, row))
         \/ Acquire(c, <<"order", txn[c].order>>)
  PROVE  txn[c].order \in Order /\ owner'[<<"order", txn[c].order>>] = c
<1>1. txn[c].order \in Order /\ <<"order", txn[c].order>> \in Row
  BY DEF Settled, Holds, Row
<1>2. CASE txn[c].pc # "order" /\ (owner' = owner \/ \E row : Acquire(c, row))
  BY <1>1, <1>2, LocksKept DEF Settled, Holds
<1>3. CASE Acquire(c, <<"order", txn[c].order>>)
  BY <1>1, <1>3 DEF Acquire, IInv, TypeOK
<1>4. QED
  BY <1>1, <1>2, <1>3

(* Likewise the reservation, which is still active.                         *)
LEMMA KeepsResv ==
  ASSUME IInv, Settled, NEW c \in Client, txn[c].op \in {"release", "confirmPick"},
         txn[c].pc = "quant", txn[c].resv # 0,
         owner' = owner \/ \E row : Acquire(c, row)
  PROVE  owner'[<<"resv", txn[c].resv>>] = c /\ Active(txn[c].resv)
<1>1. <<"resv", txn[c].resv>> \in Row
  BY TxnIsTyped DEF Txn, Row
<1>2. QED
  BY <1>1, LocksKept DEF Settled, Holds, Knows

(* reserveStockQuant of both services.                                      *)
LEMMA ReserveStockQuantSecured ==
  ASSUME IInv, Settled, NEW c \in Client, ReserveStockQuant(c) PROVE Settled' /\ Final
<1> DEFINE t == txn[c]
           pc == IF Len(t.plan) > 1 THEN "quant" ELSE IF t.op = "allocate" THEN "plan" ELSE "commit"
           u == [t EXCEPT !.plan = Tail(@), !.made = Append(@, Head(t.plan)), !.pc = pc]
<1>1. t \in Txn
  BY TxnIsTyped
<1>2. u.op = t.op /\ u.order = t.order
  BY <1>1 DEF Txn
<1>3. txn' = [txn EXCEPT ![c] = u]
  BY DEF ReserveStockQuant, IInv, TypeOK
<1>4. /\ t.op \in {"reserve", "allocate"} /\ t.pc = "quant" /\ UNCHANGED data
      /\ \E row : Acquire(c, row)
  BY DEF ReserveStockQuant
<1> HIDE DEF u
<1>5. CASE t.op = "reserve"
  BY <1>2, <1>3, <1>4, <1>5, FreeStep DEF OnOrder
<1>6. CASE t.op = "allocate"
  <2>1. u.order \in Order /\ owner'[<<"order", u.order>>] = c
    BY <1>2, <1>4, <1>6, KeepsOrder DEF OnOrder
  <2>2. Holds(owner', c, u) /\ Knows(u)
    BY <1>2, <1>6, <2>1 DEF Holds, Knows
  <2>3. QED
    BY <1>3, <1>4, <2>2, StepOn
<1>7. QED
  BY <1>4, <1>5, <1>6

(* ReservationsService.create up to its commit.                             *)
LEMMA ReserveSecured ==
  ASSUME IInv, Settled, NEW c \in Client,
         BeginReserve(c) \/ LockOrderToReserve(c) \/ CheckRemainingQuantity(c)
  PROVE  Settled' /\ Final
<1> DEFINE t == txn[c]
<1>1. t \in Txn
  BY TxnIsTyped
<1>2. CASE BeginReserve(c)
  <2> DEFINE request(x, q, n) ==
               [Idle EXCEPT !.op = "reserve", !.order = x.order, !.line = x.line,
                  !.pc = IF x.order = 0 THEN "quant" ELSE "order",
                  !.plan = <<[line |-> x.line, quant |-> q, qty |-> n]>>]
  <2>1. PICK x, q, n : Begin(c, request(x, q, n))
    BY <1>2 DEF BeginReserve
  <2>2. request(x, q, n).op = "reserve"
    BY DEF Idle
  <2> HIDE DEF request
  <2>3. Holds(owner, c, request(x, q, n)) /\ Knows(request(x, q, n))
    BY <2>2, Elsewhere DEF OnOrder
  <2>4. QED
    BY <2>1, <2>3, BeginSecured
<1>3. CASE LockOrderToReserve(c)
  <2> DEFINE u == [t EXCEPT !.pc = IF t.line = 0 THEN "quant" ELSE "plan", !.saw = picked]
  <2>1. u.op = "reserve"
    BY <1>1, <1>3 DEF Txn, LockOrderToReserve, LockOrder
  <2>2. txn' = [txn EXCEPT ![c] = u]
    BY <1>3 DEF LockOrderToReserve, IInv, TypeOK
  <2>3. UNCHANGED data /\ \E row : Acquire(c, row)
    BY <1>3 DEF LockOrderToReserve, LockOrder
  <2> HIDE DEF u
  <2>4. QED
    BY <2>1, <2>2, <2>3, FreeStep DEF OnOrder
<1>4. CASE CheckRemainingQuantity(c)
  <2> DEFINE u == [t EXCEPT !.pc = "quant"]
  <2>1. u.op = "reserve"
    BY <1>1, <1>4 DEF Txn, CheckRemainingQuantity, CheckRemaining
  <2>2. txn' = [txn EXCEPT ![c] = u]
    BY <1>4 DEF CheckRemainingQuantity, CheckRemaining, IInv, TypeOK
  <2>3. UNCHANGED data /\ owner' = owner
    BY <1>4 DEF CheckRemainingQuantity, CheckRemaining
  <2> HIDE DEF u
  <2>4. QED
    BY <2>1, <2>2, <2>3, FreeStep DEF OnOrder
<1>5. QED
  BY <1>2, <1>3, <1>4

(* AllocationService.allocateOutboundOrder up to its commit.                *)
LEMMA AllocateSecured ==
  ASSUME IInv, Settled, NEW c \in Client,
         BeginAllocate(c) \/ LockOrderToAllocate(c) \/ FindAvailableStockQuants(c) \/ NextLine(c)
  PROVE  Settled' /\ Final
<1> DEFINE t == txn[c]
<1>1. t \in Txn
  BY TxnIsTyped
<1>2. CASE BeginAllocate(c)
  <2>1. PICK o \in Order : Begin(c, [Idle EXCEPT !.op = "allocate", !.pc = "order", !.order = o])
    BY <1>2 DEF BeginAllocate
  <2> DEFINE request == [Idle EXCEPT !.op = "allocate", !.pc = "order", !.order = o]
  <2>2. request.op = "allocate" /\ request.pc = "order" /\ request.order = o
    BY DEF Idle
  <2> HIDE DEF request
  <2>3. Holds(owner, c, request) /\ Knows(request)
    BY <2>2 DEF Holds, Knows
  <2>4. QED
    BY <2>1, <2>3, BeginSecured DEF request
<1>3. ASSUME NEW u, u.op = "allocate", u.order = t.order, txn' = [txn EXCEPT ![c] = u],
             t.op = "allocate", UNCHANGED data,
             \/ t.pc = "plan" /\ owner' = owner
             \/ Acquire(c, <<"order", t.order>>)
      PROVE  Settled' /\ Final
  <2>1. u.order \in Order /\ owner'[<<"order", u.order>>] = c
    BY <1>3, KeepsOrder DEF OnOrder
  <2>2. Holds(owner', c, u) /\ Knows(u)
    BY <1>3, <2>1 DEF Holds, Knows
  <2>3. QED
    BY <1>3, <2>2, StepOn
<1>4. CASE LockOrderToAllocate(c)
  <2> DEFINE u == [t EXCEPT !.pc = "plan", !.line = 1, !.saw = picked]
  <2>1. t.op = "allocate" /\ UNCHANGED data /\ Acquire(c, <<"order", t.order>>)
    BY <1>4 DEF LockOrderToAllocate, LockOrder
  <2>2. u.op = t.op /\ u.order = t.order
    BY <1>1 DEF Txn
  <2>3. txn' = [txn EXCEPT ![c] = u]
    BY <1>4 DEF LockOrderToAllocate, IInv, TypeOK
  <2> HIDE DEF u
  <2>4. QED
    BY <1>3, <2>1, <2>2, <2>3
<1>5. CASE FindAvailableStockQuants(c)
  <2>1. PICK p : txn' = [txn EXCEPT ![c].plan = p, ![c].pc = "quant", ![c].line = t.line + 1]
    BY <1>5 DEF FindAvailableStockQuants
  <2> DEFINE u == [t EXCEPT !.plan = p, !.pc = "quant", !.line = t.line + 1]
  <2>2. t.op = "allocate" /\ t.pc = "plan" /\ UNCHANGED data /\ owner' = owner
    BY <1>5 DEF FindAvailableStockQuants
  <2>3. u.op = t.op /\ u.order = t.order
    BY <1>1 DEF Txn
  <2>4. txn' = [txn EXCEPT ![c] = u]
    BY <2>1 DEF IInv, TypeOK
  <2> HIDE DEF u
  <2>5. QED
    BY <1>3, <2>2, <2>3, <2>4
<1>6. CASE NextLine(c)
  <2>1. PICK u \in {[t EXCEPT !.line = t.line + 1], [t EXCEPT !.pc = "commit"]} :
          txn' = [txn EXCEPT ![c] = u]
    BY <1>6 DEF NextLine, IInv, TypeOK
  <2>2. t.op = "allocate" /\ t.pc = "plan" /\ UNCHANGED data /\ owner' = owner
    BY <1>6 DEF NextLine
  <2>3. u.op = t.op /\ u.order = t.order
    BY <1>1, <2>1 DEF Txn
  <2>4. QED
    BY <1>3, <2>1, <2>2, <2>3
<1>7. QED
  BY <1>2, <1>4, <1>5, <1>6

(* ReservationsService.release and cancel up to their commit.               *)
LEMMA ReleaseSecured ==
  ASSUME IInv, Settled, NEW c \in Client,
         \/ BeginRelease(c) \/ LockOrderToRelease(c) \/ LockResvToRelease(c)
         \/ ReleaseReservedStockQuant(c)
  PROVE  Settled' /\ Final
<1> DEFINE t == txn[c]
<1>1. t \in Txn /\ Ready(t)
  BY TxnIsTyped
<1>2. CASE BeginRelease(c)
  <2> DEFINE request(k, target) ==
               [Idle EXCEPT !.op = "release", !.resv = k, !.order = resv[k].order,
                  !.pc = IF resv[k].order = 0 THEN "resv" ELSE "order", !.target = target]
  <2>1. PICK k, target : Begin(c, request(k, target))
    BY <1>2 DEF BeginRelease
  <2>2. request(k, target).op = "release" /\ request(k, target).pc \in {"resv", "order"}
    BY DEF Idle
  <2> HIDE DEF request
  <2>3. Holds(owner, c, request(k, target)) /\ Knows(request(k, target))
    BY <2>2 DEF Holds, Knows, OnOrder
  <2>4. QED
    BY <2>1, <2>3, BeginSecured
<1>3. CASE LockOrderToRelease(c)
  <2> DEFINE u == [t EXCEPT !.pc = "resv"]
  <2>1. u.op = "release" /\ u.pc = "resv"
    BY <1>1, <1>3 DEF Txn, LockOrderToRelease, LockOrder
  <2>2. txn' = [txn EXCEPT ![c] = u]
    BY <1>3 DEF LockOrderToRelease, IInv, TypeOK
  <2>3. UNCHANGED data /\ \E row : Acquire(c, row)
    BY <1>3 DEF LockOrderToRelease, LockOrder
  <2> HIDE DEF u
  <2>4. Holds(owner', c, u) /\ Knows(u)
    BY <2>1 DEF Holds, Knows, OnOrder
  <2>5. QED
    BY <2>2, <2>3, <2>4, StepOn
<1>4. CASE LockResvToRelease(c)
  <2> DEFINE r == t.resv
             plan == <<[line |-> resv[r].line, quant |-> resv[r].quant, qty |-> resv[r].qty]>>
             u == [t EXCEPT !.pc = "quant", !.qty = resv[r].qty, !.plan = plan]
  <2>1. t.op = "release" /\ Active(r) /\ r \in Resv
    BY <1>1, <1>4 DEF LockResvToRelease, LockResv, Ready, Active
  <2>2. UNCHANGED data /\ Acquire(c, <<"resv", r>>)
    BY <1>4 DEF LockResvToRelease, LockResv
  <2>3. owner'[<<"resv", r>>] = c
    BY <2>1, <2>2 DEF Acquire, IInv, TypeOK, Row
  <2> HIDE DEF plan
  <2>4. u.op = "release" /\ u.resv = r
    BY <1>1, <2>1 DEF Txn
  <2>5. txn' = [txn EXCEPT ![c] = u]
    BY <1>4 DEF LockResvToRelease, IInv, TypeOK, plan
  <2> HIDE DEF u
  <2>6. Holds(owner', c, u) /\ Knows(u)
    BY <2>1, <2>3, <2>4 DEF Holds, Knows, OnOrder
  <2>7. QED
    BY <2>2, <2>5, <2>6, StepOn
<1>5. CASE ReleaseReservedStockQuant(c)
  <2> DEFINE u == [t EXCEPT !.pc = "commit"]
  <2>1. t.op = "release" /\ t.pc = "quant" /\ UNCHANGED data /\ \E row : Acquire(c, row)
    BY <1>5 DEF ReleaseReservedStockQuant
  <2>2. u.op = "release" /\ u.resv = t.resv
    BY <1>1, <2>1 DEF Txn
  <2>3. txn' = [txn EXCEPT ![c] = u]
    BY <1>5 DEF ReleaseReservedStockQuant, IInv, TypeOK
  <2> HIDE DEF u
  <2>4. t.resv # 0 => owner'[<<"resv", t.resv>>] = c /\ Active(t.resv)
    BY <2>1, KeepsResv
  <2>5. Holds(owner', c, u) /\ Knows(u)
    BY <2>2, <2>4 DEF Holds, Knows, OnOrder
  <2>6. QED
    BY <2>1, <2>3, <2>5, StepOn
<1>6. QED
  BY <1>2, <1>3, <1>4, <1>5

(* FulfillmentService.releasePicking, pack and ship up to their commits.    *)
LEMMA StageSecured ==
  ASSUME IInv, Settled, NEW c \in Client,
         \/ \E op \in {"releasePicking", "pack", "ship"} : BeginOnOrder(c, op)
         \/ LockOrderToReleasePicking(c) \/ LockOrderToPack(c) \/ LockOrderToShip(c)
  PROVE  Settled' /\ Final
<1> DEFINE t == txn[c]
<1>1. t \in Txn
  BY TxnIsTyped
<1>2. ASSUME NEW op \in {"releasePicking", "pack", "ship"}, BeginOnOrder(c, op)
      PROVE  Settled' /\ Final
  <2>1. PICK o \in Order : Begin(c, [Idle EXCEPT !.op = op, !.pc = "order", !.order = o])
    BY <1>2 DEF BeginOnOrder
  <2> DEFINE request == [Idle EXCEPT !.op = op, !.pc = "order", !.order = o]
  <2>2. request.op = op /\ request.pc = "order" /\ request.order = o
    BY DEF Idle
  <2> HIDE DEF request
  <2>3. Holds(owner, c, request) /\ Knows(request)
    BY <2>2 DEF Holds, Knows
  <2>4. QED
    BY <2>1, <2>3, BeginSecured DEF request
<1>3. CASE LockOrderToReleasePicking(c)
  <2>1. PICK s : txn' = [txn EXCEPT ![c].pc = "commit", ![c].tasks = s]
    BY <1>3 DEF LockOrderToReleasePicking
  <2> DEFINE u == [t EXCEPT !.pc = "commit", !.tasks = s]
  <2>2. t.op = "releasePicking" /\ UNCHANGED data /\ Acquire(c, <<"order", t.order>>)
    BY <1>3 DEF LockOrderToReleasePicking, LockOrder
  <2>3. u.op = "releasePicking" /\ u.order = t.order
    BY <1>1, <2>2 DEF Txn
  <2>4. txn' = [txn EXCEPT ![c] = u]
    BY <2>1 DEF IInv, TypeOK
  <2> HIDE DEF u
  <2>5. u.order \in Order /\ owner'[<<"order", u.order>>] = c
    BY <2>2, <2>3, KeepsOrder DEF OnOrder
  <2>6. Holds(owner', c, u) /\ Knows(u)
    BY <2>3, <2>5 DEF Holds, Knows
  <2>7. QED
    BY <2>2, <2>4, <2>6, StepOn
<1>4. CASE LockOrderToPack(c) \/ LockOrderToShip(c)
  <2> DEFINE u == [t EXCEPT !.pc = "commit"]
  <2>1. /\ t.op \in {"pack", "ship"} /\ UNCHANGED data /\ Acquire(c, <<"order", t.order>>)
        /\ Effective(t.order) = IF t.op = "pack" THEN "PICKED" ELSE "PACKED"
    BY <1>4 DEF LockOrderToPack, LockOrderToShip, LockOrder
  <2>2. u.op = t.op /\ u.order = t.order
    BY <1>1 DEF Txn
  <2>3. txn' = [txn EXCEPT ![c] = u]
    BY <1>4 DEF LockOrderToPack, LockOrderToShip, IInv, TypeOK
  <2> HIDE DEF u
  <2>4. u.order \in Order /\ owner'[<<"order", u.order>>] = c
    BY <2>1, <2>2, KeepsOrder DEF OnOrder
  <2>5. Holds(owner', c, u) /\ Knows(u)
    BY <2>1, <2>2, <2>4 DEF Holds, Knows
  <2>6. QED
    BY <2>1, <2>3, <2>5, StepOn
<1>5. QED
  BY <1>2, <1>3, <1>4

(* FulfillmentService.confirmPick up to its commit: what it saw of its line *)
(* under the order lock stays true.                                         *)
LEMMA PickSecured ==
  ASSUME IInv, Settled, NEW c \in Client,
         \/ BeginConfirmPick(c) \/ LockOrderToPick(c) \/ LockResvToPick(c) \/ ApplyPickToQuant(c)
  PROVE  Settled' /\ Final
<1> DEFINE t == txn[c]
<1>1. t \in Txn /\ Ready(t)
  BY TxnIsTyped
<1>2. CASE BeginConfirmPick(c)
  <2> DEFINE request(k, l, n) == [Idle EXCEPT !.op = "confirmPick", !.pc = "order",
                                    !.order = OrderOf[l], !.line = l, !.task = k, !.qty = n]
  <2>1. PICK k \in Task : \E l \in (IF LineOverride THEN Line ELSE {task[k].line}) \ {0} :
          \E n \in 1..Ordered[l] : Begin(c, request(k, l, n))
    BY <1>2 DEF BeginConfirmPick
  <2>2. PICK l \in (IF LineOverride THEN Line ELSE {task[k].line}) \ {0} :
          \E n \in 1..Ordered[l] : Begin(c, request(k, l, n))
    BY <2>1
  <2>3. PICK n \in 1..Ordered[l] : Begin(c, request(k, l, n))
    BY <2>2
  <2>4. l \in Line
    <3>1. task[k].line \in Line \cup {0}
      BY DEF IInv, TypeOK, TaskRow
    <3>2. QED
      BY <2>2, <3>1
  <2> DEFINE q == request(k, l, n)
  <2>5. q.op = "confirmPick" /\ q.pc = "order" /\ q.order = OrderOf[l] /\ q.line = l
    BY DEF Idle
  <2> HIDE DEF q
  <2>6. OrderOf[l] \in Order /\ l \in LinesOf(OrderOf[l])
    BY <2>4, OrderStockConstants DEF LinesOf
  <2>7. Holds(owner, c, q) /\ Knows(q)
    BY <2>5, <2>6 DEF Holds, Knows
  <2>8. QED
    BY <2>3, <2>7, BeginSecured DEF q
<1>3. CASE LockOrderToPick(c)
  <2>1. PICK s : txn' = [txn EXCEPT ![c].pc = IF s.resv = 0 THEN "quant" ELSE "resv",
                           ![c].saw = picked, ![c].resv = s.resv,
                           ![c].plan = <<[line |-> t.line, quant |-> s.quant, qty |-> t.qty]>>]
    BY <1>3 DEF LockOrderToPick
  <2> DEFINE plan == <<[line |-> t.line, quant |-> s.quant, qty |-> t.qty]>>
             u == [t EXCEPT !.pc = IF s.resv = 0 THEN "quant" ELSE "resv",
                     !.saw = picked, !.resv = s.resv, !.plan = plan]
  <2>2. t.op = "confirmPick" /\ UNCHANGED data /\ Acquire(c, <<"order", t.order>>)
    BY <1>3 DEF LockOrderToPick, LockOrder
  <2>3. txn' = [txn EXCEPT ![c] = u]
    BY <2>1 DEF IInv, TypeOK
  <2> HIDE DEF plan
  <2>4. /\ u.op = "confirmPick" /\ u.order = t.order /\ u.line = t.line /\ u.saw = picked
        /\ u.pc = "resv" \/ u.resv = 0
    BY <1>1, <2>2 DEF Txn
  <2> HIDE DEF u
  <2>5. u.order \in Order /\ owner'[<<"order", u.order>>] = c
    BY <2>2, <2>4, KeepsOrder DEF OnOrder
  <2>6. u.line \in LinesOf(u.order)
    BY <2>2, <2>4 DEF Settled, Knows
  <2>7. Holds(owner', c, u) /\ Knows(u)
    BY <2>4, <2>5, <2>6 DEF Holds, Knows
  <2>8. QED
    BY <2>2, <2>3, <2>7, StepOn
<1>4. CASE LockResvToPick(c)
  <2> DEFINE u == [t EXCEPT !.pc = "quant"]
  <2>1. /\ t.op = "confirmPick" /\ t.pc = "resv" /\ Active(t.resv)
        /\ UNCHANGED data /\ Acquire(c, <<"resv", t.resv>>)
    BY <1>4 DEF LockResvToPick, LockResv
  <2>2. /\ u.op = "confirmPick" /\ u.order = t.order /\ u.line = t.line /\ u.saw = t.saw
        /\ u.resv = t.resv
    BY <1>1, <2>1 DEF Txn
  <2>3. txn' = [txn EXCEPT ![c] = u]
    BY <1>4 DEF LockResvToPick, IInv, TypeOK
  <2> HIDE DEF u
  <2>4. u.order \in Order /\ owner'[<<"order", u.order>>] = c
    BY <2>1, <2>2, KeepsOrder DEF OnOrder
  <2>5. u.resv # 0 => owner'[<<"resv", u.resv>>] = c
    BY <1>1, <2>1, <2>2 DEF Acquire, IInv, TypeOK, Txn, Row
  <2>6. u.line \in LinesOf(u.order) /\ u.saw[u.line] = picked[u.line]
    BY <2>1, <2>2 DEF Settled, Knows
  <2>7. Holds(owner', c, u) /\ Knows(u)
    BY <2>1, <2>2, <2>4, <2>5, <2>6 DEF Holds, Knows
  <2>8. QED
    BY <2>1, <2>3, <2>7, StepOn
<1>5. CASE ApplyPickToQuant(c)
  <2> DEFINE u == [t EXCEPT !.pc = "commit"]
  <2>1. /\ t.op = "confirmPick" /\ t.pc = "quant" /\ UNCHANGED data
        /\ \E row : Acquire(c, row)
    BY <1>5 DEF ApplyPickToQuant
  <2>2. /\ u.op = "confirmPick" /\ u.order = t.order /\ u.line = t.line /\ u.saw = t.saw
        /\ u.resv = t.resv
    BY <1>1, <2>1 DEF Txn
  <2>3. txn' = [txn EXCEPT ![c] = u]
    BY <1>5 DEF ApplyPickToQuant, IInv, TypeOK
  <2> HIDE DEF u
  <2>4. u.order \in Order /\ owner'[<<"order", u.order>>] = c
    BY <2>1, <2>2, KeepsOrder DEF OnOrder
  <2>5. u.resv # 0 => owner'[<<"resv", u.resv>>] = c /\ Active(u.resv)
    BY <2>1, <2>2, KeepsResv
  <2>6. u.line \in LinesOf(u.order) /\ u.saw[u.line] = picked[u.line]
    BY <2>1, <2>2 DEF Settled, Knows
  <2>7. Holds(owner', c, u) /\ Knows(u)
    BY <2>2, <2>4, <2>5, <2>6 DEF Holds, Knows
  <2>8. QED
    BY <2>1, <2>3, <2>7, StepOn
<1>6. QED
  BY <1>2, <1>3, <1>4, <1>5

(* The steps of WarehouseTasksService before its write, and a rollback.     *)
LEMMA TaskSecured ==
  ASSUME IInv, Settled, NEW c \in Client, ReadTask(c) \/ ClaimTask(c) \/ LockTask(c) \/ Rollback(c)
  PROVE  Settled' /\ Final
<1> DEFINE t == txn[c]
<1>1. t \in Txn
  BY TxnIsTyped
<1>2. CASE ReadTask(c) \/ ClaimTask(c)
  <2> DEFINE request(pc, k, s) == [Idle EXCEPT !.op = "task", !.pc = pc, !.task = k, !.target = s]
  <2>1. PICK pc, k, s : Begin(c, request(pc, k, s))
    BY <1>2 DEF ReadTask, ClaimTask
  <2>2. request(pc, k, s).op = "task"
    BY DEF Idle
  <2> HIDE DEF request
  <2>3. Holds(owner, c, request(pc, k, s)) /\ Knows(request(pc, k, s))
    BY <2>2, Elsewhere DEF OnOrder
  <2>4. QED
    BY <2>1, <2>3, BeginSecured
<1>3. CASE LockTask(c)
  <2> DEFINE u == [t EXCEPT !.pc = "commit"]
  <2>1. u.op = "task"
    BY <1>1, <1>3 DEF Txn, LockTask
  <2>2. txn' = [txn EXCEPT ![c] = u]
    BY <1>3 DEF LockTask, IInv, TypeOK
  <2>3. UNCHANGED data /\ \E row : Acquire(c, row)
    BY <1>3 DEF LockTask
  <2> HIDE DEF u
  <2>4. QED
    BY <2>1, <2>2, <2>3, FreeStep DEF OnOrder
<1>4. CASE Rollback(c)
  BY <1>4, IdleHoldsNothing, StepOn DEF Rollback
<1>5. QED
  BY <1>2, <1>3, <1>4

-----------------------------------------------------------------------------
(* A commit that leaves the orders and their lines alone.                   *)
LEMMA OrdersAlone ==
  ASSUME UNCHANGED <<status, fulfil, picked>>
  PROVE  /\ \A o \in Order : Effective(o)' = Effective(o) /\ \A l \in LinesOf(o) : picked'[l] = picked[l]
         /\ PickedMeansPicked => PickedMeansPicked'
BY DEF Effective, PickedMeansPicked, FullyPicked, LinesOf

(* The commits of the steps that insert reservations.                       *)
LEMMA InsertCommits ==
  ASSUME IInv, Settled, NEW c \in Client, CommitReserve(c) \/ CommitAllocate(c)
  PROVE  Settled' /\ Final
<1> DEFINE s == NewReservations(c)
           t == txn[c]
<1>1. t \in Txn
  BY TxnIsTyped
<1>2. Len(s) \in Nat /\ \A i \in 1..Len(s) : s[i].status = "ACTIVE"
  <2>1. t.made \in Seq(Part)
    BY <1>1 DEF Txn
  <2>2. Len(t.made) \in Nat
    BY <2>1
  <2> DEFINE n == Len(t.made)
  <2>3. s = [i \in 1..n |-> [status |-> "ACTIVE", order |-> t.order, line |-> t.made[i].line,
                             quant |-> t.made[i].quant, qty |-> t.made[i].qty]]
    BY DEF NewReservations
  <2> HIDE DEF n, s
  <2>4. Len(s) = n /\ \A i \in 1..n : s[i].status = "ACTIVE"
    BY <2>2, <2>3 DEF n
  <2>5. QED
    BY <2>2, <2>4 DEF n
<1>3. InsertResv(s)
  BY DEF CommitReserve, CommitAllocate
<1>4. Numbered' /\ \A r \in Resv : resv[r].status # "NONE" => resv'[r] = resv[r]
  BY <1>2, <1>3, Inserted DEF Settled
<1>5. Final /\ \A r \in Resv : Active(r) => Active(r)'
  BY <1>4 DEF Final, Active
<1>6. /\ PickedMeansPicked'
      /\ \A o \in Order : owner[<<"order", o>>] # c =>
            Effective(o)' = Effective(o) /\ \A l \in LinesOf(o) : picked'[l] = picked[l]
  <2>1. CASE CommitReserve(c)
    BY <2>1, OrdersAlone DEF CommitReserve, Settled
  <2>2. CASE CommitAllocate(c)
    <3>1. t.op = "allocate" /\ t.pc = "commit"
      BY <2>2 DEF CommitAllocate, Commit
    <3>2. t.order \in Order /\ owner[<<"order", t.order>>] = c
      BY <3>1 DEF Settled, Holds, OnOrder
    <3>3. /\ fulfil' = fulfil /\ picked' = picked
          /\ \A o \in Order : status'[o] = IF o = t.order THEN "ALLOCATED" ELSE status[o]
      BY <2>2 DEF CommitAllocate, IInv, TypeOK
    <3>4. \A o \in Order : Effective(o)' = Effective(o) \/ Effective(o)' = "ALLOCATED"
      BY <3>3 DEF Effective
    <3>5. PickedMeansPicked'
      BY <3>3, <3>4 DEF Settled, PickedMeansPicked, FullyPicked, LinesOf
    <3>6. \A o \in Order \ {t.order} : Effective(o)' = Effective(o)
      BY <3>3 DEF Effective
    <3>7. QED
      BY <3>2, <3>3, <3>5, <3>6
  <2>3. QED
    BY <2>1, <2>2
<1>7. Commit(c, "reserve") \/ Commit(c, "allocate")
  BY DEF CommitReserve, CommitAllocate
<1>8. \A d \in Client : Holds(owner', d, txn'[d]) /\ Knows(txn[d])'
  BY <1>5, <1>6, <1>7, OthersStay
<1>9. QED
  BY <1>4, <1>5, <1>6, <1>8 DEF Settled

(* The commit of release and cancel: what it ends is active.                *)
LEMMA ReleaseCommits ==
  ASSUME IInv, Settled, NEW c \in Client, CommitRelease(c)
  PROVE  Settled' /\ Final
<1> DEFINE t == txn[c]
           r == t.resv
<1>1. t.op = "release" /\ t.pc = "commit" /\ r \in Resv /\ t.target \in {"RELEASED", "CANCELLED"}
  BY TxnIsTyped DEF CommitRelease, Commit, Ready
<1>2. owner[<<"resv", r>>] = c /\ Active(r)
  <2>1. r # 0
    BY <1>1 DEF Resv
  <2>2. QED
    BY <1>1, <2>1 DEF Settled, Holds, Knows
<1>3. /\ \A k \in Resv \ {r} : resv'[k] = resv[k]
      /\ resv'[r].status = t.target
  <2>1. resv \in [Resv -> ResvRow] /\ resv' = [resv EXCEPT ![r].status = t.target]
    BY DEF CommitRelease, IInv, TypeOK
  <2>2. resv[r] \in ResvRow
    BY <1>1, <2>1
  <2>3. resv'[r] = [resv[r] EXCEPT !.status = t.target]
    BY <1>1, <2>1
  <2>4. resv'[r].status = t.target
    BY <2>2, <2>3 DEF ResvRow
  <2>5. QED
    BY <2>1, <2>4
<1>4. Final
  BY <1>2, <1>3 DEF Final, Active
<1>5. Numbered'
  <2>1. \A k \in Resv : resv'[k].status # "NONE" <=> resv[k].status # "NONE"
    BY <1>1, <1>2, <1>3 DEF Active
  <2>2. QED
    BY <2>1, Rewritten DEF Settled
<1>6. \A k \in Resv : owner[<<"resv", k>>] # c /\ Active(k) => Active(k)'
  BY <1>2, <1>3 DEF Active
<1>7. /\ PickedMeansPicked'
      /\ \A o \in Order : Effective(o)' = Effective(o) /\ \A l \in LinesOf(o) : picked'[l] = picked[l]
  BY OrdersAlone DEF CommitRelease, Settled
<1>8. Commit(c, "release")
  BY DEF CommitRelease
<1>9. \A d \in Client : Holds(owner', d, txn'[d]) /\ Knows(txn[d])'
  BY <1>6, <1>7, <1>8, OthersStay
<1>10. QED
  BY <1>4, <1>5, <1>7, <1>9 DEF Settled

(* updateOrderStatus of an order that c has locked changes no other order.  *)
LEMMA OneOrder ==
  ASSUME IInv, PickedMeansPicked, NEW c, NEW o \in Order, NEW new, UpdateOrderStatus(o, new),
         owner[<<"order", o>>] = c, new # "UNSET", NEW L, L \cap Line \subseteq LinesOf(o),
         \A l \in Line \ L : picked'[l] = picked[l],
         new \in {"PICKED", "PACKED", "SHIPPED"} => FullyPicked(o, picked')
  PROVE  /\ PickedMeansPicked'
         /\ \A x \in Order : owner[<<"order", x>>] # c =>
              Effective(x)' = Effective(x) /\ \A l \in LinesOf(x) : picked'[l] = picked[l]
<1>1. /\ fulfil \in [Order -> OrderStatus \cup {"UNSET"}] /\ status \in [Order -> OrderStatus]
      /\ status' = [status EXCEPT ![o] = new] /\ fulfil' = [fulfil EXCEPT ![o] = new]
  BY DEF UpdateOrderStatus, IInv, TypeOK
<1>2. Effective(o)' = new
  BY <1>1 DEF Effective
<1>3. ASSUME NEW x \in Order \ {o}
      PROVE  Effective(x)' = Effective(x) /\ \A l \in LinesOf(x) : picked'[l] = picked[l]
  <2>1. Effective(x)' = Effective(x)
    BY <1>1, <1>3 DEF Effective
  <2>2. \A l \in LinesOf(x) : l \in Line \ L
    BY <1>3 DEF LinesOf
  <2>3. QED
    BY <2>1, <2>2
<1>4. ASSUME NEW x \in Order, Effective(x)' \in {"PICKED", "PACKED", "SHIPPED"}
      PROVE  FullyPicked(x, picked')
  <2>1. CASE x = o
    BY <1>2, <1>4, <2>1
  <2>2. CASE x # o
    BY <1>3, <1>4, <2>2 DEF PickedMeansPicked, FullyPicked
  <2>3. QED
    BY <2>1, <2>2
<1>5. PickedMeansPicked'
  BY <1>4 DEF PickedMeansPicked, FullyPicked, LinesOf
<1>6. QED
  BY <1>3, <1>5

(* The commits of releasePicking, pack and ship.                            *)
LEMMA StageCommits ==
  ASSUME IInv, Settled, NEW c \in Client,
         CommitReleasePicking(c) \/ CommitPack(c) \/ CommitShip(c)
  PROVE  Settled' /\ Final
<1> DEFINE t == txn[c]
           o == t.order
<1>1. PICK op \in {"releasePicking", "pack", "ship"}, new \in {"PICKING", "PACKED", "SHIPPED"} :
        /\ Commit(c, op) /\ UpdateOrderStatus(o, new)
        /\ op = "releasePicking" => new = "PICKING"
  BY DEF CommitReleasePicking, CommitPack, CommitShip
<1>2. resv' = resv /\ picked' = picked
  BY DEF CommitReleasePicking, CommitPack, CommitShip
<1>3. t.op = op /\ t.pc = "commit"
  BY <1>1 DEF Commit
<1>4. o \in Order /\ owner[<<"order", o>>] = c
  BY <1>3 DEF Settled, Holds, OnOrder
<1>5. new \in {"PICKED", "PACKED", "SHIPPED"} => FullyPicked(o, picked')
  <2>1. CASE op \in {"pack", "ship"}
    <3>1. Effective(o) \in {"PICKED", "PACKED"}
      BY <1>3, <2>1 DEF Settled, Knows
    <3>2. QED
      BY <1>2, <1>4, <3>1 DEF Settled, PickedMeansPicked
  <2>2. CASE op = "releasePicking"
    BY <1>1, <2>2
  <2>3. QED
    BY <2>1, <2>2
<1>6. /\ PickedMeansPicked'
      /\ \A x \in Order : owner[<<"order", x>>] # c =>
           Effective(x)' = Effective(x) /\ \A l \in LinesOf(x) : picked'[l] = picked[l]
  <2>1. {} \cap Line \subseteq LinesOf(o) /\ \A l \in Line \ {} : picked'[l] = picked[l]
    BY <1>2
  <2>2. PickedMeansPicked /\ new # "UNSET"
    BY DEF Settled
  <2> HIDE DEF o
  <2>3. QED
    BY <1>1, <1>4, <1>5, <2>1, <2>2, OneOrder
<1>7. Final /\ Numbered' /\ \A r \in Resv : Active(r)' = Active(r)
  BY <1>2 DEF Settled, Final, Numbered, ResvCount, Active
<1>8. \A d \in Client : Holds(owner', d, txn'[d]) /\ Knows(txn[d])'
  BY <1>1, <1>6, <1>7, OthersStay
<1>9. QED
  BY <1>6, <1>7, <1>8 DEF Settled

(* The commit of confirmPick: the pieces are added to the picked quantity   *)
(* the line has now, and the reservation it ends or shortens is active.     *)
LEMMA PickCommits ==
  ASSUME IInv, Settled, NEW c \in Client, CommitConfirmPick(c)
  PROVE  Settled' /\ Final
<1> DEFINE t == txn[c]
           o == t.order
           r == t.resv
           l == t.line
<1>1. /\ t.op = "confirmPick" /\ t.pc = "commit" /\ t.qty \in Nat /\ l \in Line
      /\ r \in Resv \cup {0} /\ Commit(c, "confirmPick")
  BY TxnIsTyped DEF CommitConfirmPick, Commit, Ready, Txn
<1>2. /\ o \in Order /\ owner[<<"order", o>>] = c /\ l \in LinesOf(o)
      /\ t.saw[l] = picked[l]
      /\ r # 0 => owner[<<"resv", r>>] = c /\ Active(r)
  BY <1>1 DEF Settled, Holds, Knows, OnOrder
<1>3. /\ resv \in [Resv -> ResvRow] /\ picked \in [Line -> Nat]
      /\ resv' = PickedResv(r, t.qty) /\ picked' = [picked EXCEPT ![l] = picked[l] + t.qty]
      /\ \/ FullyPicked(o, picked') /\ UpdateOrderStatus(o, "PICKED")
         \/ ~FullyPicked(o, picked') /\ UNCHANGED <<status, fulfil>>
  BY <1>2 DEF CommitConfirmPick, IInv, TypeOK
<1> HIDE DEF o, r, l
<1>4. /\ \A k \in Resv : k # r => resv'[k] = resv[k]
      /\ r # 0 => resv'[r].status \in {"ACTIVE", "PICKED"}
  <2>1. CASE r = 0
    BY <1>3, <2>1 DEF PickedResv
  <2>2. CASE r # 0
    <3>1. resv[r] \in ResvRow /\ resv[r].status = "ACTIVE" /\ r \in Resv
      BY <1>1, <1>2, <1>3, <2>2 DEF Active, r
    <3>2. \/ resv' = [resv EXCEPT ![r].status = "PICKED"]
          \/ resv' = [resv EXCEPT ![r].qty = @ - t.qty]
      BY <1>3, <2>2 DEF PickedResv
    <3>3. \/ resv'[r] = [resv[r] EXCEPT !.status = "PICKED"]
          \/ resv'[r] = [resv[r] EXCEPT !.qty = @ - t.qty]
      BY <1>3, <3>1, <3>2
    <3>4. resv'[r].status \in {"ACTIVE", "PICKED"}
      BY <3>1, <3>3 DEF ResvRow
    <3>5. \A k \in Resv : k # r => resv'[k] = resv[k]
      BY <1>3, <3>2
    <3>6. QED
      BY <3>4, <3>5
  <2>3. QED
    BY <2>1, <2>2
<1>5. Final
  <2> SUFFICES ASSUME NEW k \in Resv, resv[k].status \in {"PICKED", "RELEASED", "CANCELLED"}
               PROVE  resv'[k] = resv[k]
    BY DEF Final
  <2>1. k # 0
    BY DEF Resv
  <2>2. k # r
    BY <1>2, <2>1 DEF Active
  <2>3. QED
    BY <1>4, <2>2
<1>6. Numbered'
  <2>1. \A k \in Resv : k # 0
    BY DEF Resv
  <2>2. \A k \in Resv : resv'[k].status # "NONE" <=> resv[k].status # "NONE"
    BY <1>2, <1>4, <2>1 DEF Active
  <2>3. QED
    BY <2>2, Rewritten DEF Settled
<1>7. \A k \in Resv : owner[<<"resv", k>>] # c /\ Active(k) => Active(k)'
  <2>1. \A k \in Resv : k # 0
    BY DEF Resv
  <2>2. QED
    BY <1>2, <1>4, <2>1 DEF Active
<1>8. \A k \in Line \ {l} : picked'[k] = picked[k]
  BY <1>3
<1>9. /\ PickedMeansPicked'
      /\ \A x \in Order : owner[<<"order", x>>] # c =>
           Effective(x)' = Effective(x) /\ \A k \in LinesOf(x) : picked'[k] = picked[k]
  <2>1. CASE FullyPicked(o, picked') /\ UpdateOrderStatus(o, "PICKED")
    <3>1. {l} \cap Line \subseteq LinesOf(o)
      BY <1>2
    <3>2. PickedMeansPicked
      BY DEF Settled
    <3>3. QED
      BY <1>2, <1>8, <2>1, <3>1, <3>2, OneOrder
  <2>2. CASE ~FullyPicked(o, picked') /\ UNCHANGED <<status, fulfil>>
    <3>1. \A x \in Order : Effective(x)' = Effective(x)
      BY <2>2 DEF Effective
    <3>2. \A k \in Line : picked[k] \in Nat /\ picked'[k] \in Nat /\ picked'[k] >= picked[k]
      BY <1>1, <1>3
    <3>3. \A k \in Line : Ordered[k] \in Nat
      BY OrderStockConstants
    <3>4. \A x \in Order : FullyPicked(x, picked) => FullyPicked(x, picked')
      BY <3>2, <3>3 DEF FullyPicked, LinesOf
    <3>5. PickedMeansPicked'
      BY <3>1, <3>4 DEF Settled, PickedMeansPicked, FullyPicked, LinesOf
    <3>6. ASSUME NEW x \in Order, owner[<<"order", x>>] # c, NEW k \in LinesOf(x)
          PROVE  picked'[k] = picked[k]
      BY <1>2, <1>8, <3>6 DEF LinesOf
    <3>7. QED
      BY <3>1, <3>5, <3>6
  <2>3. QED
    BY <1>3, <2>1, <2>2
<1>10. \A d \in Client : Holds(owner', d, txn'[d]) /\ Knows(txn[d])'
  BY <1>1, <1>7, <1>9, OthersStay
<1>11. QED
  BY <1>5, <1>6, <1>9, <1>10 DEF Settled

(* The write of a task.                                                     *)
LEMMA TaskCommits ==
  ASSUME IInv, Settled, NEW c \in Client, WriteTask(c)
  PROVE  Settled' /\ Final
<1>1. Commit(c, "task") /\ resv' = resv /\ UNCHANGED <<status, fulfil, picked>>
  BY DEF WriteTask
<1>2. Final /\ Numbered' /\ \A r \in Resv : Active(r)' = Active(r)
  BY <1>1 DEF Settled, Final, Numbered, ResvCount, Active
<1>3. /\ PickedMeansPicked'
      /\ \A o \in Order : Effective(o)' = Effective(o) /\ \A l \in LinesOf(o) : picked'[l] = picked[l]
  BY <1>1, OrdersAlone DEF Settled
<1>4. \A d \in Client : Holds(owner', d, txn'[d]) /\ Knows(txn[d])'
  BY <1>1, <1>2, <1>3, OthersStay
<1>5. QED
  BY <1>2, <1>3, <1>4 DEF Settled

-----------------------------------------------------------------------------
(* Every step of the desk keeps this, and no step ends what has ended.      *)
LEMMA DeskSettled ==
  ASSUME IInv, Settled, [Next]_vars PROVE Settled' /\ Final
<1>1. ASSUME NEW c \in Client, DeskStep(c) PROVE Settled' /\ Final
  <2>1. CASE Reserving(c)
    BY <2>1, ReserveSecured, ReserveStockQuantSecured, InsertCommits DEF Reserving
  <2>2. CASE Allocating(c)
    BY <2>2, AllocateSecured, InsertCommits DEF Allocating
  <2>3. CASE Releasing(c)
    BY <2>3, ReleaseSecured, ReleaseCommits DEF Releasing
  <2>4. CASE Picking(c)
    BY <2>4, PickSecured, PickCommits DEF Picking
  <2>5. CASE Staging(c)
    BY <2>5, StageSecured, StageCommits DEF Staging
  <2>6. CASE Tasking(c)
    BY <2>6, TaskSecured, TaskCommits DEF Tasking
  <2>7. CASE Rollback(c)
    BY <2>7, TaskSecured
  <2>8. QED
    BY <1>1, <2>1, <2>2, <2>3, <2>4, <2>5, <2>6, <2>7 DEF DeskStep
<1>2. CASE UNCHANGED vars
  <2>1. /\ owner' = owner /\ txn' = txn /\ resv' = resv
        /\ UNCHANGED <<status, fulfil, picked>>
    BY <1>2 DEF vars, data, locals
  <2>2. \A d \in Client : Holds(owner', d, txn'[d]) /\ Knows(txn[d])'
    BY <2>1 DEF Settled, Knows, Active, Effective, LinesOf
  <2>3. Numbered' /\ Final /\ PickedMeansPicked'
    BY <2>1, OrdersAlone DEF Settled, Numbered, ResvCount, Final
  <2>4. QED
    BY <2>2, <2>3 DEF Settled
<1>3. QED
  BY <1>1, <1>2 DEF Next

(* At the start no reservation is numbered.                                 *)
LEMMA StartsNumbered == Init => Numbered
<1> SUFFICES ASSUME Init PROVE Numbered
  OBVIOUS
<1>1. {r \in Resv : resv[r].status # "NONE"} = {}
  BY DEF Init, NoResv
<1>2. Cardinality({}) = 0
  BY FS_EmptySet
<1>3. ResvCount = 0
  BY <1>1, <1>2 DEF ResvCount
<1>4. 1..0 = {}
  OBVIOUS
<1>5. QED
  BY <1>1, <1>3, <1>4 DEF Numbered

(* What the locks of the desk protect holds in every reachable state.       *)
THEOREM DeskStaysSettled == Spec => []Settled
<1>1. Init => Settled
  <2> SUFFICES ASSUME Init PROVE Settled
    OBVIOUS
  <2>1. \A c \in Client : Holds(owner, c, txn[c]) /\ Knows(txn[c])
    BY IdleHoldsNothing DEF Init
  <2>2. Numbered
    BY StartsNumbered
  <2>3. PickedMeansPicked
    BY DEF Init, PickedMeansPicked, Effective
  <2>4. QED
    BY <2>1, <2>2, <2>3 DEF Settled
<1>2. IInv /\ Settled /\ [Next]_vars => Settled'
  BY DeskSettled
<1>3. QED
  BY <1>1, <1>2, StockStaysCovered, PTL DEF Spec

(* A reservation that was picked, released or cancelled is never written    *)
(* again: release, cancel and confirmPick read its status under its lock,   *)
(* so a second release or a late pick sees what the first has committed.    *)
THEOREM FinalReservationStays == Spec => ReservationFinal
<1>1. IInv /\ Settled /\ [Next]_vars
        => [\A r \in Resv : resv[r].status \in {"PICKED", "RELEASED", "CANCELLED"}
                            => resv'[r] = resv[r]]_vars
  BY DeskSettled DEF Final
<1>2. QED
  BY <1>1, StockStaysCovered, DeskStaysSettled, PTL DEF Spec, ReservationFinal

(* An order counts as PICKED, PACKED or SHIPPED only with every line picked:*)
(* confirmPick, pack and ship decide under the lock of the order, and no    *)
(* pick of another request overwrites the quantity they have seen.          *)
THEOREM PickedOrderIsPicked == Spec => []PickedMeansPicked
<1>1. Settled => PickedMeansPicked
  BY DEF Settled
<1>2. QED
  BY <1>1, DeskStaysSettled, PTL
-----------------------------------------------------------------------------
(* The order of the locks.  Scanner is at work on no more than it likes; a   *)
(* transaction of the desk has locked only rows that come, in the order      *)
(* order, reservation, quant, task, before those it will ask for.            *)
Scanner == {"rfPick", "rfException"}

Behind(t, row) ==
  \/ row[1] = "order" /\ t.op # "task" /\ t.pc \in {"resv", "plan", "quant", "commit"}
  \/ row[1] = "resv"  /\ t.op \notin {"task", "allocate"} /\ t.pc \in {"quant", "commit"}
  \/ row[1] = "quant" /\ t.op # "task" /\ t.pc = "commit"
  \/ row[1] = "quant" /\ t.op = "allocate" /\ t.pc \in {"plan", "quant"}
  \/ t.op = "task" /\ t.pc = "commit" /\ row = <<"task", t.task>>

Mine(t, row) == t.op \in Scanner \/ Behind(t, row)

Fields(t) == {"op", "pc", "task", "plan"} \subseteq DOMAIN t

(* A reservation made by hand is of one quant.                              *)
OneQuant(t) == t.op = "reserve" /\ t.pc # "commit" => ~(Len(t.plan) > 1)

InTurn ==
  /\ owner \in [Row -> Client \cup {Nobody}]
  /\ DOMAIN txn = Client
  /\ \A c \in Client : Fields(txn[c]) /\ OneQuant(txn[c])
  /\ \A c \in Client, row \in Row : owner[row] = c => Mine(txn[c], row)

(* When every lock is in turn, a ring of two needs a scanner or two          *)
(* allocations: the two rows would each come before the other.              *)
LEMMA NobodyWaits == InTurn => DeadlockNeedsRfOrAllocation
<1> SUFFICES ASSUME InTurn, NEW c \in Client, NEW d \in Client, c # d, WaitsFor(c, d), WaitsFor(d, c),
                    txn[c].op \notin Scanner, txn[d].op \notin Scanner
             PROVE  txn[c].op = "allocate" /\ txn[d].op = "allocate"
  BY DEF DeadlockNeedsRfOrAllocation, Scanner
<1>1. PICK x \in Row : x \in Wanted(c) /\ owner[x] = d
  BY DEF WaitsFor
<1>2. PICK y \in Row : y \in Wanted(d) /\ owner[y] = c
  BY DEF WaitsFor
<1>3. Behind(txn[c], y) /\ Behind(txn[d], x) /\ x # y
  BY <1>1, <1>2 DEF InTurn, Mine
<1> DEFINE Asks(t, row) ==
      \/ t.pc = "task"   /\ row[1] = "task"
      \/ t.pc = "order"  /\ row[1] = "order"
      \/ t.pc = "resv"   /\ row[1] = "resv"
      \/ t.pc = "quant"  /\ row[1] = "quant"
      \/ t.pc = "commit" /\ row[1] \in {"task", "line"} /\ (t.op = "task" => row = <<"task", t.task>>)
<1>4. ASSUME NEW e \in Client, NEW row \in Wanted(e) PROVE Asks(txn[e], row)
  <2>1. CASE txn[e].pc = "commit"
    BY <2>1 DEF Wanted, RowsToWrite
  <2>2. CASE txn[e].pc # "commit"
    BY <2>2 DEF Wanted
  <2> QED
    BY <2>1, <2>2
<1>5. Asks(txn[c], x) /\ Asks(txn[d], y)
  BY <1>1, <1>2, <1>4
<1> QED
  BY <1>3, <1>5 DEF Behind

(* Transaction c goes on, the others stay where they are.                   *)
OnlyMoves(c) ==
  /\ DOMAIN txn' = Client /\ \A d \in Client \ {c} : txn'[d] = txn[d]
  /\ Fields(txn'[c]) /\ OneQuant(txn'[c])

(* A transaction that has not begun has locked nothing.                      *)
LEMMA IdleOwnsNothing ==
  /\ Fields(Idle) /\ OneQuant(Idle) /\ Idle.op = "none" /\ Idle.pc = "idle"
  /\ \A row : ~Mine(Idle, row)
<1>1. Fields(Idle) /\ Idle.op = "none" /\ Idle.pc = "idle"
  BY DEF Fields, Idle
<1> QED
  BY <1>1 DEF OneQuant, Mine, Behind, Scanner

(* A transaction that goes on, and takes at most one lock that comes before  *)
(* what it asks for next, keeps every lock in turn.                         *)
LEMMA Proceeds ==
  ASSUME InTurn, NEW c \in Client, OnlyMoves(c), NEW x,
         owner' = owner \/ (Acquire(c, x) /\ Mine(txn'[c], x)),
         \A row \in Row : Mine(txn[c], row) => Mine(txn'[c], row)
  PROVE  InTurn'
<1>1. owner' \in [Row -> Client \cup {Nobody}]
  BY DEF InTurn, Acquire
<1>2. \A e \in Client : Fields(txn'[e]) /\ OneQuant(txn'[e])
  BY DEF InTurn, OnlyMoves
<1>3. ASSUME NEW e \in Client, NEW row \in Row, owner'[row] = e PROVE Mine(txn'[e], row)
  <2>1. owner[row] = e \/ (e = c /\ row = x /\ Mine(txn'[c], x))
    BY <1>3 DEF InTurn, Acquire
  <2>2. CASE owner[row] = e
    BY <2>2 DEF InTurn, OnlyMoves
  <2> QED
    BY <2>1, <2>2
<1> QED
  BY <1>1, <1>2, <1>3 DEF InTurn, OnlyMoves, Fields, OneQuant, Mine, Behind

(* A transaction that ends gives all its locks back.                         *)
LEMMA Ends ==
  ASSUME InTurn, NEW c \in Client, txn' = [txn EXCEPT ![c] = Idle], owner' = Unlocked(c)
  PROVE  InTurn'
<1>1. owner' \in [Row -> Client \cup {Nobody}]
  BY DEF InTurn, Unlocked
<1>2. DOMAIN txn' = Client /\ txn'[c] = Idle /\ \A d \in Client \ {c} : txn'[d] = txn[d]
  BY DEF InTurn
<1>3. \A e \in Client : Fields(txn'[e]) /\ OneQuant(txn'[e])
  BY <1>2, IdleOwnsNothing DEF InTurn
<1>4. ASSUME NEW e \in Client, NEW row \in Row, owner'[row] = e PROVE Mine(txn'[e], row)
  <2>1. e # c /\ owner[row] = e
    BY <1>4, OrderStockConstants DEF Unlocked
  <2> QED
    BY <1>2, <2>1 DEF InTurn
<1> QED
  BY <1>1, <1>2, <1>3, <1>4 DEF InTurn, Fields, OneQuant, Mine, Behind

(* So does every commit.                                                     *)
LEMMA CommitEnds == ASSUME InTurn, NEW c \in Client, NEW op, Commit(c, op) PROVE InTurn'
  BY Ends DEF Commit

(* A transaction begins without a lock.                                      *)
LEMMA Begins ==
  ASSUME InTurn, NEW c \in Client, NEW request, Begin(c, request), Fields(request), OneQuant(request)
  PROVE  InTurn'
<1>1. OnlyMoves(c) /\ txn[c] = Idle /\ owner' = owner
  BY DEF Begin, InTurn, OnlyMoves
<1> QED
  BY <1>1, Proceeds, IdleOwnsNothing

(* The rest of the record of a transaction keeps what the order of locks     *)
(* looks at: the operation, the task and, before the write, the plan.       *)
Same(t, u) == /\ Fields(u) /\ u.op = t.op /\ u.task = t.task
              /\ t.op = "reserve" => u.plan = t.plan

(* The steps in the middle: what may follow which lock.                      *)
LEMMA Locking ==
  ASSUME InTurn, NEW c \in Client, DOMAIN txn' = Client, \A d \in Client \ {c} : txn'[d] = txn[d],
         Same(txn[c], txn'[c]), NEW x, owner' = owner \/ Acquire(c, x),
         \/ txn[c].op \in Scanner
         \/ txn[c].pc = "order" /\ txn'[c].pc \in {"resv", "plan", "quant", "commit"} /\ x[1] = "order"
            /\ txn[c].op # "task"
         \/ txn[c].pc = "resv" /\ txn'[c].pc = "quant" /\ x[1] = "resv" /\ txn[c].op \notin {"task", "allocate"}
         \/ txn[c].pc = "plan" /\ txn'[c].pc \in {"plan", "quant", "commit"} /\ owner' = owner
            /\ txn[c].op # "task"
         \/ txn[c].pc = "quant" /\ txn'[c].pc = "commit" /\ x[1] = "quant" /\ txn[c].op # "task"
         \/ txn[c].pc = "task" /\ txn'[c].pc = "commit" /\ txn[c].op = "task" /\ x = <<"task", txn[c].task>>
  PROVE  InTurn'
<1>1. OnlyMoves(c)
  BY DEF InTurn, OnlyMoves, Same, OneQuant, Scanner
<1>2. \A row \in Row : Mine(txn[c], row) => Mine(txn'[c], row)
  BY DEF Mine, Behind, Same, Scanner
<1>3. owner' = owner \/ Mine(txn'[c], x)
  BY DEF Mine, Behind, Same
<1> QED
  BY <1>1, <1>2, <1>3, Proceeds

-----------------------------------------------------------------------------
(* Each operation keeps the locks in turn.  A reservation locks its order,   *)
(* then its one quant.                                                      *)
LEMMA ReservingInTurn == ASSUME InTurn, NEW c \in Client, Reserving(c) PROVE InTurn'
<1>1. CASE BeginReserve(c)
  <2>1. PICK x, q, n :
          Begin(c, [Idle EXCEPT !.op = "reserve", !.order = x.order, !.line = x.line,
                      !.pc = IF x.order = 0 THEN "quant" ELSE "order",
                      !.plan = <<[line |-> x.line, quant |-> q, qty |-> n]>>])
    BY <1>1 DEF BeginReserve
  <2> DEFINE request == [Idle EXCEPT !.op = "reserve", !.order = x.order, !.line = x.line,
                           !.pc = IF x.order = 0 THEN "quant" ELSE "order",
                           !.plan = <<[line |-> x.line, quant |-> q, qty |-> n]>>]
  <2>2. Fields(request) /\ OneQuant(request)
    BY DEF OneQuant, Idle, Fields
  <2> QED
    BY <2>1, <2>2, Begins
<1>2. CASE LockOrderToReserve(c)
  <2>1. /\ DOMAIN txn' = Client /\ \A d \in Client \ {c} : txn'[d] = txn[d]
        /\ Same(txn[c], txn'[c]) /\ txn[c].op = "reserve" /\ txn[c].pc = "order"
        /\ txn'[c].pc \in {"quant", "plan"} /\ Acquire(c, <<"order", txn[c].order>>)
    BY <1>2 DEF LockOrderToReserve, LockOrder, InTurn, Same, Fields
  <2> QED
    BY <2>1, Locking
<1>3. CASE CheckRemainingQuantity(c)
  <2>1. /\ DOMAIN txn' = Client /\ \A d \in Client \ {c} : txn'[d] = txn[d]
        /\ Same(txn[c], txn'[c]) /\ txn[c].op = "reserve" /\ txn[c].pc = "plan"
        /\ txn'[c].pc = "quant" /\ owner' = owner
    BY <1>3 DEF CheckRemainingQuantity, CheckRemaining, InTurn, Same, Fields
  <2> QED
    BY <2>1, Locking
<1>4. CASE ReserveStockQuant(c)
  <2>1. /\ txn' = [txn EXCEPT ![c].plan = Tail(@), ![c].made = Append(@, Head(txn[c].plan)),
                     ![c].pc = IF Len(txn[c].plan) > 1 THEN "quant"
                               ELSE IF txn[c].op = "allocate" THEN "plan" ELSE "commit"]
        /\ txn[c].op \in {"reserve", "allocate"} /\ txn[c].pc = "quant"
        /\ Acquire(c, <<"quant", Head(txn[c].plan).quant>>)
    BY <1>4 DEF ReserveStockQuant
  <2>2. /\ DOMAIN txn' = Client /\ \A d \in Client \ {c} : txn'[d] = txn[d]
        /\ Fields(txn'[c]) /\ txn'[c].op = txn[c].op /\ txn'[c].task = txn[c].task
        /\ txn[c].op = "reserve" => txn'[c].pc = "commit"
        /\ txn[c].op = "allocate" => txn'[c].pc \in {"quant", "plan"}
    <3>1. txn[c].op = "reserve" => ~(Len(txn[c].plan) > 1)
      BY <2>1 DEF OneQuant, InTurn
    <3>2. /\ DOMAIN txn' = Client /\ \A d \in Client \ {c} : txn'[d] = txn[d]
          /\ Fields(txn'[c]) /\ txn'[c].op = txn[c].op /\ txn'[c].task = txn[c].task
      BY <2>1 DEF InTurn, Fields
    <3>3. txn'[c].pc = IF Len(txn[c].plan) > 1 THEN "quant"
                       ELSE IF txn[c].op = "allocate" THEN "plan" ELSE "commit"
      BY <2>1 DEF InTurn, Fields
    <3>4. txn[c].op = "reserve" => txn'[c].pc = "commit"
      BY <3>1, <3>3
    <3>5. txn[c].op = "allocate" => txn'[c].pc \in {"quant", "plan"}
      BY <3>3
    <3> QED
      BY <3>2, <3>4, <3>5
  <2>3. OnlyMoves(c)
    BY <2>1, <2>2 DEF OnlyMoves, OneQuant
  <2>4. \A row \in Row : Mine(txn[c], row) => Mine(txn'[c], row)
    BY <2>1, <2>2 DEF Mine, Behind
  <2>5. Mine(txn'[c], <<"quant", Head(txn[c].plan).quant>>)
    BY <2>1, <2>2 DEF Mine, Behind
  <2> QED
    BY <2>1, <2>3, <2>4, <2>5, Proceeds
<1>5. CASE CommitReserve(c)
  BY <1>5, CommitEnds DEF CommitReserve
<1> QED
  BY <1>1, <1>2, <1>3, <1>4, <1>5 DEF Reserving

(* An allocation locks its order, then quants in any number.                 *)
LEMMA AllocatingInTurn == ASSUME InTurn, NEW c \in Client, Allocating(c) PROVE InTurn'
<1>1. CASE BeginAllocate(c)
  BY <1>1, Begins DEF BeginAllocate, Fields, OneQuant, Idle
<1>2. CASE LockOrderToAllocate(c)
  <2>1. /\ DOMAIN txn' = Client /\ \A d \in Client \ {c} : txn'[d] = txn[d]
        /\ Same(txn[c], txn'[c]) /\ txn[c].op = "allocate" /\ txn[c].pc = "order"
        /\ txn'[c].pc = "plan" /\ Acquire(c, <<"order", txn[c].order>>)
    BY <1>2 DEF LockOrderToAllocate, LockOrder, InTurn, Same, Fields
  <2> QED
    BY <2>1, Locking
<1>3. CASE FindAvailableStockQuants(c)
  <2>1. /\ DOMAIN txn' = Client /\ \A d \in Client \ {c} : txn'[d] = txn[d]
        /\ Same(txn[c], txn'[c]) /\ txn[c].op = "allocate" /\ txn[c].pc = "plan"
        /\ txn'[c].pc = "quant" /\ owner' = owner
    BY <1>3 DEF FindAvailableStockQuants, InTurn, Same, Fields
  <2> QED
    BY <2>1, Locking
<1>4. CASE NextLine(c)
  <2>1. /\ DOMAIN txn' = Client /\ \A d \in Client \ {c} : txn'[d] = txn[d]
        /\ Same(txn[c], txn'[c]) /\ txn[c].op = "allocate" /\ txn[c].pc = "plan"
        /\ txn'[c].pc \in {"plan", "commit"} /\ owner' = owner
    BY <1>4 DEF NextLine, InTurn, Same, Fields
  <2> QED
    BY <2>1, Locking
<1>5. CASE CommitAllocate(c)
  BY <1>5, CommitEnds DEF CommitAllocate
<1> QED
  BY <1>1, <1>2, <1>3, <1>4, <1>5 DEF Allocating

(* A release locks the order, the reservation and its quant.                 *)
LEMMA ReleasingInTurn == ASSUME InTurn, NEW c \in Client, Releasing(c) PROVE InTurn'
<1>1. CASE BeginRelease(c)
  BY <1>1, Begins DEF BeginRelease, Fields, OneQuant, Idle
<1>2. CASE LockOrderToRelease(c)
  <2>1. /\ DOMAIN txn' = Client /\ \A d \in Client \ {c} : txn'[d] = txn[d]
        /\ Same(txn[c], txn'[c]) /\ txn[c].op = "release" /\ txn[c].pc = "order"
        /\ txn'[c].pc = "resv" /\ Acquire(c, <<"order", txn[c].order>>)
    BY <1>2 DEF LockOrderToRelease, LockOrder, InTurn, Same, Fields
  <2> QED
    BY <2>1, Locking
<1>3. CASE LockResvToRelease(c)
  <2>1. /\ DOMAIN txn' = Client /\ \A d \in Client \ {c} : txn'[d] = txn[d]
        /\ Same(txn[c], txn'[c]) /\ txn[c].op = "release" /\ txn[c].pc = "resv"
        /\ txn'[c].pc = "quant" /\ Acquire(c, <<"resv", txn[c].resv>>)
    BY <1>3 DEF LockResvToRelease, LockResv, InTurn, Same, Fields
  <2> QED
    BY <2>1, Locking
<1>4. CASE ReleaseReservedStockQuant(c)
  <2>1. /\ DOMAIN txn' = Client /\ \A d \in Client \ {c} : txn'[d] = txn[d]
        /\ Same(txn[c], txn'[c]) /\ txn[c].op = "release" /\ txn[c].pc = "quant"
        /\ txn'[c].pc = "commit" /\ Acquire(c, <<"quant", txn[c].plan[1].quant>>)
    BY <1>4 DEF ReleaseReservedStockQuant, InTurn, Same, Fields
  <2> QED
    BY <2>1, Locking
<1>5. CASE CommitRelease(c)
  BY <1>5, CommitEnds DEF CommitRelease
<1> QED
  BY <1>1, <1>2, <1>3, <1>4, <1>5 DEF Releasing

(* A pick at the desk locks the order, the reservation and its quant.        *)
LEMMA PickingInTurn == ASSUME InTurn, NEW c \in Client, Picking(c) PROVE InTurn'
<1>1. CASE BeginConfirmPick(c)
  BY <1>1, Begins DEF BeginConfirmPick, Fields, OneQuant, Idle
<1>2. CASE LockOrderToPick(c)
  <2>1. /\ DOMAIN txn' = Client /\ \A d \in Client \ {c} : txn'[d] = txn[d]
        /\ Same(txn[c], txn'[c]) /\ txn[c].op = "confirmPick" /\ txn[c].pc = "order"
        /\ txn'[c].pc \in {"quant", "resv"} /\ Acquire(c, <<"order", txn[c].order>>)
    BY <1>2 DEF LockOrderToPick, LockOrder, InTurn, Same, Fields
  <2> QED
    BY <2>1, Locking
<1>3. CASE LockResvToPick(c)
  <2>1. /\ DOMAIN txn' = Client /\ \A d \in Client \ {c} : txn'[d] = txn[d]
        /\ Same(txn[c], txn'[c]) /\ txn[c].op = "confirmPick" /\ txn[c].pc = "resv"
        /\ txn'[c].pc = "quant" /\ Acquire(c, <<"resv", txn[c].resv>>)
    BY <1>3 DEF LockResvToPick, LockResv, InTurn, Same, Fields
  <2> QED
    BY <2>1, Locking
<1>4. CASE ApplyPickToQuant(c)
  <2>1. /\ DOMAIN txn' = Client /\ \A d \in Client \ {c} : txn'[d] = txn[d]
        /\ Same(txn[c], txn'[c]) /\ txn[c].op = "confirmPick" /\ txn[c].pc = "quant"
        /\ txn'[c].pc = "commit" /\ Acquire(c, <<"quant", txn[c].plan[1].quant>>)
    BY <1>4 DEF ApplyPickToQuant, InTurn, Same, Fields
  <2> QED
    BY <2>1, Locking
<1>5. CASE CommitConfirmPick(c)
  BY <1>5, CommitEnds DEF CommitConfirmPick
<1> QED
  BY <1>1, <1>2, <1>3, <1>4, <1>5 DEF Picking

(* The release to picking, packing and shipping lock the order only.         *)
LEMMA StagingInTurn == ASSUME InTurn, NEW c \in Client, Staging(c) PROVE InTurn'
<1>1. ASSUME NEW op \in {"releasePicking", "pack", "ship"}, BeginOnOrder(c, op) PROVE InTurn'
  BY <1>1, Begins DEF BeginOnOrder, Fields, OneQuant, Idle
<1>2. CASE LockOrderToReleasePicking(c)
  <2>1. /\ DOMAIN txn' = Client /\ \A d \in Client \ {c} : txn'[d] = txn[d]
        /\ Same(txn[c], txn'[c]) /\ txn[c].op = "releasePicking" /\ txn[c].pc = "order"
        /\ txn'[c].pc = "commit" /\ Acquire(c, <<"order", txn[c].order>>)
    BY <1>2 DEF LockOrderToReleasePicking, LockOrder, InTurn, Same, Fields
  <2> QED
    BY <2>1, Locking
<1>3. CASE CommitReleasePicking(c)
  BY <1>3, CommitEnds DEF CommitReleasePicking
<1>4. CASE LockOrderToPack(c)
  <2>1. /\ DOMAIN txn' = Client /\ \A d \in Client \ {c} : txn'[d] = txn[d]
        /\ Same(txn[c], txn'[c]) /\ txn[c].op = "pack" /\ txn[c].pc = "order"
        /\ txn'[c].pc = "commit" /\ Acquire(c, <<"order", txn[c].order>>)
    BY <1>4 DEF LockOrderToPack, LockOrder, InTurn, Same, Fields
  <2> QED
    BY <2>1, Locking
<1>5. CASE CommitPack(c)
  BY <1>5, CommitEnds DEF CommitPack
<1>6. CASE LockOrderToShip(c)
  <2>1. /\ DOMAIN txn' = Client /\ \A d \in Client \ {c} : txn'[d] = txn[d]
        /\ Same(txn[c], txn'[c]) /\ txn[c].op = "ship" /\ txn[c].pc = "order"
        /\ txn'[c].pc = "commit" /\ Acquire(c, <<"order", txn[c].order>>)
    BY <1>6 DEF LockOrderToShip, LockOrder, InTurn, Same, Fields
  <2> QED
    BY <2>1, Locking
<1>7. CASE CommitShip(c)
  BY <1>7, CommitEnds DEF CommitShip
<1> QED
  BY <1>1, <1>2, <1>3, <1>4, <1>5, <1>6, <1>7 DEF Staging

(* A change of a task locks that task and writes no other row.               *)
LEMMA TaskingInTurn == ASSUME InTurn, NEW c \in Client, Tasking(c) PROVE InTurn'
<1>1. CASE ReadTask(c)
  BY <1>1, Begins DEF ReadTask, Fields, OneQuant, Idle
<1>2. CASE ClaimTask(c)
  BY <1>2, Begins DEF ClaimTask, Fields, OneQuant, Idle
<1>3. CASE LockTask(c)
  <2>1. /\ DOMAIN txn' = Client /\ \A d \in Client \ {c} : txn'[d] = txn[d]
        /\ Same(txn[c], txn'[c]) /\ txn[c].op = "task" /\ txn[c].pc = "task"
        /\ txn'[c].pc = "commit" /\ Acquire(c, <<"task", txn[c].task>>)
    BY <1>3 DEF LockTask, InTurn, Same, Fields
  <2> QED
    BY <2>1, Locking
<1>4. CASE WriteTask(c)
  BY <1>4, CommitEnds DEF WriteTask
<1> QED
  BY <1>1, <1>2, <1>3, <1>4 DEF Tasking

(* The pick of a scanner may lock in any order.                              *)
LEMMA RfPickingInTurn == ASSUME InTurn, NEW c \in Client, RfPicking(c) PROVE InTurn'
<1>1. CASE BeginRfPick(c)
  BY <1>1, Begins DEF BeginRfPick, Fields, OneQuant, Idle
<1>2. CASE RfLockQuant(c)
  <2>1. /\ DOMAIN txn' = Client /\ \A d \in Client \ {c} : txn'[d] = txn[d]
        /\ Same(txn[c], txn'[c]) /\ txn[c].op = "rfPick" /\ Acquire(c, <<"quant", txn[c].plan[1].quant>>)
    BY <1>2 DEF RfLockQuant, InTurn, Same, Fields
  <2> QED
    BY <2>1, Locking DEF Scanner
<1>3. CASE RfUpdateReservation(c)
  <2>1. /\ DOMAIN txn' = Client /\ \A d \in Client \ {c} : txn'[d] = txn[d]
        /\ Same(txn[c], txn'[c]) /\ txn[c].op = "rfPick" /\ Acquire(c, <<"resv", txn[c].resv>>)
    BY <1>3 DEF RfUpdateReservation, UpdateReservation, InTurn, Same, Fields
  <2> QED
    BY <2>1, Locking DEF Scanner
<1>4. CASE RfReadLines(c)
  <2>1. /\ DOMAIN txn' = Client /\ \A d \in Client \ {c} : txn'[d] = txn[d]
        /\ Same(txn[c], txn'[c]) /\ txn[c].op = "rfPick" /\ Acquire(c, <<"line", txn[c].line>>)
    BY <1>4 DEF RfReadLines, InTurn, Same, Fields
  <2> QED
    BY <2>1, Locking DEF Scanner
<1>5. CASE RfUpdateOrder(c)
  <2>1. /\ DOMAIN txn' = Client /\ \A d \in Client \ {c} : txn'[d] = txn[d]
        /\ Same(txn[c], txn'[c]) /\ txn[c].op = "rfPick" /\ Acquire(c, <<"order", txn[c].order>>)
    BY <1>5 DEF RfUpdateOrder, LockOrder, InTurn, Same, Fields
  <2> QED
    BY <2>1, Locking DEF Scanner
<1>6. CASE CommitRfPick(c)
  BY <1>6, CommitEnds DEF CommitRfPick
<1> QED
  BY <1>1, <1>2, <1>3, <1>4, <1>5, <1>6 DEF RfPicking

(* So may its exception.                                                     *)
LEMMA RfExceptionInTurn == ASSUME InTurn, NEW c \in Client, RfException(c) PROVE InTurn'
<1>1. CASE BeginRfException(c)
  BY <1>1, Begins DEF BeginRfException, Fields, OneQuant, Idle
<1>2. CASE RfLockTask(c)
  <2>1. /\ DOMAIN txn' = Client /\ \A d \in Client \ {c} : txn'[d] = txn[d]
        /\ Same(txn[c], txn'[c]) /\ txn[c].op = "rfException" /\ Acquire(c, <<"task", txn[c].task>>)
    <3>1. /\ DOMAIN txn = Client /\ Fields(txn[c]) /\ txn[c].op = "rfException"
          /\ Acquire(c, <<"task", txn[c].task>>)
      BY <1>2 DEF RfLockTask, InTurn
    <3>2. CASE txn' = [txn EXCEPT ![c].pc = IF txn[c].order = 0 THEN "commit" ELSE "order"]
      BY <3>1, <3>2 DEF Same, Fields
    <3>3. ASSUME NEW r, NEW n, NEW p,
                 txn' = [txn EXCEPT ![c].pc = "quant", ![c].resv = r, ![c].qty = n, ![c].plan = p]
          PROVE  /\ DOMAIN txn' = Client /\ \A d \in Client \ {c} : txn'[d] = txn[d]
                 /\ Same(txn[c], txn'[c])
      BY <3>1, <3>3 DEF Same, Fields
    <3>4. CASE txn' # [txn EXCEPT ![c].pc = IF txn[c].order = 0 THEN "commit" ELSE "order"]
      <4> DEFINE r == task[txn[c].task].resv
                 p == <<[line |-> resv[r].line, quant |-> resv[r].quant, qty |-> resv[r].qty]>>
      <4>1. PICK n : txn' = [txn EXCEPT ![c].pc = "quant", ![c].resv = r, ![c].qty = n, ![c].plan = p]
        BY <1>2, <3>4 DEF RfLockTask
      <4> QED
        BY <3>1, <3>3, <4>1
    <3> QED
      BY <3>1, <3>2, <3>4
  <2> QED
    BY <2>1, Locking DEF Scanner
<1>3. CASE RfReleaseQuant(c)
  <2>1. /\ DOMAIN txn' = Client /\ \A d \in Client \ {c} : txn'[d] = txn[d]
        /\ Same(txn[c], txn'[c]) /\ txn[c].op = "rfException" /\ Acquire(c, <<"quant", txn[c].plan[1].quant>>)
    BY <1>3 DEF RfReleaseQuant, InTurn, Same, Fields
  <2> QED
    BY <2>1, Locking DEF Scanner
<1>4. CASE RfReleaseReservation(c)
  <2>1. /\ DOMAIN txn' = Client /\ \A d \in Client \ {c} : txn'[d] = txn[d]
        /\ Same(txn[c], txn'[c]) /\ txn[c].op = "rfException" /\ Acquire(c, <<"resv", txn[c].resv>>)
    BY <1>4 DEF RfReleaseReservation, UpdateReservation, InTurn, Same, Fields
  <2> QED
    BY <2>1, Locking DEF Scanner
<1>5. CASE RfMarkOrder(c)
  <2>1. /\ DOMAIN txn' = Client /\ \A d \in Client \ {c} : txn'[d] = txn[d]
        /\ Same(txn[c], txn'[c]) /\ txn[c].op = "rfException" /\ Acquire(c, <<"order", txn[c].order>>)
    BY <1>5 DEF RfMarkOrder, LockOrder, InTurn, Same, Fields
  <2> QED
    BY <2>1, Locking DEF Scanner
<1>6. CASE CommitRfException(c)
  BY <1>6, CommitEnds DEF CommitRfException
<1> QED
  BY <1>1, <1>2, <1>3, <1>4, <1>5, <1>6 DEF RfException

(* Whatever the desk, the scanners and the edits do, two transactions wait   *)
(* for each other only when one of them is a scanner, or both allocate: the *)
(* lock order of FulfillmentService rules out every other ring of two.      *)
THEOREM DeadlockTakesAScanner == FloorSpec => []DeadlockNeedsRfOrAllocation
<1>1. Init => InTurn
  BY IdleOwnsNothing, OrderStockConstants DEF Init, InTurn
<1>2. InTurn /\ [FloorNext]_vars => InTurn'
  <2> SUFFICES ASSUME InTurn, [FloorNext]_vars PROVE InTurn'
    OBVIOUS
  <2>1. ASSUME NEW c \in Client, DeskStep(c) \/ RfPicking(c) \/ RfException(c) PROVE InTurn'
    <3>1. CASE Rollback(c)
      BY <3>1, Ends DEF Rollback
    <3> QED
      BY <2>1, <3>1, ReservingInTurn, AllocatingInTurn, ReleasingInTurn, PickingInTurn, StagingInTurn,
         TaskingInTurn, RfPickingInTurn, RfExceptionInTurn DEF DeskStep
  <2>2. CASE UNCHANGED locals
    BY <2>2 DEF locals, InTurn, Fields, OneQuant, Mine, Behind
  <2> QED
    BY <2>1, <2>2 DEF FloorNext, CreateTask, UpdateOutboundOrder, vars
<1> QED
  BY <1>1, <1>2, NobodyWaits, PTL DEF FloorSpec

-----------------------------------------------------------------------------
(* What the rows say of each other when the scanners are at work too: tasks  *)
(* of a reservation name a line (the line of what was reserved for one), and *)
(* a reservation that a transaction is about to write exists, and is locked  *)
(* by then unless only its status is written.                                *)
Exists(r) == resv[r].status # "NONE"

TaskLines == \A k \in Task : task[k].resv # 0 => task[k].line \in Line

Lined(t) ==
  t.op = "allocate" \/ (t.op = "reserve" /\ t.line # 0) =>
    /\ \A i \in 1..Len(t.plan) : t.plan[i].line \in Line
    /\ \A i \in 1..Len(t.made) : t.made[i].line \in Line

OfItsRows(own, c, t) ==
  /\ t.op = "release" => Exists(t.resv)
  /\ t.op = "confirmPick" /\ t.pc \in {"quant", "commit"} /\ t.resv # 0 =>
       own[<<"resv", t.resv>>] = c /\ Exists(t.resv)
  /\ t.op = "releasePicking" =>
       \A i \in 1..Len(t.tasks) : Exists(t.tasks[i]) /\ resv[t.tasks[i]].line \in Line
  /\ t.op = "rfException" => t.task \in Task /\ t.target \in TaskStatus /\ (t.pc = "task" => t.resv = 0)
  /\ t.op \in Scanner /\ t.resv # 0 =>
       /\ Exists(t.resv) /\ t.plan # <<>>
       /\ t.pc \in {"plan", "order", "commit"} =>
            own[<<"resv", t.resv>>] = c /\ (t.qty < t.plan[1].qty => t.qty < resv[t.resv].qty)

RowsAgree == /\ Numbered /\ TaskLines
             /\ \A c \in Client : Lined(txn[c]) /\ OfItsRows(owner, c, txn[c])

(* How a commit of c leaves the reservations that exist.                    *)
RowsGoOn(c) ==
  \A r \in Resv : Exists(r) => /\ Exists(r)' /\ resv'[r].line = resv[r].line
                               /\ owner[<<"resv", r>>] # c => resv'[r].qty = resv[r].qty

(* Most operations carry no reservation.                                    *)
LEMMA Silent ==
  ASSUME NEW own, NEW c, NEW t,
         t.op \notin Scanner \cup {"reserve", "allocate", "release", "confirmPick", "releasePicking"}
  PROVE  Lined(t) /\ OfItsRows(own, c, t)
BY DEF Lined, OfItsRows, Scanner

(* Whatever a step of c does, transaction d still knows what it knew of its *)
(* reservations.                                                            *)
LEMMA StillSo ==
  ASSUME IInv, NEW c \in Client, NEW d \in Client, d # c, RowsGoOn(c), OfItsRows(owner, d, txn[d]),
         Lined(txn[d]), txn'[d] = txn[d], \A x \in Row : owner[x] = d => owner'[x] = d
  PROVE  Lined(txn'[d]) /\ OfItsRows(owner, d, txn[d])'
<1> DEFINE t == txn[d]
<1>1. t \in Txn /\ \A r \in Resv : <<"resv", r>> \in Row
  BY TxnIsTyped DEF Row
<1>2. t.resv # 0 => t.resv \in Resv
  BY <1>1 DEF Txn
<1>3. ASSUME t.resv # 0 \/ t.op = "release", Exists(t.resv) PROVE Exists(t.resv)'
  <2>1. PICK r \in Resv : r = t.resv
    BY <1>1, <1>2, <1>3 DEF Ready, IInv
  <2>2. Exists(r)'
    BY <1>3, <2>1 DEF RowsGoOn
  <2> QED
    BY <2>1, <2>2 DEF Exists
<1>4. ASSUME t.resv # 0, owner[<<"resv", t.resv>>] = d, Exists(t.resv)
      PROVE  owner'[<<"resv", t.resv>>] = d /\ resv'[t.resv].qty = resv[t.resv].qty
  <2>1. t.resv \in Resv
    BY <1>2, <1>4
  <2> QED
    BY <1>1, <1>4, <2>1 DEF RowsGoOn
<1>5. ASSUME t.op = "releasePicking"
      PROVE  \A i \in 1..Len(t.tasks) : resv'[t.tasks[i]].status # "NONE" /\ resv'[t.tasks[i]].line \in Line
  <2> SUFFICES ASSUME NEW i \in 1..Len(t.tasks)
               PROVE  resv'[t.tasks[i]].status # "NONE" /\ resv'[t.tasks[i]].line \in Line
    OBVIOUS
  <2>1. t.tasks \in Seq(Resv)
    BY <1>1 DEF Txn
  <2>2. PICK r \in Resv : r = t.tasks[i]
    BY <2>1
  <2>3. Exists(r) /\ resv[r].line \in Line
    BY <1>5, <2>2 DEF OfItsRows
  <2> QED
    BY <2>2, <2>3 DEF RowsGoOn, Exists
<1> QED
  BY <1>3, <1>4, <1>5 DEF OfItsRows, Lined, Exists

(* A step of c that writes no reservation and no task.                      *)
LEMMA Locally ==
  ASSUME IInv, RowsAgree, NEW c \in Client, UNCHANGED <<resv, task>>,
         \A d \in Client \ {c} : txn'[d] = txn[d],
         owner' = owner \/ (\E row : Acquire(c, row)) \/ owner' = Unlocked(c),
         Lined(txn'[c]), OfItsRows(owner', c, txn'[c])
  PROVE  RowsAgree'
<1>1. RowsGoOn(c)
  BY DEF RowsGoOn, Exists
<1>2. \A d \in Client \ {c} : \A x \in Row : owner[x] = d => owner'[x] = d
  BY LocksKept, LocksFreed
<1>3. ASSUME NEW d \in Client PROVE Lined(txn'[d]) /\ OfItsRows(owner, d, txn[d])'
  <2>1. CASE d = c
    BY <2>1 DEF OfItsRows, Exists
  <2>2. CASE d # c
    BY <1>1, <1>2, <2>2, StillSo DEF RowsAgree
  <2> QED
    BY <2>1, <2>2
<1>4. Numbered' /\ TaskLines'
  BY DEF RowsAgree, Numbered, ResvCount, TaskLines
<1> QED
  BY <1>3, <1>4 DEF RowsAgree, Lined

(* A commit of c.                                                           *)
LEMMA Committed ==
  ASSUME IInv, RowsAgree, NEW c \in Client, NEW op, Commit(c, op), RowsGoOn(c), Numbered', TaskLines'
  PROVE  RowsAgree'
<1>1. owner' = Unlocked(c) /\ txn'[c] = Idle /\ \A d \in Client \ {c} : txn'[d] = txn[d]
  BY DEF IInv, TypeOK, Commit
<1>2. \A d \in Client \ {c} : \A x \in Row : owner[x] = d => owner'[x] = d
  BY <1>1, LocksFreed
<1>3. ASSUME NEW d \in Client PROVE Lined(txn'[d]) /\ OfItsRows(owner, d, txn[d])'
  <2>1. CASE d = c
    <3>1. txn'[d].op = "none"
      BY <1>1, <2>1, IdleOwnsNothing
    <3> QED
      BY <3>1 DEF OfItsRows, Lined, Scanner
  <2>2. CASE d # c
    BY <1>1, <1>2, <2>2, StillSo DEF RowsAgree
  <2> QED
    BY <2>1, <2>2
<1> QED
  BY <1>3 DEF RowsAgree, Lined

(* A commit that writes no reservation.                                     *)
LEMMA CommittedApart ==
  ASSUME IInv, RowsAgree, NEW c \in Client, NEW op, Commit(c, op), resv' = resv, TaskLines'
  PROVE  RowsAgree'
<1>1. RowsGoOn(c) /\ Numbered'
  BY DEF RowsGoOn, Exists, RowsAgree, Numbered, ResvCount
<1> QED
  BY <1>1, Committed

(* Tasks whose status alone changes keep their lines.                       *)
LEMMA StatusOnly ==
  ASSUME RowsAgree, \A k \in Task : task'[k].resv = task[k].resv /\ task'[k].line = task[k].line
  PROVE  TaskLines'
BY DEF RowsAgree, TaskLines

(* A transaction has its fields.                                            *)
Known(t) == {"op", "pc", "line", "resv", "qty", "target", "plan", "made", "tasks"} \subseteq DOMAIN t

(* The type gives it all of them.                                           *)
LEMMA TxnIsKnown == ASSUME NEW t \in Txn PROVE Known(t)
BY DEF Txn, Known

(* A request that begins.                                                   *)
LEMMA BeginsAgree ==
  ASSUME IInv, RowsAgree, NEW c \in Client, NEW request, Begin(c, request),
         Lined(request), OfItsRows(owner, c, request)
  PROVE  RowsAgree'
<1>1. txn'[c] = request /\ \A d \in Client \ {c} : txn'[d] = txn[d]
  BY DEF IInv, TypeOK, Begin
<1> QED
  BY <1>1, Locally DEF Begin, data

(* The reservations and tasks that an allocation or a reservation inserts.  *)
LEMMA InsertedAgree ==
  ASSUME IInv, RowsAgree, NEW c \in Client, NEW op \in {"reserve", "allocate"}, Commit(c, op),
         InsertResv(NewReservations(c)), InsertTask(NewTasks(c))
  PROVE  RowsAgree'
<1> DEFINE t == txn[c]
<1>0. t \in Txn /\ t.op = op
  BY TxnIsTyped DEF Commit
<1>1. t.made \in Seq(Part) /\ Len(t.made) \in Nat /\ t.op = op
  <2>1. t.made \in Seq(Part)
    BY <1>0 DEF Txn
  <2> QED
    BY <1>0, <2>1
<1>2. Len(NewReservations(c)) = Len(t.made)
      /\ \A i \in 1..Len(t.made) : NewReservations(c)[i].status = "ACTIVE"
  BY <1>1 DEF NewReservations
<1>3. Numbered' /\ \A r \in Resv : Exists(r) => resv'[r] = resv[r]
  BY <1>1, <1>2, Inserted DEF RowsAgree, Exists
<1>4. RowsGoOn(c)
  BY <1>3 DEF RowsGoOn, Exists
<1>5. TaskLines'
  <2> SUFFICES ASSUME NEW k \in Task, task'[k].resv # 0 PROVE task'[k].line \in Line
    BY DEF TaskLines
  <2>1. CASE task'[k] = task[k]
    BY <2>1 DEF RowsAgree, TaskLines
  <2>2. CASE task'[k] # task[k]
    <3>1. PICK i \in 1..Len(NewTasks(c)) : task'[k] = NewTasks(c)[i]
      BY <2>2 DEF InsertTask
    <3>2. t.line # 0
      BY <1>1, <3>1 DEF NewTasks
    <3>3. Len(NewTasks(c)) = Len(t.made) /\ NewTasks(c)[i].line = t.made[i].line
      BY <1>1, <3>1, <3>2 DEF NewTasks
    <3>4. Lined(t)
      BY DEF RowsAgree
    <3> QED
      BY <1>1, <3>1, <3>2, <3>3, <3>4 DEF Lined
  <2> QED
    BY <2>1, <2>2
<1> QED
  BY <1>3, <1>4, <1>5, Committed

-----------------------------------------------------------------------------
(* A reservation.                                                           *)
LEMMA ReservingAgree == ASSUME IInv, RowsAgree, NEW c \in Client, Reserving(c) PROVE RowsAgree'
<1> DEFINE t == txn[c]
<1>0. t \in Txn /\ Ready(t) /\ DOMAIN txn = Client /\ Lined(t) /\ Known(t)
  BY TxnIsTyped, TxnIsKnown DEF IInv, TypeOK, RowsAgree
<1>1. CASE BeginReserve(c)
  <2>1. PICK x \in ReserveContext, q \in Quant : \E n \in 1..OnHand[q] :
          Begin(c, [Idle EXCEPT !.op = "reserve", !.order = x.order, !.line = x.line,
                      !.pc = IF x.order = 0 THEN "quant" ELSE "order",
                      !.plan = <<[line |-> x.line, quant |-> q, qty |-> n]>>])
    BY <1>1 DEF BeginReserve
  <2> PICK n \in 1..OnHand[q] :
          Begin(c, [Idle EXCEPT !.op = "reserve", !.order = x.order, !.line = x.line,
                      !.pc = IF x.order = 0 THEN "quant" ELSE "order",
                      !.plan = <<[line |-> x.line, quant |-> q, qty |-> n]>>])
    BY <2>1
  <2> DEFINE u == [Idle EXCEPT !.op = "reserve", !.order = x.order, !.line = x.line,
                     !.pc = IF x.order = 0 THEN "quant" ELSE "order",
                     !.plan = <<[line |-> x.line, quant |-> q, qty |-> n]>>]
  <2>2. x.line \in Line \cup {0}
    BY DEF ReserveContext
  <2>3. u.op = "reserve" /\ u.line = x.line /\ u.made = <<>>
        /\ u.plan = <<[line |-> x.line, quant |-> q, qty |-> n]>>
    BY DEF Idle
  <2>4. Lined(u) /\ OfItsRows(owner, c, u)
    BY <2>2, <2>3 DEF Lined, OfItsRows, Scanner
  <2> QED
    BY <2>4, BeginsAgree
<1>2. CASE LockOrderToReserve(c) \/ CheckRemainingQuantity(c)
  <2>1. /\ \A d \in Client \ {c} : txn'[d] = txn[d]
        /\ UNCHANGED <<resv, task>>
        /\ (owner' = owner \/ \E row : Acquire(c, row))
    BY <1>0, <1>2 DEF LockOrderToReserve, LockOrder, CheckRemainingQuantity, CheckRemaining, data
  <2>2. t.op = "reserve" /\ txn'[c].op = "reserve" /\ txn'[c].line = t.line
        /\ txn'[c].plan = t.plan /\ txn'[c].made = t.made
    <3>1. CASE LockOrderToReserve(c)
      BY <1>0, <3>1 DEF LockOrderToReserve, LockOrder, Known
    <3>2. CASE CheckRemainingQuantity(c)
      BY <1>0, <3>2 DEF CheckRemainingQuantity, CheckRemaining, Known
    <3> QED
      BY <1>2, <3>1, <3>2
  <2>3. Lined(txn'[c]) /\ OfItsRows(owner', c, txn'[c])
    BY <1>0, <2>2 DEF Lined, OfItsRows, Scanner
  <2> QED
    BY <2>1, <2>3, Locally
<1>3. CASE ReserveStockQuant(c)
  <2>1. /\ \A d \in Client \ {c} : txn'[d] = txn[d]
        /\ UNCHANGED <<resv, task>> /\ \E row : Acquire(c, row)
        /\ t.op \in {"reserve", "allocate"} /\ t.pc = "quant"
    BY <1>0, <1>3 DEF ReserveStockQuant, data
  <2>2. txn'[c].op = t.op /\ txn'[c].line = t.line
        /\ txn'[c].plan = Tail(t.plan) /\ txn'[c].made = Append(t.made, Head(t.plan))
    BY <1>0, <1>3 DEF ReserveStockQuant, Txn
  <2>3. t.plan \in Seq(Part) /\ t.made \in Seq(Part) /\ t.plan # <<>>
    BY <1>0, <2>1 DEF Txn, Ready
  <2>4. Lined(txn'[c])
    <3> SUFFICES ASSUME t.op = "allocate" \/ (t.op = "reserve" /\ t.line # 0)
                 PROVE  /\ \A i \in 1..Len(Tail(t.plan)) : Tail(t.plan)[i].line \in Line
                        /\ \A i \in 1..Len(Append(t.made, Head(t.plan))) :
                              Append(t.made, Head(t.plan))[i].line \in Line
      BY <2>2 DEF Lined
    <3>1. /\ \A i \in 1..Len(t.plan) : t.plan[i].line \in Line
          /\ \A i \in 1..Len(t.made) : t.made[i].line \in Line
      BY <1>0 DEF Lined
    <3> QED
      BY <2>3, <3>1
  <2>5. OfItsRows(owner', c, txn'[c])
    BY <2>1, <2>2 DEF OfItsRows, Scanner
  <2> QED
    BY <2>1, <2>4, <2>5, Locally
<1>4. CASE CommitReserve(c)
  BY <1>4, InsertedAgree DEF CommitReserve
<1> QED
  BY <1>1, <1>2, <1>3, <1>4 DEF Reserving

(* An allocation.                                                           *)
LEMMA AllocatingAgree == ASSUME IInv, RowsAgree, NEW c \in Client, Allocating(c) PROVE RowsAgree'
<1> DEFINE t == txn[c]
<1>0. t \in Txn /\ DOMAIN txn = Client /\ Lined(t) /\ Known(t)
  BY TxnIsTyped, TxnIsKnown DEF IInv, TypeOK, RowsAgree
<1>1. CASE BeginAllocate(c)
  <2>1. PICK o \in Order : Begin(c, [Idle EXCEPT !.op = "allocate", !.pc = "order", !.order = o])
    BY <1>1 DEF BeginAllocate
  <2> DEFINE u == [Idle EXCEPT !.op = "allocate", !.pc = "order", !.order = o]
  <2>2. u.op = "allocate" /\ u.made = <<>> /\ u.plan = <<>>
    BY DEF Idle
  <2>3. Lined(u) /\ OfItsRows(owner, c, u)
    BY <2>2 DEF Lined, OfItsRows, Scanner
  <2> QED
    BY <2>1, <2>3, BeginsAgree
<1>2. CASE LockOrderToAllocate(c) \/ NextLine(c)
  <2>1. /\ \A d \in Client \ {c} : txn'[d] = txn[d]
        /\ UNCHANGED <<resv, task>>
        /\ (owner' = owner \/ \E row : Acquire(c, row))
    BY <1>0, <1>2 DEF LockOrderToAllocate, LockOrder, NextLine, data
  <2>2. t.op = "allocate" /\ txn'[c].op = "allocate"
        /\ txn'[c].plan = t.plan /\ txn'[c].made = t.made
    <3>1. CASE LockOrderToAllocate(c)
      BY <1>0, <3>1 DEF LockOrderToAllocate, LockOrder, Known
    <3>2. CASE NextLine(c)
      BY <1>0, <3>2 DEF NextLine, Known
    <3> QED
      BY <1>2, <3>1, <3>2
  <2>3. Lined(txn'[c]) /\ OfItsRows(owner', c, txn'[c])
    BY <1>0, <2>2 DEF Lined, OfItsRows, Scanner
  <2> QED
    BY <2>1, <2>3, Locally
<1>3. CASE FindAvailableStockQuants(c)
  <2>1. PICK need : \E p \in Plans(c, t.line, need) :
           txn' = [txn EXCEPT ![c].plan = p, ![c].pc = "quant", ![c].line = t.line + 1]
    BY <1>3 DEF FindAvailableStockQuants
  <2> PICK p \in Plans(c, t.line, need) :
           txn' = [txn EXCEPT ![c].plan = p, ![c].pc = "quant", ![c].line = t.line + 1]
    BY <2>1
  <2>2. /\ t.op = "allocate" /\ t.line \in Line /\ UNCHANGED <<resv, task, owner>>
    BY <1>3 DEF FindAvailableStockQuants, LinesOf, data
  <2>3. /\ \A d \in Client \ {c} : txn'[d] = txn[d]
        /\ txn'[c].op = "allocate" /\ txn'[c].plan = p /\ txn'[c].made = t.made
    BY <1>0, <2>1, <2>2 DEF Txn
  <2>4. \A i \in 1..Len(p) : p[i].line \in Line
    <3> DEFINE candidates == {q \in Matches[t.line] : Available(c, q) > 0}
    <3>1. PICK k \in 1..Cardinality(candidates) :
             p \in [1..k -> [line : {t.line}, quant : candidates, qty : 1..need]]
      BY DEF Plans
    <3>2. DOMAIN p = 1..k /\ \A i \in 1..k : p[i].line = t.line
      BY <3>1
    <3>3. p \in Seq(Part)
      BY <2>2, PlansAreParts
    <3> QED
      BY <2>2, <3>2, <3>3
  <2>5. Lined(txn'[c]) /\ OfItsRows(owner', c, txn'[c])
    BY <1>0, <2>2, <2>3, <2>4 DEF Lined, OfItsRows, Scanner
  <2> QED
    BY <2>2, <2>3, <2>5, Locally
<1>4. CASE CommitAllocate(c)
  BY <1>4, InsertedAgree DEF CommitAllocate
<1> QED
  BY <1>1, <1>2, <1>3, <1>4 DEF Allocating

(* Edits of reservations that exist keep the table numbered.                *)
LEMMA StillNumbered ==
  ASSUME RowsAgree, NEW c, RowsGoOn(c), \A r \in Resv : Exists(r)' => Exists(r)
  PROVE  Numbered'
BY Rewritten DEF RowsAgree, RowsGoOn, Exists

(* A release.                                                               *)
LEMMA ReleasingAgree == ASSUME IInv, RowsAgree, NEW c \in Client, Releasing(c) PROVE RowsAgree'
<1> DEFINE t == txn[c]
<1>0. /\ t \in Txn /\ Ready(t) /\ DOMAIN txn = Client /\ OfItsRows(owner, c, t) /\ Known(t)
      /\ resv \in [Resv -> ResvRow] /\ task \in [Task -> TaskRow]
  BY TxnIsTyped, TxnIsKnown DEF IInv, TypeOK, RowsAgree
<1>1. CASE BeginRelease(c)
  <2>1. PICK r \in {x \in Resv : resv[x].status # "NONE"}, target \in {"RELEASED", "CANCELLED"} :
          Begin(c, [Idle EXCEPT !.op = "release", !.resv = r, !.order = resv[r].order,
                      !.pc = IF resv[r].order = 0 THEN "resv" ELSE "order", !.target = target])
    BY <1>1 DEF BeginRelease
  <2> DEFINE u == [Idle EXCEPT !.op = "release", !.resv = r, !.order = resv[r].order,
                     !.pc = IF resv[r].order = 0 THEN "resv" ELSE "order", !.target = target]
  <2>2. u.op = "release" /\ u.resv = r
    BY DEF Idle
  <2>3. Lined(u) /\ OfItsRows(owner, c, u)
    BY <2>2 DEF Lined, OfItsRows, Scanner, Exists
  <2> QED
    BY <2>1, <2>3, BeginsAgree
<1>2. CASE LockOrderToRelease(c) \/ LockResvToRelease(c) \/ ReleaseReservedStockQuant(c)
  <2>1. /\ \A d \in Client \ {c} : txn'[d] = txn[d]
        /\ UNCHANGED <<resv, task>>
        /\ \E row : Acquire(c, row)
    BY <1>0, <1>2 DEF LockOrderToRelease, LockOrder, LockResvToRelease, LockResv,
                      ReleaseReservedStockQuant, data
  <2>2. t.op = "release" /\ txn'[c].op = "release" /\ txn'[c].resv = t.resv
    <3>1. CASE LockOrderToRelease(c)
      BY <1>0, <3>1 DEF LockOrderToRelease, LockOrder, Known
    <3>2. CASE LockResvToRelease(c)
      BY <1>0, <3>2 DEF LockResvToRelease, LockResv, Known
    <3>3. CASE ReleaseReservedStockQuant(c)
      BY <1>0, <3>3 DEF ReleaseReservedStockQuant, Known
    <3> QED
      BY <1>2, <3>1, <3>2, <3>3
  <2>3. Lined(txn'[c]) /\ OfItsRows(owner', c, txn'[c])
    BY <1>0, <2>2 DEF Lined, OfItsRows, Scanner
  <2> QED
    BY <2>1, <2>3, Locally
<1>3. CASE CommitRelease(c)
  <2>1. /\ Commit(c, "release") /\ t.op = "release"
        /\ resv' = [resv EXCEPT ![t.resv].status = t.target]
        /\ task' = [k \in Task |-> IF task[k].resv = t.resv /\ task[k].status = "OPEN"
                                   THEN [task[k] EXCEPT !.status = "CANCELLED"] ELSE task[k]]
    BY <1>3 DEF CommitRelease, Commit
  <2>2. t.target # "NONE" /\ Exists(t.resv)
    BY <1>0, <2>1 DEF Ready, OfItsRows
  <2>3. RowsGoOn(c) /\ \A r \in Resv : Exists(r)' => Exists(r)
    BY <1>0, <2>1, <2>2 DEF RowsGoOn, Exists, ResvRow
  <2>4. TaskLines'
    BY <1>0, <2>1, StatusOnly DEF TaskRow
  <2> QED
    BY <2>1, <2>3, <2>4, StillNumbered, Committed
<1> QED
  BY <1>1, <1>2, <1>3 DEF Releasing

(* A confirmed pick.                                                        *)
LEMMA PickingAgree == ASSUME IInv, RowsAgree, NEW c \in Client, Picking(c) PROVE RowsAgree'
<1> DEFINE t == txn[c]
<1>0. /\ t \in Txn /\ DOMAIN txn = Client /\ OfItsRows(owner, c, t) /\ Known(t)
      /\ resv \in [Resv -> ResvRow] /\ task \in [Task -> TaskRow]
  BY TxnIsTyped, TxnIsKnown DEF IInv, TypeOK, RowsAgree
<1>1. CASE BeginConfirmPick(c)
  <2>1. PICK u : Begin(c, u) /\ u.op = "confirmPick" /\ u.pc = "order"
    <3>1. PICK k, l, n :
            Begin(c, [Idle EXCEPT !.op = "confirmPick", !.pc = "order", !.order = OrderOf[l],
                        !.line = l, !.task = k, !.qty = n])
      BY <1>1 DEF BeginConfirmPick
    <3> DEFINE v == [Idle EXCEPT !.op = "confirmPick", !.pc = "order", !.order = OrderOf[l],
                       !.line = l, !.task = k, !.qty = n]
    <3>2. v.op = "confirmPick" /\ v.pc = "order"
      BY DEF Idle
    <3> QED
      BY <3>1, <3>2
  <2>2. Lined(u) /\ OfItsRows(owner, c, u)
    BY <2>1 DEF Lined, OfItsRows, Scanner
  <2> QED
    BY <2>1, <2>2, BeginsAgree
<1>2. CASE LockOrderToPick(c)
  <2>1. /\ \A d \in Client \ {c} : txn'[d] = txn[d]
        /\ UNCHANGED <<resv, task>> /\ \E row : Acquire(c, row)
    BY <1>0, <1>2 DEF LockOrderToPick, LockOrder, data
  <2>2. /\ txn'[c].op = "confirmPick" /\ txn'[c].pc \in {"quant", "resv"}
        /\ txn'[c].pc = "quant" => txn'[c].resv = 0
    BY <1>0, <1>2 DEF LockOrderToPick, LockOrder, Known
  <2>3. Lined(txn'[c]) /\ OfItsRows(owner', c, txn'[c])
    BY <2>2 DEF Lined, OfItsRows, Scanner
  <2> QED
    BY <2>1, <2>3, Locally
<1>3. CASE LockResvToPick(c)
  <2>1. /\ \A d \in Client \ {c} : txn'[d] = txn[d]
        /\ UNCHANGED <<resv, task>> /\ Acquire(c, <<"resv", t.resv>>) /\ Active(t.resv)
    BY <1>0, <1>3 DEF LockResvToPick, LockResv, data
  <2>2. txn'[c].op = "confirmPick" /\ txn'[c].resv = t.resv
    BY <1>0, <1>3 DEF LockResvToPick, LockResv, Known
  <2>3. t.resv # 0 => owner'[<<"resv", t.resv>>] = c /\ Exists(t.resv)
    <3>1. t.resv # 0 => <<"resv", t.resv>> \in DOMAIN owner
      BY <1>0 DEF Txn, Row, IInv, TypeOK
    <3> QED
      BY <2>1, <3>1 DEF Acquire, Active, Exists
  <2>4. Lined(txn'[c]) /\ OfItsRows(owner', c, txn'[c])
    BY <2>2, <2>3 DEF Lined, OfItsRows, Scanner
  <2> QED
    BY <2>1, <2>4, Locally
<1>4. CASE ApplyPickToQuant(c)
  <2>1. /\ \A d \in Client \ {c} : txn'[d] = txn[d]
        /\ UNCHANGED <<resv, task>> /\ \E row : Acquire(c, row)
        /\ t.op = "confirmPick" /\ t.pc = "quant"
    BY <1>0, <1>4 DEF ApplyPickToQuant, data
  <2>2. txn'[c].op = "confirmPick" /\ txn'[c].resv = t.resv
    BY <1>0, <1>4 DEF ApplyPickToQuant, Known
  <2>3. t.resv # 0 => owner'[<<"resv", t.resv>>] = c /\ Exists(t.resv)
    <3>1. t.resv # 0 => <<"resv", t.resv>> \in Row
      BY <1>0 DEF Txn, Row
    <3> QED
      BY <1>0, <2>1, <3>1, LocksKept DEF OfItsRows
  <2>4. Lined(txn'[c]) /\ OfItsRows(owner', c, txn'[c])
    BY <2>2, <2>3 DEF Lined, OfItsRows, Scanner
  <2> QED
    BY <2>1, <2>4, Locally
<1>5. CASE CommitConfirmPick(c)
  <2>1. /\ Commit(c, "confirmPick") /\ t.op = "confirmPick" /\ t.pc = "commit"
        /\ resv' = PickedResv(t.resv, t.qty) /\ task' = [task EXCEPT ![t.task].status = "DONE"]
    BY <1>5 DEF CommitConfirmPick, Commit
  <2>2. t.resv # 0 => owner[<<"resv", t.resv>>] = c /\ Exists(t.resv)
    BY <1>0, <2>1 DEF OfItsRows
  <2>3. RowsGoOn(c) /\ \A r \in Resv : Exists(r)' => Exists(r)
    BY <1>0, <2>1, <2>2 DEF RowsGoOn, Exists, ResvRow, PickedResv
  <2>4. TaskLines'
    BY <1>0, <2>1, StatusOnly DEF TaskRow
  <2> QED
    BY <2>1, <2>3, <2>4, StillNumbered, Committed
<1> QED
  BY <1>1, <1>2, <1>3, <1>4, <1>5 DEF Picking

(* Releasing to picking, packing and shipping.                              *)
LEMMA StagingAgree == ASSUME IInv, RowsAgree, NEW c \in Client, Staging(c) PROVE RowsAgree'
<1> DEFINE t == txn[c]
<1>0. /\ t \in Txn /\ DOMAIN txn = Client /\ OfItsRows(owner, c, t) /\ Known(t)
      /\ resv \in [Resv -> ResvRow] /\ task \in [Task -> TaskRow]
  BY TxnIsTyped, TxnIsKnown DEF IInv, TypeOK, RowsAgree
<1>1. ASSUME NEW op \in {"releasePicking", "pack", "ship"}, BeginOnOrder(c, op) PROVE RowsAgree'
  <2>1. PICK o \in Order : Begin(c, [Idle EXCEPT !.op = op, !.pc = "order", !.order = o])
    BY <1>1 DEF BeginOnOrder
  <2> DEFINE u == [Idle EXCEPT !.op = op, !.pc = "order", !.order = o]
  <2>2. u.op = op /\ u.tasks = <<>>
    BY DEF Idle
  <2>3. Lined(u) /\ OfItsRows(owner, c, u)
    BY <2>2 DEF Lined, OfItsRows, Scanner
  <2> QED
    BY <2>1, <2>3, BeginsAgree
<1>2. CASE LockOrderToReleasePicking(c)
  <2>1. /\ \A d \in Client \ {c} : txn'[d] = txn[d]
        /\ UNCHANGED <<resv, task>> /\ \E row : Acquire(c, row)
    BY <1>0, <1>2 DEF LockOrderToReleasePicking, LockOrder, data
  <2>2. PICK n : \E s \in [1..n -> PickableResv(t.order)] :
           txn' = [txn EXCEPT ![c].pc = "commit", ![c].tasks = s]
    <3> DEFINE R == IF HasOpenPick(t.order) THEN {} ELSE PickableResv(t.order)
    <3>1. PICK s \in [1..Cardinality(R) -> R] :
             txn' = [txn EXCEPT ![c].pc = "commit", ![c].tasks = s]
      BY <1>2 DEF LockOrderToReleasePicking
    <3>2. s \in [1..Cardinality(R) -> PickableResv(t.order)]
      OBVIOUS
    <3> QED
      BY <3>1, <3>2
  <2> PICK s \in [1..n -> PickableResv(t.order)] :
           txn' = [txn EXCEPT ![c].pc = "commit", ![c].tasks = s]
    BY <2>2
  <2>3. txn'[c].op = "releasePicking" /\ txn'[c].tasks = s
    BY <1>0, <1>2 DEF LockOrderToReleasePicking, LockOrder, Known
  <2>4. \A i \in DOMAIN s : Exists(s[i]) /\ resv[s[i]].line \in Line
    BY DEF PickableResv, Active, Exists, LinesOf
  <2>5. \A i \in 1..Len(s) : i \in DOMAIN s
    <3>1. s \in Seq(Resv)
      <4>1. txn' \in [Client -> Txn]
        BY <1>2, StagingStep DEF Staging, IInv, TypeOK
      <4>2. txn'[c] \in Txn
        BY <4>1
      <4>3. txn'[c].tasks \in Seq(Resv)
        BY <4>2 DEF Txn
      <4> QED
        BY <2>3, <4>3
    <3>2. DOMAIN s = 1..Len(s)
      BY <3>1
    <3> QED
      BY <3>2
  <2>6. Lined(txn'[c]) /\ OfItsRows(owner', c, txn'[c])
    BY <2>3, <2>4, <2>5 DEF Lined, OfItsRows, Scanner
  <2> QED
    BY <2>1, <2>6, Locally
<1>3. CASE CommitReleasePicking(c)
  <2> DEFINE rows == [i \in 1..Len(t.tasks) |->
                        [status |-> "OPEN", resv |-> t.tasks[i], line |-> resv[t.tasks[i]].line]]
  <2>1. Commit(c, "releasePicking") /\ t.op = "releasePicking" /\ resv' = resv /\ InsertTask(rows)
    BY <1>3 DEF CommitReleasePicking, Commit
  <2>2. t.tasks \in Seq(Resv)
    BY <1>0 DEF Txn
  <2>3. Len(rows) = Len(t.tasks) /\ \A i \in 1..Len(t.tasks) : rows[i].line \in Line
    BY <1>0, <2>1, <2>2 DEF OfItsRows
  <2> HIDE DEF rows
  <2>4. TaskLines'
    BY <2>1, <2>3 DEF RowsAgree, TaskLines, InsertTask
  <2> QED
    BY <2>1, <2>4, CommittedApart
<1>4. CASE LockOrderToPack(c) \/ LockOrderToShip(c)
  <2>1. /\ \A d \in Client \ {c} : txn'[d] = txn[d]
        /\ UNCHANGED <<resv, task>> /\ \E row : Acquire(c, row)
    BY <1>0, <1>4 DEF LockOrderToPack, LockOrderToShip, LockOrder, data
  <2>2. txn'[c].op \in {"pack", "ship"}
    BY <1>0, <1>4 DEF LockOrderToPack, LockOrderToShip, LockOrder, Known
  <2>3. Lined(txn'[c]) /\ OfItsRows(owner', c, txn'[c])
    BY <2>2, Silent DEF Scanner
  <2> QED
    BY <2>1, <2>3, Locally
<1>5. ASSUME NEW op, Commit(c, op), UNCHANGED <<resv, task>> PROVE RowsAgree'
  <2>1. TaskLines'
    BY <1>5 DEF RowsAgree, TaskLines
  <2> QED
    BY <1>5, <2>1, CommittedApart
<1> QED
  BY <1>1, <1>2, <1>3, <1>4, <1>5 DEF Staging, CommitPack, CommitShip

(* Requests for a task.                                                     *)
LEMMA TaskingAgree == ASSUME IInv, RowsAgree, NEW c \in Client, Tasking(c) PROVE RowsAgree'
<1> DEFINE t == txn[c]
<1>0. t \in Txn /\ DOMAIN txn = Client /\ Known(t) /\ task \in [Task -> TaskRow]
  BY TxnIsTyped, TxnIsKnown DEF IInv, TypeOK
<1>1. CASE ReadTask(c) \/ ClaimTask(c)
  <2>1. PICK p, k, s : Begin(c, [Idle EXCEPT !.op = "task", !.pc = p, !.task = k, !.target = s])
    BY <1>1 DEF ReadTask, ClaimTask
  <2> DEFINE u == [Idle EXCEPT !.op = "task", !.pc = p, !.task = k, !.target = s]
  <2>2. u.op = "task"
    BY DEF Idle
  <2>3. Lined(u) /\ OfItsRows(owner, c, u)
    BY <2>2, Silent DEF Scanner
  <2> QED
    BY <2>1, <2>3, BeginsAgree
<1>2. CASE LockTask(c)
  <2>1. /\ \A d \in Client \ {c} : txn'[d] = txn[d]
        /\ UNCHANGED <<resv, task>> /\ \E row : Acquire(c, row)
    BY <1>0, <1>2 DEF LockTask, data
  <2>2. txn'[c].op = "task"
    BY <1>0, <1>2 DEF LockTask, Known
  <2>3. Lined(txn'[c]) /\ OfItsRows(owner', c, txn'[c])
    BY <2>2, Silent DEF Scanner
  <2> QED
    BY <2>1, <2>3, Locally
<1>3. CASE WriteTask(c)
  <2>1. Commit(c, "task") /\ resv' = resv /\ task' = [task EXCEPT ![t.task].status = t.target]
    BY <1>3 DEF WriteTask
  <2>2. TaskLines'
    BY <1>0, <2>1, StatusOnly DEF TaskRow
  <2> QED
    BY <2>1, <2>2, CommittedApart
<1> QED
  BY <1>1, <1>2, <1>3 DEF Tasking

(* A transaction that is rolled back.                                       *)
LEMMA RollbackAgree == ASSUME IInv, RowsAgree, NEW c \in Client, Rollback(c) PROVE RowsAgree'
<1>1. txn'[c] = Idle /\ \A d \in Client \ {c} : txn'[d] = txn[d]
  BY DEF Rollback, IInv, TypeOK
<1>2. Lined(Idle) /\ OfItsRows(owner', c, Idle)
  BY IdleOwnsNothing, Silent DEF Scanner
<1> QED
  BY <1>1, <1>2, Locally DEF Rollback, data

-----------------------------------------------------------------------------
(* A step of a scanner on the way: it goes on with the reservation, the     *)
(* quantity and the plan it has.                                            *)
LEMMA ScannerGoesOn ==
  ASSUME IInv, RowsAgree, NEW c \in Client, txn[c].op \in Scanner, NEW u \in Txn,
         txn' = [txn EXCEPT ![c] = u], UNCHANGED <<resv, task>>, \E row : Acquire(c, row),
         u.op = txn[c].op, u.resv = txn[c].resv, u.qty = txn[c].qty, u.plan = txn[c].plan,
         u.target = txn[c].target \/ u.op = "rfPick", u.task = txn[c].task, u.pc # "task",
         u.pc \in {"plan", "order", "commit"} => txn[c].pc \in {"plan", "order", "commit"}
  PROVE  RowsAgree'
<1> DEFINE t == txn[c]
<1>1. t \in Txn /\ OfItsRows(owner, c, t) /\ \A x \in Row : owner[x] = c => owner'[x] = c
  BY TxnIsTyped, LocksKept DEF RowsAgree
<1>2. txn'[c] = u /\ \A d \in Client \ {c} : txn'[d] = txn[d]
  BY DEF IInv, TypeOK
<1>3. t.resv # 0 => <<"resv", t.resv>> \in Row
  BY <1>1 DEF Txn, Row
<1>4. Lined(u) /\ OfItsRows(owner', c, u)
  BY <1>1, <1>3 DEF OfItsRows, Lined, Scanner
<1> QED
  BY <1>2, <1>4, Locally

(* What a scanner takes off a quant it has locked was reserved there.       *)
LEMMA TakeOff ==
  ASSUME IInv, NEW c \in Client, NEW q, NEW n \in Nat, NEW u \in Txn, Ready(u),
         Acquire(c, <<"quant", q>>), q \in Quant => reserved[q] + dRes[c][q] >= n, UNCHANGED <<data, ops>>,
         txn' = [txn EXCEPT ![c] = u], dRes' = [dRes EXCEPT ![c][q] = @ - n],
         dQty' = dQty \/ dQty' = [dQty EXCEPT ![c][q] = @ - n]
  PROVE  IInv'
<1>1. /\ dRes \in [Client -> [Quant -> Int]] /\ dRes[c] \in [Quant -> Int]
      /\ dQty \in [Client -> [Quant -> Int]] /\ dQty[c] \in [Quant -> Int]
  BY DEF IInv, TypeOK
<1>2. PICK y \in [Quant -> Int] : /\ dRes' = [dRes EXCEPT ![c] = y]
                                  /\ \A k \in Quant \ {q} : y[k] = dRes[c][k]
                                  /\ q \in Quant => y[q] = dRes[c][q] - n
  <2> DEFINE y == [dRes[c] EXCEPT ![q] = @ - n]
  <2>1. y \in [Quant -> Int]
    <3>1. q \in Quant => dRes[c][q] - n \in Int
      BY <1>1
    <3> QED
      BY <1>1, <3>1
  <2>2. dRes' = [dRes EXCEPT ![c] = y]
    BY <1>1
  <2> QED
    BY <1>1, <2>1, <2>2
<1>3. PICK x \in [Quant -> Int] : /\ dQty' = [dQty EXCEPT ![c] = x]
                                  /\ \A k \in Quant \ {q} : x[k] = dQty[c][k]
                                  /\ q \in Quant => x[q] = dQty[c][q] \/ x[q] = dQty[c][q] - n
  <2>1. CASE dQty' = dQty
    <3>1. dQty' = [dQty EXCEPT ![c] = dQty[c]]
      BY <1>1, <2>1
    <3> QED
      BY <1>1, <3>1
  <2>2. CASE dQty' = [dQty EXCEPT ![c][q] = @ - n]
    <3> DEFINE x == [dQty[c] EXCEPT ![q] = @ - n]
    <3>1. x \in [Quant -> Int]
      <4>1. q \in Quant => dQty[c][q] - n \in Int
        BY <1>1
      <4> QED
        BY <1>1, <4>1
    <3>2. dQty' = [dQty EXCEPT ![c] = x]
      BY <1>1, <2>2
    <3> QED
      BY <1>1, <3>1, <3>2
  <2> QED
    BY <2>1, <2>2
<1>4. ASSUME q \in Quant
      PROVE  0 <= reserved[q] + y[q] /\ reserved[q] + y[q] <= quantity[q] + x[q]
  <2>1. quantity[q] \in Nat /\ reserved[q] \in Nat /\ Covered(c, q)
    BY <1>4 DEF IInv, TypeOK
  <2>2. dRes[c][q] \in Int /\ dQty[c][q] \in Int
    BY <1>1, <1>4
  <2>3. y[q] = dRes[c][q] - n /\ (x[q] = dQty[c][q] \/ x[q] = dQty[c][q] - n)
    BY <1>2, <1>3, <1>4
  <2>4. PICK a \in Int, b \in Int, d \in Int, e \in Int :
          a = dRes[c][q] /\ b = dQty[c][q] /\ d = reserved[q] /\ e = quantity[q]
    BY <2>1, <2>2
  <2> QED
    BY <1>4, <2>1, <2>3, <2>4 DEF Covered
<1>5. \A k \in Quant \ {q} : x[k] = dQty[c][k] /\ y[k] = dRes[c][k]
  BY <1>2, <1>3
<1> QED
  BY <1>2, <1>3, <1>4, <1>5, QuantStep

(* The fields of a transaction that a scanner uses.                         *)
LEMMA TxnFields ==
  ASSUME NEW t \in Txn
  PROVE  /\ t.resv \in Resv \cup {0} /\ t.qty \in Nat /\ t.plan \in Seq(Part)
         /\ t.task \in Task \cup {0} /\ t.order \in Order \cup {0}
<1>1. t.resv \in Resv \cup {0}
  BY Zenon DEF Txn
<1>2. t.qty \in Nat
  BY Zenon DEF Txn
<1>3. t.plan \in Seq(Part)
  BY Zenon DEF Txn
<1>4. t.task \in Task \cup {0}
  BY Zenon DEF Txn
<1>5. t.order \in Order \cup {0}
  BY Zenon DEF Txn
<1> QED
  BY <1>1, <1>2, <1>3, <1>4, <1>5

(* To move on is to change nothing but the place in the transaction.        *)
LEMMA TxnMoves ==
  ASSUME NEW t \in Txn, NEW p \in {"resv", "plan", "quant", "order", "commit"}
  PROVE  /\ [t EXCEPT !.pc = p] \in Txn
         /\ LET u == [t EXCEPT !.pc = p] IN
            /\ u.op = t.op /\ u.pc = p /\ u.resv = t.resv
            /\ u.qty = t.qty /\ u.plan = t.plan /\ u.target = t.target /\ u.task = t.task
<1>1. [t EXCEPT !.pc = p] \in Txn
  BY ZenonT(60) DEF Txn
<1>2. {"op", "pc", "resv", "qty", "plan", "target", "task"} \subseteq DOMAIN t
  BY Zenon DEF Txn
<1> QED
  BY <1>1, <1>2

(* A scanner that reads, checks and locks on its way takes nothing.         *)
LEMMA ScannerStep ==
  ASSUME IInv, RowsAgree, NEW c \in Client, txn[c].op \in Scanner, NEW u \in Txn,
         txn' = [txn EXCEPT ![c] = u], UNCHANGED <<data, dQty, dRes, ops>>, \E row : Acquire(c, row),
         u.op = txn[c].op, u.resv = txn[c].resv, u.qty = txn[c].qty, u.plan = txn[c].plan,
         u.target = txn[c].target \/ u.op = "rfPick", u.task = txn[c].task, u.pc \notin {"task", "quant"},
         u.pc \in {"plan", "order", "commit"} => txn[c].pc \in {"plan", "order", "commit"}
  PROVE  IInv' /\ RowsAgree'
<1>1. Ready(u) /\ ops' \in Nat
  BY DEF Ready, Scanner, IInv, TypeOK
<1>2. UNCHANGED <<resv, task>>
  BY DEF data
<1> QED
  BY <1>1, <1>2, LocalStep, ScannerGoesOn

(* The UPDATE of the reservation holds its row from then on, and has passed *)
(* the CHECK that its quantity stays positive.                              *)
LEMMA UpdatesItsReservation ==
  ASSUME IInv, RowsAgree, NEW c \in Client, NEW op \in Scanner, NEW next \in {"plan", "order"},
         UpdateReservation(c, op, next)
  PROVE  IInv' /\ RowsAgree'
<1> DEFINE t == txn[c]
           u == [t EXCEPT !.pc = next]
<1>1. /\ t \in Txn /\ OfItsRows(owner, c, t) /\ t.op = op /\ ops \in Nat
      /\ Acquire(c, <<"resv", t.resv>>) /\ UNCHANGED <<data, dQty, dRes, ops>>
      /\ t.qty < t.plan[1].qty => t.qty < resv[t.resv].qty
      /\ DOMAIN txn = Client /\ DOMAIN owner = Row
  BY TxnIsTyped DEF UpdateReservation, RowsAgree, IInv, TypeOK
<1>2. txn' = [txn EXCEPT ![c] = u]
  BY <1>1 DEF UpdateReservation
<1>3. u \in Txn
  BY <1>1, TxnMoves
<1>4. /\ u.op = t.op /\ u.pc = next /\ u.resv = t.resv /\ u.qty = t.qty /\ u.plan = t.plan
      /\ u.target = t.target /\ u.task = t.task
  BY <1>1, TxnMoves
<1> HIDE DEF u
<1>5. Ready(u)
  BY <1>1, <1>4 DEF Ready, Scanner
<1>6. IInv'
  BY <1>1, <1>2, <1>3, <1>5, LocalStep
<1>7. t.resv # 0 => owner'[<<"resv", t.resv>>] = c
  <2>1. t.resv # 0 => <<"resv", t.resv>> \in Row
    BY <1>1, TxnFields DEF Row
  <2> QED
    BY <1>1, <2>1 DEF Acquire
<1>8. Lined(u) /\ OfItsRows(owner', c, u)
  BY <1>1, <1>4, <1>7 DEF Lined, OfItsRows, Scanner
<1>9. txn'[c] = u /\ (\A d \in Client \ {c} : txn'[d] = txn[d]) /\ UNCHANGED <<resv, task>>
  BY <1>1, <1>2 DEF data
<1> QED
  BY <1>1, <1>6, <1>8, <1>9, Locally

(* What a scanner then writes to the reservation leaves a reservation.      *)
LEMMA WritesItsReservation ==
  ASSUME IInv, RowsAgree, NEW c \in Client, txn[c].op \in Scanner, txn[c].pc = "commit",
         NEW end \in {"PICKED", "RELEASED"},
         resv' = resv \/ (txn[c].resv # 0 /\
           resv' = UpdatedResv(txn[c].resv, txn[c].qty, txn[c].plan[1].qty, end))
  PROVE  resv' \in [Resv -> ResvRow] /\ RowsGoOn(c) /\ Numbered'
<1> DEFINE t == txn[c]
<1>1. t \in Txn /\ OfItsRows(owner, c, t) /\ resv \in [Resv -> ResvRow]
  BY TxnIsTyped DEF RowsAgree, IInv, TypeOK
<1>2. CASE resv' = resv
  BY <1>1, <1>2, StillNumbered DEF RowsGoOn, Exists
<1>3. CASE t.resv # 0 /\ resv' = UpdatedResv(t.resv, t.qty, t.plan[1].qty, end)
  <2>1. /\ t.resv \in Resv /\ Exists(t.resv) /\ owner[<<"resv", t.resv>>] = c
        /\ t.qty < t.plan[1].qty => t.qty < resv[t.resv].qty
    BY <1>1, <1>3, TxnFields DEF OfItsRows, Scanner
  <2>2. PICK r \in Resv : r = t.resv
    BY <2>1
  <2>3. resv[r] \in ResvRow /\ resv[r].qty \in Nat /\ t.qty \in Nat
    BY <1>1, TxnFields DEF ResvRow
  <2>4. t.plan[1].qty \in Nat
    <3>1. t.plan \in Seq(Part) /\ t.plan # <<>>
      BY <1>1, <1>3, TxnFields DEF OfItsRows, Scanner
    <3>2. t.plan[1] \in Part
      BY <3>1
    <3> QED
      BY <3>2 DEF Part
  <2>5. PICK row \in ResvRow : /\ resv' = [resv EXCEPT ![r] = row] /\ row.line = resv[r].line
                               /\ row.status # "NONE"
    <3>1. CASE t.qty >= t.plan[1].qty
      <4>1. resv' = [resv EXCEPT ![r] = [resv[r] EXCEPT !.status = end]]
        BY <1>1, <1>3, <2>2, <3>1 DEF UpdatedResv
      <4>2. /\ [resv[r] EXCEPT !.status = end] \in ResvRow
            /\ [resv[r] EXCEPT !.status = end].line = resv[r].line
            /\ [resv[r] EXCEPT !.status = end].status # "NONE"
        BY <2>3 DEF ResvRow, ResvStatus
      <4> QED
        BY <4>1, <4>2
    <3>2. CASE ~(t.qty >= t.plan[1].qty)
      <4>1. resv' = [resv EXCEPT ![r] = [resv[r] EXCEPT !.qty = @ - t.qty]]
        BY <1>1, <1>3, <2>2, <3>2 DEF UpdatedResv
      <4>2. resv[r].qty - t.qty \in Nat
        BY <2>1, <2>2, <2>3, <2>4, <3>2
      <4>3. /\ [resv[r] EXCEPT !.qty = @ - t.qty] \in ResvRow
            /\ [resv[r] EXCEPT !.qty = @ - t.qty].line = resv[r].line
            /\ [resv[r] EXCEPT !.qty = @ - t.qty].status # "NONE"
        BY <2>1, <2>2, <2>3, <4>2 DEF ResvRow, Exists
      <4> QED
        BY <4>1, <4>3
    <3> QED
      BY <3>1, <3>2
  <2>6. resv' \in [Resv -> ResvRow]
    BY <1>1, <2>5
  <2>7. RowsGoOn(c) /\ \A k \in Resv : Exists(k)' => Exists(k)
    BY <1>1, <2>1, <2>2, <2>5 DEF RowsGoOn, Exists
  <2> QED
    BY <2>6, <2>7, StillNumbered
<1> QED
  BY <1>2, <1>3

(* A scanner begins a pick with the reservation of the task it is sent to.  *)
LEMMA RfPickBegins ==
  ASSUME IInv, RowsAgree, NEW c \in Client, BeginRfPick(c) PROVE IInv' /\ RowsAgree'
<1>1. PICK k \in Task : /\ task[k].resv # 0 /\ Active(task[k].resv)
                        /\ \E n \in 1..Ordered[task[k].line] :
                             Begin(c, [Idle EXCEPT !.op = "rfPick", !.pc = "quant", !.order = OrderOfTask(k),
                                         !.line = task[k].line, !.resv = task[k].resv, !.task = k, !.qty = n,
                                         !.plan = <<[line |-> task[k].line, quant |-> resv[task[k].resv].quant,
                                                     qty |-> resv[task[k].resv].qty]>>])
  BY Zenon DEF BeginRfPick
<1>2. task[k] \in TaskRow /\ resv \in [Resv -> ResvRow] /\ task[k].line \in Line
  BY <1>1 DEF IInv, TypeOK, RowsAgree, TaskLines
<1>3. PICK r \in Resv, l \in Line : r = task[k].resv /\ l = task[k].line
  BY <1>1, <1>2 DEF TaskRow
<1>4. resv[r] \in ResvRow /\ Exists(r) /\ Ordered[l] \in Nat
  BY <1>1, <1>2, <1>3, OrderStockConstants DEF Active, Exists
<1>5. PICK o \in Order \cup {0}, q \in Quant \cup {0}, m \in Nat :
        o = resv[r].order /\ q = resv[r].quant /\ m = resv[r].qty
  BY <1>4 DEF ResvRow
<1>6. PICK n \in 1..Ordered[task[k].line] :
        Begin(c, [Idle EXCEPT !.op = "rfPick", !.pc = "quant", !.order = OrderOfTask(k), !.line = task[k].line,
                    !.resv = task[k].resv, !.task = k, !.qty = n,
                    !.plan = <<[line |-> task[k].line, quant |-> resv[task[k].resv].quant,
                                qty |-> resv[task[k].resv].qty]>>])
  BY <1>1, Zenon
<1> DEFINE p == <<[line |-> l, quant |-> q, qty |-> m]>>
           u == [Idle EXCEPT !.op = "rfPick", !.pc = "quant", !.order = o, !.line = l,
                   !.resv = r, !.task = k, !.qty = n, !.plan = p]
<1>7. Begin(c, u) /\ "rfPick" \in Service /\ n \in Nat /\ p \in Seq(Part) /\ p # <<>>
  <2>1. p \in Seq(Part) /\ p # <<>>
    BY OnePart
  <2>2. OrderOfTask(k) = o /\ n \in Nat
    BY <1>3, <1>4, <1>5 DEF OrderOfTask
  <2>3. Begin(c, u)
    BY <1>3, <1>5, <1>6, <2>2
  <2>4. u.op = "rfPick"
    BY DEF Idle
  <2> HIDE DEF u
  <2>5. "rfPick" \in Service
    BY <2>3, <2>4 DEF Begin
  <2> QED
    BY <2>1, <2>2, <2>3, <2>5
<1> HIDE DEF p
<1>8. u \in Txn
  <2>1. l \in Nat /\ n \in Nat /\ "rfPick" \in Service /\ p \in Seq(Part)
    BY <1>7 DEF Line
  <2> HIDE DEF p
  <2> QED
    BY <2>1, IdleIsReady, ZenonT(60) DEF Txn
<1>9. u.op = "rfPick" /\ u.pc = "quant" /\ u.resv = r /\ u.plan = p
  BY DEF Idle
<1> HIDE DEF u
<1>10. Ready(u) /\ Lined(u) /\ OfItsRows(owner, c, u)
  BY <1>4, <1>7, <1>9 DEF Ready, Lined, OfItsRows, Scanner
<1> QED
  BY <1>7, <1>8, <1>10, BeginStep, BeginsAgree

(* The scanner of a pick takes what it has found reserved and on hand.      *)
LEMMA RfPickTakes ==
  ASSUME IInv, RowsAgree, NEW c \in Client, RfLockQuant(c) PROVE IInv' /\ RowsAgree'
<1> DEFINE t == txn[c]
           u == [t EXCEPT !.pc = "resv"]
<1>1. t \in Txn /\ t.qty \in Nat /\ t.op = "rfPick" /\ DOMAIN txn = Client
  BY TxnIsTyped, TxnFields DEF RfLockQuant, IInv, TypeOK
<1>2. /\ u \in Txn /\ u.op = t.op /\ u.pc = "resv" /\ u.resv = t.resv
      /\ u.qty = t.qty /\ u.plan = t.plan /\ u.target = t.target /\ u.task = t.task
  BY <1>1, TxnMoves
<1>3. txn' = [txn EXCEPT ![c] = u]
  BY <1>1 DEF RfLockQuant
<1>4. PICK q, n : /\ q = t.plan[1].quant /\ n = t.qty /\ n \in Nat
                  /\ Acquire(c, <<"quant", q>>) /\ reserved[q] + dRes[c][q] >= n
                  /\ dRes' = [dRes EXCEPT ![c][q] = @ - n] /\ dQty' = [dQty EXCEPT ![c][q] = @ - n]
  BY <1>1 DEF RfLockQuant
<1> HIDE DEF u
<1>5. UNCHANGED <<data, ops>> /\ Ready(u)
  BY <1>1, <1>2 DEF RfLockQuant, Ready
<1>6. IInv'
  BY <1>2, <1>3, <1>4, <1>5, TakeOff
<1>7. RowsAgree'
  <2>1. UNCHANGED <<resv, task>>
    BY <1>5 DEF data
  <2> QED
    BY <1>1, <1>2, <1>3, <1>4, <2>1, ScannerGoesOn DEF Scanner
<1> QED
  BY <1>6, <1>7

(* Its commit writes the reservation, the line, the task and the order.     *)
LEMMA RfPickCommits ==
  ASSUME IInv, RowsAgree, NEW c \in Client, CommitRfPick(c) PROVE IInv' /\ RowsAgree'
<1> DEFINE t == txn[c]
<1>1. /\ t \in Txn /\ Commit(c, "rfPick") /\ t.op = "rfPick" /\ t.pc = "commit" /\ t.qty \in Nat
      /\ resv' = UpdatedResv(t.resv, t.qty, t.plan[1].qty, "PICKED")
      /\ picked' = [picked EXCEPT ![t.line] = @ + t.qty]
      /\ task' = [task EXCEPT ![t.task].status = "DONE"]
  BY TxnIsTyped, TxnFields DEF CommitRfPick, Commit
<1>2. /\ resv \in [Resv -> ResvRow] /\ task \in [Task -> TaskRow] /\ picked \in [Line -> Nat]
      /\ status \in [Order -> OrderStatus] /\ fulfil \in [Order -> OrderStatus \cup {"UNSET"}]
  BY DEF IInv, TypeOK
<1>3. resv' \in [Resv -> ResvRow] /\ RowsGoOn(c) /\ Numbered'
  <2>1. t.resv = 0 => resv' = resv
    BY <1>1, <1>2 DEF UpdatedResv, Resv
  <2> QED
    BY <1>1, <2>1, WritesItsReservation DEF Scanner
<1>4. picked' \in [Line -> Nat]
  <2>1. \A l \in Line : picked[l] + t.qty \in Nat
    BY <1>1, <1>2
  <2> QED
    BY <1>1, <1>2, <2>1
<1>5. task' \in [Task -> TaskRow] /\ TaskLines'
  <2>1. \A k \in Task : [task[k] EXCEPT !.status = "DONE"] \in TaskRow
    BY <1>2 DEF TaskRow, TaskStatus
  <2>2. \A k \in Task : task'[k].resv = task[k].resv /\ task'[k].line = task[k].line
    BY <1>1, <1>2 DEF TaskRow
  <2> QED
    BY <1>1, <1>2, <2>1, <2>2, StatusOnly
<1>6. status' \in [Order -> OrderStatus] /\ fulfil' \in [Order -> OrderStatus \cup {"UNSET"}]
  BY <1>2 DEF CommitRfPick, UpdateOrderStatus, OrderStatus
<1> QED
  BY <1>1, <1>3, <1>4, <1>5, <1>6, CommitStep, Committed

(* A pick of the scanner keeps stock covered and rows in agreement.         *)
LEMMA RfPickingKeeps ==
  ASSUME IInv, RowsAgree, NEW c \in Client, RfPicking(c) PROVE IInv' /\ RowsAgree'
<1> DEFINE t == txn[c]
<1>1. t \in Txn /\ DOMAIN txn = Client
  BY TxnIsTyped DEF IInv, TypeOK
<1>2. CASE RfUpdateReservation(c)
  BY <1>2, UpdatesItsReservation DEF RfUpdateReservation, Scanner
<1>3. CASE RfReadLines(c)
  <2>1. /\ t.op = "rfPick" /\ t.pc = "plan" /\ (\E row : Acquire(c, row))
        /\ UNCHANGED <<data, dQty, dRes, ops>>
    BY <1>3 DEF RfReadLines
  <2>2. PICK next \in {"order", "commit"} : txn' = [txn EXCEPT ![c] = [t EXCEPT !.pc = next]]
    BY <1>1, <1>3 DEF RfReadLines
  <2> DEFINE u == [t EXCEPT !.pc = next]
  <2>3. /\ u \in Txn /\ u.op = t.op /\ u.pc = next /\ u.resv = t.resv
        /\ u.qty = t.qty /\ u.plan = t.plan /\ u.target = t.target /\ u.task = t.task
    <3>1. next \in {"resv", "plan", "quant", "order", "commit"}
      OBVIOUS
    <3> QED
      BY <1>1, <3>1, TxnMoves
  <2>4. txn' = [txn EXCEPT ![c] = u]
    BY <2>2
  <2> HIDE DEF u
  <2> QED
    BY <2>1, <2>3, <2>4, ScannerStep DEF Scanner
<1>4. CASE RfUpdateOrder(c)
  <2> DEFINE v == [t EXCEPT !.pc = "commit"]
             u == [v EXCEPT !.target = "PICKED"]
  <2>1. /\ t.op = "rfPick" /\ t.pc = "order" /\ (\E row : Acquire(c, row))
        /\ UNCHANGED <<data, dQty, dRes, ops>>
    BY <1>4 DEF RfUpdateOrder, LockOrder
  <2>2. txn' = [txn EXCEPT ![c] = u]
    BY <1>1, <1>4 DEF RfUpdateOrder
  <2>3. /\ v \in Txn /\ v.op = t.op /\ v.pc = "commit" /\ v.resv = t.resv /\ v.qty = t.qty /\ v.plan = t.plan
        /\ v.task = t.task
    BY <1>1, TxnMoves
  <2> HIDE DEF v
  <2>4. u \in Txn
    BY <2>3, ZenonT(60) DEF Txn, ResvStatus
  <2>5. /\ u.op = v.op /\ u.pc = v.pc /\ u.resv = v.resv /\ u.qty = v.qty /\ u.plan = v.plan
        /\ u.task = v.task
    OBVIOUS
  <2> HIDE DEF u
  <2> QED
    BY <2>1, <2>2, <2>3, <2>4, <2>5, ScannerStep DEF Scanner
<1> QED
  BY <1>2, <1>3, <1>4, RfPickBegins, RfPickTakes, RfPickCommits DEF RfPicking

(* An exception begins with the task, and knows no reservation yet.         *)
LEMMA RfExceptionBegins ==
  ASSUME IInv, RowsAgree, NEW c \in Client, BeginRfException(c) PROVE IInv' /\ RowsAgree'
<1>1. PICK k \in Task, s \in {"FAILED", "BLOCKED"} :
        Begin(c, [Idle EXCEPT !.op = "rfException", !.pc = "task", !.task = k, !.target = s,
                    !.order = IF task[k].resv = 0 THEN 0 ELSE OrderOfTask(k)])
  BY Zenon DEF BeginRfException
<1>2. PICK o \in Order \cup {0} : o = IF task[k].resv = 0 THEN 0 ELSE OrderOfTask(k)
  <2>1. task[k] \in TaskRow /\ resv \in [Resv -> ResvRow]
    BY DEF IInv, TypeOK
  <2>2. task[k].resv # 0 => resv[task[k].resv] \in ResvRow
    BY <2>1 DEF TaskRow
  <2>3. task[k].resv # 0 => resv[task[k].resv].order \in Order \cup {0}
    BY <2>2 DEF ResvRow
  <2> QED
    BY <2>3 DEF OrderOfTask
<1> DEFINE u == [Idle EXCEPT !.op = "rfException", !.pc = "task", !.task = k, !.target = s, !.order = o]
<1>3. Begin(c, u)
  BY <1>1, <1>2
<1>4. u.op = "rfException" /\ u.pc = "task" /\ u.resv = 0 /\ u.target = s /\ u.task = k
  BY DEF Idle
<1>5. u \in Txn
  <2> HIDE DEF u
  <2>1. "rfException" \in Service /\ s \in TaskStatus
    BY <1>3, <1>4 DEF Begin, TaskStatus
  <2> QED
    BY <2>1, IdleIsReady, ZenonT(60) DEF Txn, u
<1> HIDE DEF u
<1>6. Ready(u) /\ Lined(u) /\ OfItsRows(owner, c, u)
  BY <1>4 DEF Ready, Lined, OfItsRows, Scanner, TaskStatus
<1> QED
  BY <1>3, <1>5, <1>6, BeginStep, BeginsAgree

(* Under the lock of the task it goes on to the order, or picks up the      *)
(* active reservation of the task.                                          *)
LEMMA RfExceptionLooks ==
  ASSUME IInv, RowsAgree, NEW c \in Client, RfLockTask(c) PROVE IInv' /\ RowsAgree'
<1> DEFINE t == txn[c]
           r == task[t.task].resv
           p == <<[line |-> resv[r].line, quant |-> resv[r].quant, qty |-> resv[r].qty]>>
<1>1. /\ t \in Txn /\ t.op = "rfException" /\ t.resv = 0 /\ t.target \in TaskStatus /\ t.task \in Task
      /\ Acquire(c, <<"task", t.task>>) /\ UNCHANGED <<data, dQty, dRes, ops>>
      /\ DOMAIN txn = Client /\ ops \in Nat
  <2>1. t \in Txn /\ OfItsRows(owner, c, t) /\ DOMAIN txn = Client /\ ops \in Nat
    BY TxnIsTyped DEF RowsAgree, IInv, TypeOK
  <2>2. /\ t.op = "rfException" /\ t.pc = "task" /\ Acquire(c, <<"task", t.task>>)
        /\ UNCHANGED <<data, dQty, dRes, ops>>
    BY DEF RfLockTask
  <2> QED
    BY <2>1, <2>2 DEF OfItsRows
<1>2. PICK u \in Txn : /\ txn' = [txn EXCEPT ![c] = u] /\ Ready(u) /\ Lined(u) /\ OfItsRows(owner', c, u)
  <2>1. CASE txn' = [txn EXCEPT ![c].pc = IF t.order = 0 THEN "commit" ELSE "order"]
    <3>1. PICK next \in {"commit", "order"} : txn' = [txn EXCEPT ![c] = [t EXCEPT !.pc = next]]
      BY <1>1, <2>1
    <3> DEFINE u == [t EXCEPT !.pc = next]
    <3>2. /\ u \in Txn /\ u.op = t.op /\ u.pc = next /\ u.resv = t.resv
          /\ u.target = t.target /\ u.task = t.task
      <4>1. next \in {"resv", "plan", "quant", "order", "commit"}
        OBVIOUS
      <4> QED
        BY <1>1, <4>1, TxnMoves
    <3>3. txn' = [txn EXCEPT ![c] = u]
      BY <3>1
    <3> HIDE DEF u
    <3>4. Ready(u) /\ Lined(u) /\ OfItsRows(owner', c, u)
      BY <1>1, <3>2 DEF Ready, Lined, OfItsRows, Scanner
    <3> QED
      BY <3>2, <3>3, <3>4
  <2>2. CASE txn' # [txn EXCEPT ![c].pc = IF t.order = 0 THEN "commit" ELSE "order"]
    <3>1. /\ r # 0 /\ Active(r)
          /\ \E n \in 1..resv[r].qty :
               txn' = [txn EXCEPT ![c].pc = "quant", ![c].resv = r, ![c].qty = n, ![c].plan = p]
      BY <2>2, Zenon DEF RfLockTask
    <3>2. PICK n \in 1..resv[r].qty :
            txn' = [txn EXCEPT ![c].pc = "quant", ![c].resv = r, ![c].qty = n, ![c].plan = p]
      BY <3>1, Zenon
    <3>3. r \in Resv /\ resv[r] \in ResvRow
      <4>1. task[t.task] \in TaskRow /\ resv \in [Resv -> ResvRow]
        BY <1>1 DEF IInv, TypeOK
      <4> QED
        BY <3>1, <4>1 DEF TaskRow
    <3>4. /\ resv[r].line \in Line \cup {0} /\ resv[r].quant \in Quant \cup {0} /\ resv[r].qty \in Nat
          /\ n \in Nat
      BY <3>2, <3>3 DEF ResvRow
    <3>5. p \in Seq(Part) /\ p # <<>>
      BY <3>4, OnePart
    <3> DEFINE u == [t EXCEPT !.pc = "quant", !.resv = r, !.qty = n, !.plan = p]
    <3>6. txn' = [txn EXCEPT ![c] = u]
      BY <1>1, <3>2
    <3> HIDE DEF p, r, t
    <3>7. u \in Txn
      BY <1>1, <3>3, <3>4, <3>5, ZenonT(60) DEF Txn
    <3>8. /\ u.op = t.op /\ u.pc = "quant" /\ u.resv = r /\ u.plan = p
          /\ u.target = t.target /\ u.task = t.task
      <4>1. {"op", "pc", "resv", "qty", "plan", "target", "task"} \subseteq DOMAIN t
        BY <1>1, Zenon DEF Txn
      <4> QED
        BY <4>1
    <3> HIDE DEF u
    <3>9. Ready(u) /\ Lined(u) /\ OfItsRows(owner', c, u)
      BY <1>1, <3>1, <3>5, <3>8 DEF Ready, Lined, OfItsRows, Scanner, Active, Exists
    <3> QED
      BY <3>6, <3>7, <3>9 DEF t
  <2> QED
    BY <2>1, <2>2
<1>3. txn'[c] = u /\ (\A d \in Client \ {c} : txn'[d] = txn[d]) /\ UNCHANGED <<resv, task>>
  BY <1>1, <1>2 DEF data
<1>4. IInv'
  BY <1>1, <1>2, LocalStep
<1>5. RowsAgree'
  BY <1>1, <1>2, <1>3, Locally
<1> QED
  BY <1>4, <1>5

(* The scanner of an exception gives back what the quant still has reserved.*)
LEMMA RfExceptionGivesBack ==
  ASSUME IInv, RowsAgree, NEW c \in Client, RfReleaseQuant(c) PROVE IInv' /\ RowsAgree'
<1> DEFINE t == txn[c]
           u == [t EXCEPT !.pc = "resv"]
<1>1. t \in Txn /\ t.qty \in Nat /\ t.op = "rfException" /\ DOMAIN txn = Client
  BY TxnIsTyped, TxnFields DEF RfReleaseQuant, IInv, TypeOK
<1>2. /\ u \in Txn /\ u.op = t.op /\ u.pc = "resv" /\ u.resv = t.resv
      /\ u.qty = t.qty /\ u.plan = t.plan /\ u.target = t.target /\ u.task = t.task
  BY <1>1, TxnMoves
<1>3. txn' = [txn EXCEPT ![c] = u]
  BY <1>1 DEF RfReleaseQuant
<1>4. PICK q, n : /\ q = t.plan[1].quant /\ n = t.qty /\ n \in Nat
                  /\ Acquire(c, <<"quant", q>>) /\ reserved[q] + dRes[c][q] - n >= 0
                  /\ dRes' = [dRes EXCEPT ![c][q] = @ - n]
  BY <1>1 DEF RfReleaseQuant
<1> HIDE DEF u
<1>5. UNCHANGED <<data, ops>> /\ dQty' = dQty /\ Ready(u)
  BY <1>1, <1>2 DEF RfReleaseQuant, Ready
<1>6. q \in Quant => reserved[q] + dRes[c][q] >= n
  <2>1. q \in Quant => reserved[q] \in Int /\ dRes[c][q] \in Int
    BY DEF IInv, TypeOK
  <2> QED
    BY <1>4, <2>1
<1>7. IInv'
  BY <1>2, <1>3, <1>4, <1>5, <1>6, TakeOff
<1>8. RowsAgree'
  <2>1. UNCHANGED <<resv, task>>
    BY <1>5 DEF data
  <2> QED
    BY <1>1, <1>2, <1>3, <1>4, <2>1, ScannerGoesOn DEF Scanner
<1> QED
  BY <1>7, <1>8

(* Its commit writes the reservation, the task and the order.               *)
LEMMA RfExceptionCommits ==
  ASSUME IInv, RowsAgree, NEW c \in Client, CommitRfException(c) PROVE IInv' /\ RowsAgree'
<1> DEFINE t == txn[c]
<1>1. /\ t \in Txn /\ Commit(c, "rfException") /\ t.op = "rfException" /\ t.pc = "commit"
      /\ t.target \in TaskStatus
      /\ task' = [task EXCEPT ![t.task].status = t.target] /\ picked' = picked
  BY TxnIsTyped DEF CommitRfException, Commit, RowsAgree, OfItsRows
<1>2. /\ resv \in [Resv -> ResvRow] /\ task \in [Task -> TaskRow] /\ picked \in [Line -> Nat]
      /\ status \in [Order -> OrderStatus] /\ fulfil \in [Order -> OrderStatus \cup {"UNSET"}]
  BY DEF IInv, TypeOK
<1>3. resv' \in [Resv -> ResvRow] /\ RowsGoOn(c) /\ Numbered'
  <2>1. \/ resv' = resv
        \/ t.resv # 0 /\ resv' = UpdatedResv(t.resv, t.qty, t.plan[1].qty, "RELEASED")
    BY DEF CommitRfException
  <2> QED
    BY <1>1, <2>1, WritesItsReservation DEF Scanner
<1>4. task' \in [Task -> TaskRow] /\ TaskLines'
  <2>1. \A k \in Task : [task[k] EXCEPT !.status = t.target] \in TaskRow
    BY <1>1, <1>2 DEF TaskRow
  <2>2. \A k \in Task : task'[k].resv = task[k].resv /\ task'[k].line = task[k].line
    BY <1>1, <1>2 DEF TaskRow
  <2> QED
    BY <1>1, <1>2, <2>1, <2>2, StatusOnly
<1>5. status' \in [Order -> OrderStatus] /\ fulfil' \in [Order -> OrderStatus \cup {"UNSET"}]
  BY <1>2 DEF CommitRfException, OrderStatus
<1> QED
  BY <1>1, <1>2, <1>3, <1>4, <1>5, CommitStep, Committed

(* An exception of the scanner keeps stock covered and rows in agreement.   *)
LEMMA RfExceptionKeeps ==
  ASSUME IInv, RowsAgree, NEW c \in Client, RfException(c) PROVE IInv' /\ RowsAgree'
<1> DEFINE t == txn[c]
<1>1. t \in Txn /\ DOMAIN txn = Client
  BY TxnIsTyped DEF IInv, TypeOK
<1>2. CASE RfReleaseReservation(c)
  BY <1>2, UpdatesItsReservation DEF RfReleaseReservation, Scanner
<1>3. CASE RfMarkOrder(c)
  <2> DEFINE u == [t EXCEPT !.pc = "commit"]
  <2>1. /\ t.op = "rfException" /\ t.pc = "order" /\ (\E row : Acquire(c, row))
        /\ UNCHANGED <<data, dQty, dRes, ops>>
    BY <1>3 DEF RfMarkOrder, LockOrder
  <2>2. txn' = [txn EXCEPT ![c] = u]
    BY <1>1, <1>3 DEF RfMarkOrder
  <2>3. /\ u \in Txn /\ u.op = t.op /\ u.pc = "commit" /\ u.resv = t.resv
        /\ u.qty = t.qty /\ u.plan = t.plan /\ u.target = t.target /\ u.task = t.task
    BY <1>1, TxnMoves
  <2> HIDE DEF u
  <2> QED
    BY <2>1, <2>2, <2>3, ScannerStep DEF Scanner
<1> QED
  BY <1>2, <1>3, RfExceptionBegins, RfExceptionLooks, RfExceptionGivesBack, RfExceptionCommits
  DEF RfException

(* A task made by hand names no reservation.                                *)
LEMMA HandMadeTaskKeeps ==
  ASSUME IInv, RowsAgree, NEW l \in Line, CreateTask(l) PROVE IInv' /\ RowsAgree'
<1> USE OrderStockConstants
<1> DEFINE row == [status |-> "OPEN", resv |-> 0, line |-> l]
<1>1. /\ UNCHANGED <<quantity, reserved, resv, status, fulfil, picked, locals>>
      /\ ops' \in Nat /\ InsertTask(<<row>>) /\ task \in [Task -> TaskRow] /\ TypeOK
  BY DEF CreateTask, IInv, TypeOK
<1>2. row \in TaskRow /\ row.resv = 0
  BY DEF TaskRow, TaskStatus
<1> HIDE DEF row
<1>3. task' \in [Task -> TaskRow] /\ \A k \in Task : task'[k] = task[k] \/ task'[k] = row
  BY <1>1, <1>2 DEF InsertTask
<1>4. TypeOK'
  BY <1>1, <1>3 DEF TypeOK, locals
<1>5. IInv'
  BY <1>1, <1>4 DEF IInv, Covered, ReservedWithinOnHand, locals
<1>6. Numbered' /\ TaskLines'
  BY <1>1, <1>2, <1>3 DEF RowsAgree, Numbered, ResvCount, TaskLines
<1>7. \A d \in Client : Lined(txn[d])' /\ OfItsRows(owner, d, txn[d])'
  BY <1>1 DEF RowsAgree, Lined, OfItsRows, Exists, locals
<1> QED
  BY <1>5, <1>6, <1>7 DEF RowsAgree

(* An edit of an order sets its status alone.                               *)
LEMMA OrderEditKeeps ==
  ASSUME IInv, RowsAgree, NEW o \in Order, UpdateOutboundOrder(o) PROVE IInv' /\ RowsAgree'
<1> USE OrderStockConstants, FloorPickingConstants
<1>1. /\ UNCHANGED <<quantity, reserved, resv, task, picked, locals>> /\ ops' \in Nat /\ TypeOK
  BY DEF UpdateOutboundOrder, IInv, TypeOK
<1>2. status' \in [Order -> OrderStatus] /\ fulfil' \in [Order -> OrderStatus \cup {"UNSET"}]
  BY DEF UpdateOutboundOrder, IInv, TypeOK
<1>3. TypeOK'
  BY <1>1, <1>2 DEF TypeOK, locals
<1>4. IInv'
  BY <1>1, <1>3 DEF IInv, Covered, ReservedWithinOnHand, locals
<1>5. \A d \in Client : Lined(txn[d])' /\ OfItsRows(owner, d, txn[d])'
  BY <1>1 DEF RowsAgree, Lined, OfItsRows, Exists, locals
<1> QED
  BY <1>1, <1>4, <1>5 DEF RowsAgree, Numbered, ResvCount, TaskLines

(* The cover of the stock and the agreement of the rows, with the scanners, *)
(* the tasks made by hand and the edits beside the desk.                    *)
THEOREM FloorKeepsItsRows == FloorSpec => [](IInv /\ RowsAgree)
<1>1. Init => IInv /\ RowsAgree
  <2> SUFFICES ASSUME Init PROVE IInv /\ RowsAgree
    OBVIOUS
  <2>1. IInv
    BY StartsCovered
  <2>2. Numbered
    BY StartsNumbered
  <2>3. TaskLines
    BY DEF Init, TaskLines, NoTask
  <2>4. \A d \in Client : Lined(txn[d]) /\ OfItsRows(owner, d, txn[d])
    BY IdleOwnsNothing, Silent DEF Init, Scanner
  <2> QED
    BY <2>1, <2>2, <2>3, <2>4 DEF RowsAgree
<1>2. IInv /\ RowsAgree /\ [FloorNext]_vars => (IInv /\ RowsAgree)'
  <2> SUFFICES ASSUME IInv, RowsAgree, [FloorNext]_vars PROVE IInv' /\ RowsAgree'
    OBVIOUS
  <2>1. ASSUME NEW c \in Client, DeskStep(c) PROVE IInv' /\ RowsAgree'
    <3>1. IInv'
      BY <2>1, ReservingStep, AllocatingStep, ReleasingStep, PickingStep, StagingStep,
         TaskingStep, RollbackStep DEF DeskStep
    <3>2. RowsAgree'
      BY <2>1, ReservingAgree, AllocatingAgree, ReleasingAgree, PickingAgree, StagingAgree,
         TaskingAgree, RollbackAgree DEF DeskStep
    <3> QED
      BY <3>1, <3>2
  <2>2. CASE UNCHANGED vars
    <3>1. TypeOK'
      BY <2>2 DEF IInv, TypeOK, vars, data, locals
    <3>2. IInv'
      BY <2>2, <3>1 DEF IInv, Covered, ReservedWithinOnHand, vars, data, locals
    <3>3. RowsAgree'
      BY <2>2 DEF RowsAgree, Numbered, ResvCount, TaskLines, Lined, OfItsRows, Exists, vars, data, locals
    <3> QED
      BY <3>2, <3>3
  <2> QED
    BY <2>1, <2>2, RfPickingKeeps, RfExceptionKeeps, HandMadeTaskKeeps, OrderEditKeeps DEF FloorNext
<1> QED
  BY <1>1, <1>2, PTL DEF FloorSpec

(* No interleaving of the desk with the scanners, the tasks made by hand    *)
(* and the edits of orders reserves more of a quant than it holds: what a   *)
(* scanner takes off, it found there under the quant lock.                  *)
THEOREM FloorStaysCovered == FloorSpec => []ReservedWithinOnHand
<1>1. IInv => ReservedWithinOnHand
  BY DEF IInv
<1> QED
  BY <1>1, FloorKeepsItsRows, PTL
=============================================================================
