----------------------------- MODULE OrderStock -----------------------------
(***************************************************************************)
(* Orders, reservations, stock quants and pick tasks under the desk's       *)
(* transactions: ReservationsService (create, release, cancel),             *)
(* AllocationService.allocateOutboundOrder, FulfillmentService              *)
(* (releasePicking, confirmPick, pack, ship) and WarehouseTasksService.     *)
(*                                                                          *)
(* PostgreSQL runs them at READ COMMITTED: a statement reads what is        *)
(* committed at that moment, SELECT ... FOR UPDATE (lockPostgresRowById)    *)
(* keeps a row to one transaction, and writes show when it commits.  A      *)
(* transaction is a run of steps: it begins with what it reads unlocked,    *)
(* takes its row locks one at a time in the order of the code, reloads and  *)
(* checks under each lock, and commits.  Its quant updates, which are SQL   *)
(* increments, are kept in dQty and dRes until then.  A step that would     *)
(* throw is not enabled; Rollback may end a transaction at any point        *)
(* (conflict, freeze, lock timeout, deadlock victim, crash), and a retry is *)
(* a new transaction.                                                       *)
(***************************************************************************)
EXTENDS Integers, Sequences, FiniteSets, FiniteSetsExt

CONSTANTS
  Client,          \* concurrent API requests
  Nobody,          \* the owner of a row that is not locked
  NumOrders, NumLines, NumQuants,
  OrderOf,         \* the order of each outbound line; lines are in lineNumber order
  Ordered,         \* orderedQuantity of each line
  OnHand,          \* the quantity of each quant at the start
  Matches,         \* per line: the AVAILABLE quants of its SKU
  NumResv,         \* bound: reservations ever created
  NumTasks,        \* bound: pick tasks ever created
  MaxOps,          \* bound: transactions ever begun
  Loose,           \* are there reservations without an order, or without a line?
  LineOverride,    \* may confirmPick's dto name an order and line not the task's?
  Service          \* the operations the requests are for

Order == 1..NumOrders
Line  == 1..NumLines
Quant == 1..NumQuants
Resv  == 1..NumResv
Task  == 1..NumTasks
Row   == ({"order"} \X Order) \cup ({"resv"} \X Resv) \cup ({"quant"} \X Quant)
         \cup ({"task"} \X Task) \cup ({"line"} \X Line)

ASSUME OrderStockConstants ==
  /\ Nobody \notin Client
  /\ NumOrders \in Nat /\ NumLines \in Nat /\ NumQuants \in Nat
  /\ NumResv \in Nat /\ NumTasks \in Nat /\ MaxOps \in Nat
  /\ OrderOf \in [Line -> Order]
  /\ Ordered \in [Line -> Nat]
  /\ OnHand \in [Quant -> Nat]
  /\ Matches \in [Line -> SUBSET Quant]
  /\ Loose \in BOOLEAN /\ LineOverride \in BOOLEAN

OrderStatus == {"DRAFT", "CREATED", "ALLOCATED", "PICKING", "PICKED", "PACKING", "PACKED",
                "SHIPPED", "CANCELLED", "EXCEPTION"}
ResvStatus  == {"NONE", "ACTIVE", "PICKED", "RELEASED", "CANCELLED"}
TaskStatus  == {"NONE", "OPEN", "ASSIGNED", "IN_PROGRESS", "BLOCKED", "DONE", "FAILED",
                "CANCELLED"}

VARIABLES
  quantity,   \* stock_quants.quantity
  reserved,   \* stock_quants.reserved_quantity
  resv,       \* reservations, in creation order
  task,       \* warehouse_tasks of type PICK, in creation order
  status,     \* outbound_orders.status
  fulfil,     \* its metadata.fulfillmentStatus, or "UNSET"
  picked,     \* outbound_order_lines.picked_quantity
  owner,      \* the transaction that has locked the row
  txn,        \* what each transaction is about and has read
  dQty, dRes, \* its uncommitted changes of each quant
  ops         \* transactions begun

data == <<quantity, reserved, resv, task, status, fulfil, picked>>
locals == <<owner, txn, dQty, dRes>>
vars == <<data, locals, ops>>

ResvRow == [status : ResvStatus, order : Order \cup {0}, line : Line \cup {0},
            quant : Quant \cup {0}, qty : Nat]
TaskRow == [status : TaskStatus, resv : Resv \cup {0}, line : Line \cup {0}]
NoResv  == [status |-> "NONE", order |-> 0, line |-> 0, quant |-> 0, qty |-> 0]
NoTask  == [status |-> "NONE", resv |-> 0, line |-> 0]

Part == [line : Line \cup {0}, quant : Quant \cup {0}, qty : Nat]   \* of a reservation plan
Txn  == [op : Service \cup {"none"}, pc : {"idle", "task", "order", "resv", "plan", "quant", "commit"},
         order : Order \cup {0}, line : Nat, resv : Resv \cup {0},
         task : Task \cup {0}, qty : Nat, target : TaskStatus \cup ResvStatus \cup {""},
         plan : Seq(Part), made : Seq(Part), tasks : Seq(Resv),
         saw : [Line -> Nat]]
Idle == [op |-> "none", pc |-> "idle", order |-> 0, line |-> 0, resv |-> 0,
         task |-> 0, qty |-> 0, target |-> "",
         plan |-> <<>>, made |-> <<>>, tasks |-> <<>>, saw |-> [l \in Line |-> 0]]
NoChange == [q \in Quant |-> 0]

TypeOK ==
  /\ quantity \in [Quant -> Nat]
  /\ reserved \in [Quant -> Nat]
  /\ resv \in [Resv -> ResvRow]
  /\ task \in [Task -> TaskRow]
  /\ status \in [Order -> OrderStatus]
  /\ fulfil \in [Order -> OrderStatus \cup {"UNSET"}]
  /\ picked \in [Line -> Nat]
  /\ owner \in [Row -> Client \cup {Nobody}]
  /\ txn \in [Client -> Txn]
  /\ dQty \in [Client -> [Quant -> Int]]
  /\ dRes \in [Client -> [Quant -> Int]]
  /\ ops \in Nat

Init ==
  /\ quantity = OnHand
  /\ reserved = NoChange
  /\ resv = [r \in Resv |-> NoResv]
  /\ task = [t \in Task |-> NoTask]
  /\ status = [o \in Order |-> "CREATED"]
  /\ fulfil = [o \in Order |-> "UNSET"]
  /\ picked = [l \in Line |-> 0]
  /\ owner = [x \in Row |-> Nobody]
  /\ txn = [c \in Client |-> Idle]
  /\ dQty = [c \in Client |-> NoChange]
  /\ dRes = [c \in Client |-> NoChange]
  /\ ops = 0

-----------------------------------------------------------------------------
LinesOf(o)    == {l \in Line : OrderOf[l] = o}
Active(r)     == resv[r].status = "ACTIVE"
ActiveOf(l)   == {r \in Resv : Active(r) /\ resv[r].line = l}
Total(R)      == MapThenSumSet(LAMBDA r : resv[r].qty, R)
OpenPick      == {"OPEN", "ASSIGNED", "IN_PROGRESS", "BLOCKED"}
ResvCount     == Cardinality({r \in Resv : resv[r].status # "NONE"})
TaskCount     == Cardinality({t \in Task : task[t].status # "NONE"})

(* What transaction c sees as available: it sees its own updates.           *)
Available(c, q) == quantity[q] + dQty[c][q] - reserved[q] - dRes[c][q]

(* getEffectiveFulfillmentStatus: the metadata wins over the column.        *)
Effective(o) == IF fulfil[o] = "UNSET" THEN status[o] ELSE fulfil[o]

Begin(c, request) ==
  /\ txn[c] = Idle
  /\ request.op \in Service
  /\ ops < MaxOps
  /\ ops' = ops + 1
  /\ txn' = [txn EXCEPT ![c] = request]
  /\ UNCHANGED <<data, owner, dQty, dRes>>

(* Variant: lockPostgresRowById does not lock.                              *)
AcquireNothing(c, row) == owner' = owner

Acquire(c, row) ==
  /\ owner[row] \in {Nobody, c}
  /\ owner' = [owner EXCEPT ![row] = c]

(* Variant: a quant stays locked after the transaction that locked it.      *)
UnlockedButQuants(c) ==
  [row \in Row |-> IF owner[row] = c /\ row[1] # "quant" THEN Nobody ELSE owner[row]]

Unlocked(c) == [row \in Row |-> IF owner[row] = c THEN Nobody ELSE owner[row]]

LockOrder(c, op) ==
  /\ txn[c].op = op
  /\ txn[c].pc = "order"
  /\ Acquire(c, <<"order", txn[c].order>>)
  /\ UNCHANGED <<data, dQty, dRes, ops>>

(* The rows a transaction updates at its end without having locked them: it *)
(* waits for those that another transaction has locked.                     *)
RowsToWrite(c) ==
  LET t == txn[c] IN
  CASE t.op = "release" ->
         {<<"task", k>> : k \in {x \in Task : task[x].resv = t.resv /\ task[x].status = "OPEN"}}
    [] t.op = "confirmPick" -> {<<"line", t.line>>, <<"task", t.task>>}
    [] t.task # 0           -> {<<"task", t.task>>}
    [] OTHER                -> {}

(* The quant updates of c become visible and its locks are released.        *)
Commit(c, op) ==
  /\ txn[c].op = op
  /\ txn[c].pc = "commit"
  /\ \A row \in RowsToWrite(c) : owner[row] \in {Nobody, c}
  /\ quantity' = [q \in Quant |-> quantity[q] + dQty[c][q]]
  /\ reserved' = [q \in Quant |-> reserved[q] + dRes[c][q]]
  /\ dQty' = [dQty EXCEPT ![c] = NoChange]
  /\ dRes' = [dRes EXCEPT ![c] = NoChange]
  /\ owner' = Unlocked(c)
  /\ txn' = [txn EXCEPT ![c] = Idle]
  /\ UNCHANGED ops

Rollback(c) ==
  /\ txn[c] # Idle
  /\ dQty' = [dQty EXCEPT ![c] = NoChange]
  /\ dRes' = [dRes EXCEPT ![c] = NoChange]
  /\ owner' = Unlocked(c)
  /\ txn' = [txn EXCEPT ![c] = Idle]
  /\ UNCHANGED <<data, ops>>

(* The rows a transaction inserts take the next numbers.                    *)
InsertResv(s) ==
  /\ ResvCount + Len(s) <= NumResv
  /\ resv' = [r \in Resv |-> IF r - ResvCount \in 1..Len(s)
                             THEN s[r - ResvCount] ELSE resv[r]]
InsertTask(s) ==
  /\ TaskCount + Len(s) <= NumTasks
  /\ task' = [t \in Task |-> IF t - TaskCount \in 1..Len(s)
                             THEN s[t - TaskCount] ELSE task[t]]

-----------------------------------------------------------------------------
(* ReservationsService.create: order lock (if there is an order), quant     *)
(* lock, reservation, and a pick task if there is a line.                   *)
ReserveContext ==
  {[order |-> OrderOf[l], line |-> l] : l \in Line} \cup
  (IF Loose THEN {[order |-> o, line |-> 0] : o \in Order \cup {0}} ELSE {})

BeginReserve(c) ==
  \E x \in ReserveContext, q \in Quant : \E n \in 1..OnHand[q] :
    Begin(c, [Idle EXCEPT !.op = "reserve", !.order = x.order, !.line = x.line,
                !.pc = IF x.order = 0 THEN "quant" ELSE "order",
                !.plan = <<[line |-> x.line, quant |-> q, qty |-> n]>>])

Closed == {"CANCELLED", "SHIPPED"}

LockOrderToReserve(c) ==
  LET t == txn[c] IN
  /\ LockOrder(c, "reserve")
  /\ status[t.order] \notin Closed
  /\ txn' = [txn EXCEPT ![c].pc = IF t.line = 0 THEN "quant" ELSE "plan", ![c].saw = picked]

CheckRemaining(c, remaining) ==
  LET t == txn[c] IN
  /\ t.op = "reserve" /\ t.pc = "plan"
  /\ t.plan[1].qty <= remaining
  /\ txn' = [txn EXCEPT ![c].pc = "quant"]
  /\ UNCHANGED <<data, owner, dQty, dRes, ops>>

(* Variant: the reservations the line already has are not counted.          *)
CheckRemainingUncounted(c) ==
  LET l == txn[c].line IN
  l # 0 /\ CheckRemaining(c, Ordered[l] - txn[c].saw[l])

(* The line and its active reservations are read by two statements.         *)
CheckRemainingQuantity(c) ==
  LET l == txn[c].line IN
  l # 0 /\ CheckRemaining(c, Ordered[l] - txn[c].saw[l] - Total(ActiveOf(l)))

(* Variant: the availability is not checked again under the quant lock.     *)
ReserveStockQuantUnchecked(c) ==
  LET t == txn[c]
      p == Head(t.plan)
  IN
  /\ t.op \in {"reserve", "allocate"}
  /\ t.pc = "quant"
  /\ Acquire(c, <<"quant", p.quant>>)
  /\ dRes' = [dRes EXCEPT ![c][p.quant] = @ + p.qty]
  /\ txn' = [txn EXCEPT ![c].plan = Tail(@), ![c].made = Append(@, p),
               ![c].pc = IF Len(t.plan) > 1 THEN "quant"
                         ELSE IF t.op = "allocate" THEN "plan" ELSE "commit"]
  /\ UNCHANGED <<data, dQty, ops>>

(* reserveStockQuant, of both services: lock, reload, check, increment.     *)
ReserveStockQuant(c) ==
  LET t == txn[c]
      p == Head(t.plan)
  IN
  /\ t.op \in {"reserve", "allocate"}
  /\ t.pc = "quant"
  /\ Acquire(c, <<"quant", p.quant>>)
  /\ p.qty <= Available(c, p.quant)
  /\ dRes' = [dRes EXCEPT ![c][p.quant] = @ + p.qty]
  /\ txn' = [txn EXCEPT ![c].plan = Tail(@), ![c].made = Append(@, p),
               ![c].pc = IF Len(t.plan) > 1 THEN "quant"
                         ELSE IF t.op = "allocate" THEN "plan" ELSE "commit"]
  /\ UNCHANGED <<data, dQty, ops>>

NewReservations(c) ==
  [i \in 1..Len(txn[c].made) |->
     [status |-> "ACTIVE", order |-> txn[c].order, line |-> txn[c].made[i].line,
      quant |-> txn[c].made[i].quant, qty |-> txn[c].made[i].qty]]
NewTasks(c) ==
  IF txn[c].line = 0 THEN <<>>
  ELSE [i \in 1..Len(txn[c].made) |->
          [status |-> "OPEN", resv |-> ResvCount + i, line |-> txn[c].made[i].line]]

CommitReserve(c) ==
  /\ Commit(c, "reserve")
  /\ InsertResv(NewReservations(c))
  /\ InsertTask(NewTasks(c))
  /\ UNCHANGED <<status, fulfil, picked>>

-----------------------------------------------------------------------------
(* AllocationService.allocateOutboundOrder: order lock; then, line by line, *)
(* the candidate quants read unlocked and each one locked and re-checked;   *)
(* at the end the status column is set whatever it was.                     *)
BeginAllocate(c) ==
  \E o \in Order :
    Begin(c, [Idle EXCEPT !.op = "allocate", !.pc = "order", !.order = o])

LockOrderToAllocate(c) ==
  LET o == txn[c].order IN
  /\ LockOrder(c, "allocate")
  /\ status[o] \notin Closed
  /\ LinesOf(o) # {}
  /\ txn' = [txn EXCEPT ![c].pc = "plan", ![c].line = 1, ![c].saw = picked]

(* The greedy loop over the candidates, in whatever order the strategy of   *)
(* the request sorts them: all of each quant but the last.                  *)
Plans(c, l, need) ==
  LET candidates == {q \in Matches[l] : Available(c, q) > 0} IN
  {p \in UNION {[1..k -> [line : {l}, quant : candidates, qty : 1..need]] :
                  k \in 1..Cardinality(candidates)} :
     /\ \A i \in DOMAIN p :
          /\ p[i].qty <= Available(c, p[i].quant)
          /\ i < Len(p) => p[i].qty = Available(c, p[i].quant)
          /\ \A j \in DOMAIN p : p[i].quant = p[j].quant => i = j
     /\ MapThenSumSet(LAMBDA i : p[i].qty, DOMAIN p) = need}

FindAvailableStockQuants(c) ==
  LET t == txn[c]
      l == t.line
      need == Ordered[l] - t.saw[l] - Total(ActiveOf(l))
  IN
  /\ t.op = "allocate" /\ t.pc = "plan"
  /\ l \in LinesOf(t.order)
  /\ need > 0
  /\ t.plan = <<>>
  /\ \E p \in Plans(c, l, need) :
       txn' = [txn EXCEPT ![c].plan = p, ![c].pc = "quant", ![c].line = l + 1]
  /\ UNCHANGED <<data, owner, dQty, dRes, ops>>

(* A line that needs nothing, or belongs to another order, is passed over;  *)
(* after the last line the transaction can commit.                          *)
NextLine(c) ==
  LET t == txn[c]
      l == t.line
  IN
  /\ t.op = "allocate" /\ t.pc = "plan"
  /\ \/ /\ l \in Line
        /\ l \in LinesOf(t.order) => Ordered[l] - t.saw[l] - Total(ActiveOf(l)) <= 0
        /\ txn' = [txn EXCEPT ![c].line = l + 1]
     \/ /\ l > NumLines
        /\ txn' = [txn EXCEPT ![c].pc = "commit"]
  /\ UNCHANGED <<data, owner, dQty, dRes, ops>>

CommitAllocate(c) ==
  /\ Commit(c, "allocate")
  /\ InsertResv(NewReservations(c))
  /\ InsertTask(NewTasks(c))
  /\ status' = [status EXCEPT ![txn[c].order] = "ALLOCATED"]
  /\ UNCHANGED <<fulfil, picked>>

-----------------------------------------------------------------------------
(* ReservationsService.release and cancel: order lock, reservation lock,    *)
(* quant lock; open tasks of the reservation are cancelled, others are not. *)
BeginRelease(c) ==
  \E r \in {x \in Resv : resv[x].status # "NONE"}, target \in {"RELEASED", "CANCELLED"} :
    Begin(c, [Idle EXCEPT !.op = "release", !.resv = r, !.order = resv[r].order,
                !.pc = IF resv[r].order = 0 THEN "resv" ELSE "order",
                !.target = target])

LockOrderToRelease(c) ==
  /\ LockOrder(c, "release")
  /\ txn' = [txn EXCEPT ![c].pc = "resv"]

LockResv(c, op) ==
  /\ txn[c].op = op
  /\ txn[c].pc = "resv"
  /\ Acquire(c, <<"resv", txn[c].resv>>)
  /\ UNCHANGED <<data, dQty, dRes, ops>>

(* Variant: the status is not read again under the reservation lock.        *)
LockResvToReleaseUnchecked(c) ==
  LET r == resv[txn[c].resv] IN
  /\ LockResv(c, "release")
  /\ txn' = [txn EXCEPT ![c].pc = "quant", ![c].qty = r.qty,
               ![c].plan = <<[line |-> r.line, quant |-> r.quant, qty |-> r.qty]>>]

LockResvToRelease(c) ==
  LET r == resv[txn[c].resv] IN
  /\ LockResv(c, "release")
  /\ r.status = "ACTIVE"
  /\ txn' = [txn EXCEPT ![c].pc = "quant", ![c].qty = r.qty,
               ![c].plan = <<[line |-> r.line, quant |-> r.quant, qty |-> r.qty]>>]

ReleaseReservedStockQuant(c) ==
  LET t == txn[c]
      q == t.plan[1].quant
  IN
  /\ t.op = "release" /\ t.pc = "quant"
  /\ Acquire(c, <<"quant", q>>)
  /\ reserved[q] + dRes[c][q] >= t.qty
  /\ \A k \in Task : task[k].resv = t.resv => task[k].status # "IN_PROGRESS"
  /\ dRes' = [dRes EXCEPT ![c][q] = @ - t.qty]
  /\ txn' = [txn EXCEPT ![c].pc = "commit"]
  /\ UNCHANGED <<data, dQty, ops>>

CommitRelease(c) ==
  LET r == txn[c].resv IN
  /\ Commit(c, "release")
  /\ resv' = [resv EXCEPT ![r].status = txn[c].target]
  /\ task' = [k \in Task |-> IF task[k].resv = r /\ task[k].status = "OPEN"
                             THEN [task[k] EXCEPT !.status = "CANCELLED"] ELSE task[k]]
  /\ UNCHANGED <<status, fulfil, picked>>

-----------------------------------------------------------------------------
(* FulfillmentService.releasePicking: unless the order has open pick tasks, *)
(* one task for each active reservation of each line not fully picked.      *)
BeginOnOrder(c, op) ==
  \E o \in Order : Begin(c, [Idle EXCEPT !.op = op, !.pc = "order", !.order = o])

PickableResv(o) ==
  {r \in Resv : Active(r) /\ resv[r].line \in {l \in LinesOf(o) : picked[l] < Ordered[l]}}
HasOpenPick(o) ==
  \E k \in Task : /\ task[k].status \in OpenPick
                  /\ task[k].resv # 0
                  /\ resv[task[k].resv].order = o

LockOrderToReleasePicking(c) ==
  LET o == txn[c].order
      R == IF HasOpenPick(o) THEN {} ELSE PickableResv(o)
  IN
  /\ LockOrder(c, "releasePicking")
  /\ Effective(o) = "ALLOCATED"
  /\ ~HasOpenPick(o) => \A l \in LinesOf(o) : picked[l] < Ordered[l] => ActiveOf(l) # {}
  /\ \E s \in [1..Cardinality(R) -> R] :
       /\ \A i, j \in DOMAIN s : s[i] = s[j] => i = j
       /\ txn' = [txn EXCEPT ![c].pc = "commit", ![c].tasks = s]

(* updateOrderStatus sets the column and the metadata.                      *)
UpdateOrderStatus(o, s) ==
  /\ status' = [status EXCEPT ![o] = s]
  /\ fulfil' = [fulfil EXCEPT ![o] = s]

CommitReleasePicking(c) ==
  LET s == txn[c].tasks IN
  /\ Commit(c, "releasePicking")
  /\ InsertTask([i \in 1..Len(s) |->
                   [status |-> "OPEN", resv |-> s[i], line |-> resv[s[i]].line]])
  /\ UpdateOrderStatus(txn[c].order, "PICKING")
  /\ UNCHANGED <<resv, picked>>

LockOrderToPack(c) ==
  /\ LockOrder(c, "pack")
  /\ Effective(txn[c].order) = "PICKED"
  /\ txn' = [txn EXCEPT ![c].pc = "commit"]

CommitPack(c) ==
  /\ Commit(c, "pack")
  /\ UpdateOrderStatus(txn[c].order, "PACKED")
  /\ UNCHANGED <<resv, task, picked>>

(* Variant: an order can be shipped as soon as its picking is released.     *)
LockOrderToShipEarly(c) ==
  /\ LockOrder(c, "ship")
  /\ Effective(txn[c].order) \in {"PICKING", "PICKED", "PACKED"}
  /\ txn' = [txn EXCEPT ![c].pc = "commit"]

LockOrderToShip(c) ==
  /\ LockOrder(c, "ship")
  /\ Effective(txn[c].order) = "PACKED"
  /\ txn' = [txn EXCEPT ![c].pc = "commit"]

CommitShip(c) ==
  /\ Commit(c, "ship")
  /\ UpdateOrderStatus(txn[c].order, "SHIPPED")
  /\ UNCHANGED <<resv, task, picked>>

-----------------------------------------------------------------------------
(* FulfillmentService.confirmPick: task read unlocked, order lock, task and *)
(* order read again, reservation lock, quant lock.                          *)
Confirmable(k) == task[k].status \notin {"NONE", "DONE", "CANCELLED"}

BeginConfirmPick(c) ==
  \E k \in {x \in Task : Confirmable(x)} :
  \E l \in (IF LineOverride THEN Line ELSE {task[k].line}) \ {0} : \E n \in 1..Ordered[l] :
    Begin(c, [Idle EXCEPT !.op = "confirmPick", !.pc = "order", !.order = OrderOf[l],
                !.line = l, !.task = k, !.qty = n])

(* resolvePickReservation and resolvePickStockQuant: the reservation of the *)
(* task, else one of the line, else none and any quant of the SKU.          *)
PickSources(l, k) ==
  LET R == IF task[k].resv # 0 THEN {task[k].resv} ELSE ActiveOf(l) IN
  IF R # {} THEN {[resv |-> r, quant |-> resv[r].quant] : r \in R}
            ELSE {[resv |-> 0, quant |-> q] : q \in Matches[l]}

LockOrderToPick(c) ==
  LET t == txn[c] IN
  /\ LockOrder(c, "confirmPick")
  /\ Confirmable(t.task)
  /\ Effective(t.order) = "PICKING"
  /\ t.qty <= Ordered[t.line] - picked[t.line]
  /\ \E s \in PickSources(t.line, t.task) :
       txn' = [txn EXCEPT ![c].pc = IF s.resv = 0 THEN "quant" ELSE "resv",
                 ![c].saw = picked, ![c].resv = s.resv,
                 ![c].plan = <<[line |-> t.line, quant |-> s.quant, qty |-> t.qty]>>]

(* Variant: the status is not read again under the reservation lock.        *)
LockResvToPickUnchecked(c) ==
  /\ LockResv(c, "confirmPick")
  /\ resv[txn[c].resv].qty >= txn[c].qty
  /\ txn' = [txn EXCEPT ![c].pc = "quant"]

LockResvToPick(c) ==
  /\ LockResv(c, "confirmPick")
  /\ Active(txn[c].resv)
  /\ resv[txn[c].resv].qty >= txn[c].qty
  /\ txn' = [txn EXCEPT ![c].pc = "quant"]

ApplyPickToQuant(c) ==
  LET t == txn[c]
      q == t.plan[1].quant
  IN
  /\ t.op = "confirmPick" /\ t.pc = "quant"
  /\ Acquire(c, <<"quant", q>>)
  /\ quantity[q] + dQty[c][q] >= t.qty
  /\ reserved[q] + dRes[c][q] >= t.qty
  /\ dQty' = [dQty EXCEPT ![c][q] = @ - t.qty]
  /\ dRes' = [dRes EXCEPT ![c][q] = @ - t.qty]
  /\ txn' = [txn EXCEPT ![c].pc = "commit"]
  /\ UNCHANGED <<data, ops>>

(* A pick of the whole reservation ends it, a smaller one leaves the rest.  *)
PickedResv(r, n) ==
  IF r = 0 THEN resv
  ELSE IF resv[r].qty <= n THEN [resv EXCEPT ![r].status = "PICKED"]
  ELSE [resv EXCEPT ![r].qty = @ - n]

FullyPicked(o, p) == \A l \in LinesOf(o) : p[l] >= Ordered[l]

(* Variant: the order is looked at for the line alone.                      *)
CommitConfirmPickOfLine(c) ==
  LET t == txn[c]
      p == [picked EXCEPT ![t.line] = t.saw[t.line] + t.qty]
  IN
  /\ Commit(c, "confirmPick")
  /\ resv' = PickedResv(t.resv, t.qty)
  /\ picked' = p
  /\ task' = [task EXCEPT ![t.task].status = "DONE"]
  /\ IF p[t.line] >= Ordered[t.line] THEN UpdateOrderStatus(t.order, "PICKED")
                                     ELSE UNCHANGED <<status, fulfil>>

CommitConfirmPick(c) ==
  LET t == txn[c]
      p == [picked EXCEPT ![t.line] = t.saw[t.line] + t.qty]
  IN
  /\ Commit(c, "confirmPick")
  /\ resv' = PickedResv(t.resv, t.qty)
  /\ picked' = p
  /\ task' = [task EXCEPT ![t.task].status = "DONE"]
  /\ IF FullyPicked(t.order, p) THEN UpdateOrderStatus(t.order, "PICKED")
                                ELSE UNCHANGED <<status, fulfil>>

-----------------------------------------------------------------------------
(* WarehouseTasksService: assign, start, confirm, fail and cancel read the  *)
(* task, check the transition and update by id, without a lock between;     *)
(* claimNext, and startTask of the scanner, lock the task and read it again.*)
AllowedTransitions(s) ==
  CASE s = "OPEN"        -> {"ASSIGNED", "IN_PROGRESS", "BLOCKED", "CANCELLED"}
    [] s = "ASSIGNED"    -> {"IN_PROGRESS", "BLOCKED", "CANCELLED"}
    [] s = "IN_PROGRESS" -> {"DONE", "BLOCKED", "FAILED", "CANCELLED"}
    [] s = "BLOCKED"     -> {"ASSIGNED", "IN_PROGRESS", "FAILED", "CANCELLED"}
    [] s = "FAILED"      -> {"OPEN", "CANCELLED"}
    [] OTHER             -> {}

TaskRequest == {"ASSIGNED", "IN_PROGRESS", "DONE", "FAILED", "CANCELLED"}

ReadTask(c) ==
  \E k \in Task : \E s \in TaskRequest \cap AllowedTransitions(task[k].status) :
    Begin(c, [Idle EXCEPT !.op = "task", !.pc = "commit", !.task = k, !.target = s])

ClaimTask(c) ==
  \E k \in Task, s \in {"ASSIGNED", "IN_PROGRESS"} :
    /\ task[k].status # "NONE"
    /\ s = "ASSIGNED" => task[k].status = "OPEN"
    /\ Begin(c, [Idle EXCEPT !.op = "task", !.pc = "task", !.task = k, !.target = s])

LockTask(c) ==
  LET t == txn[c] IN
  /\ t.op = "task" /\ t.pc = "task"
  /\ Acquire(c, <<"task", t.task>>)
  /\ t.target \in AllowedTransitions(task[t.task].status)
  /\ txn' = [txn EXCEPT ![c].pc = "commit"]
  /\ UNCHANGED <<data, dQty, dRes, ops>>

WriteTask(c) ==
  /\ Commit(c, "task")
  /\ task' = [task EXCEPT ![txn[c].task].status = txn[c].target]
  /\ UNCHANGED <<resv, status, fulfil, picked>>

-----------------------------------------------------------------------------
Reserving(c)  == \/ BeginReserve(c) \/ LockOrderToReserve(c)
                 \/ CheckRemainingQuantity(c) \/ ReserveStockQuant(c) \/ CommitReserve(c)
Allocating(c) == \/ BeginAllocate(c) \/ LockOrderToAllocate(c)
                 \/ FindAvailableStockQuants(c) \/ NextLine(c) \/ CommitAllocate(c)
Releasing(c)  == \/ BeginRelease(c) \/ LockOrderToRelease(c) \/ LockResvToRelease(c)
                 \/ ReleaseReservedStockQuant(c) \/ CommitRelease(c)
Picking(c)    == \/ BeginConfirmPick(c) \/ LockOrderToPick(c) \/ LockResvToPick(c)
                 \/ ApplyPickToQuant(c) \/ CommitConfirmPick(c)
Staging(c)    == \/ \E op \in {"releasePicking", "pack", "ship"} : BeginOnOrder(c, op)
                 \/ LockOrderToReleasePicking(c) \/ CommitReleasePicking(c)
                 \/ LockOrderToPack(c) \/ CommitPack(c)
                 \/ LockOrderToShip(c) \/ CommitShip(c)
Tasking(c)    == ReadTask(c) \/ ClaimTask(c) \/ LockTask(c) \/ WriteTask(c)

DeskStep(c) == \/ Reserving(c) \/ Allocating(c) \/ Releasing(c) \/ Picking(c)
               \/ Staging(c) \/ Tasking(c) \/ Rollback(c)

Next == \E c \in Client : DeskStep(c)

Spec == Init /\ [][Next]_vars

-----------------------------------------------------------------------------
(* The stock promised never exceeds the stock on hand (RESERVED_EXCEEDS_    *)
(* ON_HAND of the integrity checks), whatever transactions overlap.         *)
ReservedWithinOnHand == \A q \in Quant : reserved[q] <= quantity[q]

(* reserved_quantity is the sum of the active reservations of the quant     *)
(* (RESERVED_QUANTITY_MISMATCH of the integrity checks).                    *)
ReservedIsActive ==
  \A q \in Quant : reserved[q] = Total({r \in Resv : Active(r) /\ resv[r].quant = q})

(* What a line has got and is promised never exceeds what was ordered.      *)
LineNotOverpromised ==
  \A l \in Line : picked[l] + Total(ActiveOf(l)) <= Ordered[l]

(* Every piece taken off the shelves is credited to a line, and every piece *)
(* credited was taken: no pick overwrites the pickedQuantity of another.    *)
Taken == MapThenSumSet(LAMBDA q : OnHand[q] - quantity[q], Quant)
TakenIsPicked == Taken = MapThenSumSet(LAMBDA l : picked[l], Line)

(* An order counts as PICKED, PACKED or SHIPPED only with every line picked.*)
PickedMeansPicked ==
  \A o \in Order : Effective(o) \in {"PICKED", "PACKED", "SHIPPED"}
                   => FullyPicked(o, picked)

(* A reservation that left ACTIVE never changes again: a second release or  *)
(* a late pick must see the committed status (the comment in release).      *)
ReservationFinal ==
  [][\A r \in Resv : resv[r].status \in {"PICKED", "RELEASED", "CANCELLED"}
                     => resv'[r] = resv[r]]_vars

(* Refinement: the interleaved transactions amount to a ledger whose every  *)
(* request happens at once.                                                 *)
Ledger == INSTANCE ReservationLedger
            WITH stage <- [o \in Order |-> Effective(o)]
LedgerSpec == Ledger!Spec
=============================================================================
