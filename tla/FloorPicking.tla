---------------------------- MODULE FloorPicking ----------------------------
(***************************************************************************)
(* The writers of the same rows that do not follow the desk's lock order:   *)
(* the RF scanner's pick and exception (RfWorkflowsService), pick tasks     *)
(* created by hand (WarehouseTasksService.create) and the free edit of an   *)
(* order (OutboundService.update, here without lines).  They run beside the *)
(* transactions of OrderStock.                                              *)
(*                                                                          *)
(* A pick locks only the quant, an exception the task and the quant.  The   *)
(* rows they update without having locked them (reservation, line, order)   *)
(* are locked by the UPDATE itself, so they take them in the reverse of the *)
(* desk's order, and they act on the reservation as they read it before the *)
(* quant lock: plan[1].qty keeps that quantity.                             *)
(***************************************************************************)
EXTENDS OrderStock

CONSTANTS
  EditTo,        \* the statuses an edit of an order may set
  HandMade       \* are pick tasks created by hand?

ASSUME FloorPickingConstants == EditTo \subseteq OrderStatus /\ HandMade \in BOOLEAN

OrderOfTask(k) == resv[task[k].resv].order

(* RfWorkflowsService.scan, last step of a PICK task: neither the status of *)
(* the task nor that of the order is looked at.                             *)
BeginRfPick(c) ==
  \E k \in {x \in Task : task[x].resv # 0 /\ Active(task[x].resv)} :
  LET r == task[k].resv IN
  \E n \in 1..Ordered[task[k].line] :
    Begin(c, [Idle EXCEPT !.op = "rfPick", !.pc = "quant", !.order = OrderOfTask(k),
                !.line = task[k].line, !.resv = r, !.task = k, !.qty = n,
                !.plan = <<[line |-> task[k].line, quant |-> resv[r].quant,
                            qty |-> resv[r].qty]>>])

(* Variant: the quant is not checked under its lock.                        *)
RfLockQuantUnchecked(c) ==
  LET t == txn[c]
      q == t.plan[1].quant
  IN
  /\ t.op = "rfPick" /\ t.pc = "quant"
  /\ Acquire(c, <<"quant", q>>)
  /\ t.qty <= t.plan[1].qty
  /\ picked[t.line] + t.qty <= Ordered[t.line]
  /\ dQty' = [dQty EXCEPT ![c][q] = @ - t.qty]
  /\ txn' = [txn EXCEPT ![c].pc = "resv"]
  /\ UNCHANGED <<data, dRes, ops>>

RfLockQuant(c) ==
  LET t == txn[c]
      q == t.plan[1].quant
  IN
  /\ t.op = "rfPick" /\ t.pc = "quant"
  /\ Acquire(c, <<"quant", q>>)
  /\ quantity[q] + dQty[c][q] >= t.qty
  /\ reserved[q] + dRes[c][q] >= t.qty
  /\ t.qty <= t.plan[1].qty
  /\ picked[t.line] + t.qty <= Ordered[t.line]
  /\ dQty' = [dQty EXCEPT ![c][q] = @ - t.qty]
  /\ dRes' = [dRes EXCEPT ![c][q] = @ - t.qty]
  /\ txn' = [txn EXCEPT ![c].pc = "resv"]
  /\ UNCHANGED <<data, ops>>

(* The UPDATE of the reservation: done or reduced, by the quantity read     *)
(* before the lock.  The CHECK of the table refuses to reduce it to zero.   *)
UpdatedResv(r, n, read, end) ==
  IF n >= read THEN [resv EXCEPT ![r].status = end] ELSE [resv EXCEPT ![r].qty = @ - n]

UpdateReservation(c, op, next) ==
  LET t == txn[c] IN
  /\ t.op = op /\ t.pc = "resv"
  /\ Acquire(c, <<"resv", t.resv>>)
  /\ t.qty < t.plan[1].qty => t.qty < resv[t.resv].qty
  /\ txn' = [txn EXCEPT ![c].pc = next]
  /\ UNCHANGED <<data, dQty, dRes, ops>>

RfUpdateReservation(c) == UpdateReservation(c, "rfPick", "plan")

(* The line is incremented (which locks it) and then read again with the    *)
(* others: the sum for the picked line counts the pick twice.               *)
RfFullyPicked(c) ==
  LET t == txn[c]
      own == [picked EXCEPT ![t.line] = @ + t.qty]
  IN \A l \in LinesOf(t.order) :
       IF l = t.line THEN own[l] + t.qty >= Ordered[l] ELSE own[l] >= Ordered[l]

RfReadLines(c) ==
  /\ txn[c].op = "rfPick" /\ txn[c].pc = "plan"
  /\ Acquire(c, <<"line", txn[c].line>>)
  /\ txn' = [txn EXCEPT ![c].pc = IF RfFullyPicked(c) THEN "order" ELSE "commit"]
  /\ UNCHANGED <<data, dQty, dRes, ops>>

RfUpdateOrder(c) ==
  /\ LockOrder(c, "rfPick")
  /\ txn' = [txn EXCEPT ![c].pc = "commit", ![c].target = "PICKED"]

CommitRfPick(c) ==
  LET t == txn[c] IN
  /\ Commit(c, "rfPick")
  /\ resv' = UpdatedResv(t.resv, t.qty, t.plan[1].qty, "PICKED")
  /\ picked' = [picked EXCEPT ![t.line] = @ + t.qty]
  /\ task' = [task EXCEPT ![t.task].status = "DONE"]
  /\ IF t.target = "PICKED" THEN UpdateOrderStatus(t.order, "PICKED")
                            ELSE UNCHANGED <<status, fulfil>>

(* RfWorkflowsService.reportTaskException, for a task in any status: the    *)
(* task is locked, and its reservation may be released, or a part of it.    *)
BeginRfException(c) ==
  \E k \in {x \in Task : task[x].status # "NONE"}, s \in {"FAILED", "BLOCKED"} :
    Begin(c, [Idle EXCEPT !.op = "rfException", !.pc = "task", !.task = k, !.target = s,
                !.order = IF task[k].resv = 0 THEN 0 ELSE OrderOfTask(k)])

RfLockTask(c) ==
  LET t == txn[c]
      r == task[t.task].resv
  IN
  /\ t.op = "rfException" /\ t.pc = "task"
  /\ Acquire(c, <<"task", t.task>>)
  /\ \/ txn' = [txn EXCEPT ![c].pc = IF t.order = 0 THEN "commit" ELSE "order"]
     \/ /\ r # 0 /\ Active(r)
        /\ \E n \in 1..resv[r].qty :
             txn' = [txn EXCEPT ![c].pc = "quant", ![c].resv = r, ![c].qty = n,
                       ![c].plan = <<[line |-> resv[r].line, quant |-> resv[r].quant,
                                      qty |-> resv[r].qty]>>]
  /\ UNCHANGED <<data, dQty, dRes, ops>>

(* No check of reserved_quantity but the CHECK of the table.                *)
RfReleaseQuant(c) ==
  LET t == txn[c]
      q == t.plan[1].quant
  IN
  /\ t.op = "rfException" /\ t.pc = "quant"
  /\ Acquire(c, <<"quant", q>>)
  /\ reserved[q] + dRes[c][q] - t.qty >= 0
  /\ dRes' = [dRes EXCEPT ![c][q] = @ - t.qty]
  /\ txn' = [txn EXCEPT ![c].pc = "resv"]
  /\ UNCHANGED <<data, dQty, ops>>

RfReleaseReservation(c) == UpdateReservation(c, "rfException", "order")

RfMarkOrder(c) ==
  /\ LockOrder(c, "rfException")
  /\ txn' = [txn EXCEPT ![c].pc = "commit"]

(* The metadata of the order are replaced, so its fulfillmentStatus is lost.*)
CommitRfException(c) ==
  LET t == txn[c] IN
  /\ Commit(c, "rfException")
  /\ resv' = IF t.resv = 0 THEN resv
             ELSE UpdatedResv(t.resv, t.qty, t.plan[1].qty, "RELEASED")
  /\ task' = [task EXCEPT ![t.task].status = t.target]
  /\ IF t.order = 0 THEN UNCHANGED <<status, fulfil>>
     ELSE /\ status' = [status EXCEPT ![t.order] = "EXCEPTION"]
          /\ fulfil' = [fulfil EXCEPT ![t.order] = "UNSET"]
  /\ UNCHANGED picked

-----------------------------------------------------------------------------
(* WarehouseTasksService.create: a PICK task that names its line only in    *)
(* its metadata and has no reservation.                                     *)
CreateTask(l) ==
  /\ HandMade
  /\ ops < MaxOps /\ ops' = ops + 1
  /\ InsertTask(<<[status |-> "OPEN", resv |-> 0, line |-> l]>>)
  /\ UNCHANGED <<quantity, reserved, resv, status, fulfil, picked, locals>>

(* OutboundService.update: any status, whatever the order has reserved; new *)
(* metadata replace the old.  The UPDATE waits for the row lock only.       *)
UpdateOutboundOrder(o) ==
  /\ ops < MaxOps /\ ops' = ops + 1
  /\ owner[<<"order", o>>] = Nobody
  /\ \E s \in EditTo : status' = [status EXCEPT ![o] = s]
  /\ \E f \in {fulfil[o], "UNSET"} : fulfil' = [fulfil EXCEPT ![o] = f]
  /\ UNCHANGED <<quantity, reserved, resv, task, picked, locals>>

-----------------------------------------------------------------------------
RfPicking(c)   == \/ BeginRfPick(c) \/ RfLockQuant(c) \/ RfUpdateReservation(c)
                  \/ RfReadLines(c) \/ RfUpdateOrder(c) \/ CommitRfPick(c)
RfException(c) == \/ BeginRfException(c) \/ RfLockTask(c) \/ RfReleaseQuant(c)
                  \/ RfReleaseReservation(c) \/ RfMarkOrder(c) \/ CommitRfException(c)

FloorNext == \/ \E c \in Client : DeskStep(c) \/ RfPicking(c) \/ RfException(c)
             \/ \E l \in Line : CreateTask(l)
             \/ \E o \in Order : UpdateOutboundOrder(o)

FloorSpec == Init /\ [][FloorNext]_vars
-----------------------------------------------------------------------------
(* No lock cycle of two transactions without a scanner in it, or two        *)
(* allocations: everyone else takes order, reservation, quant, task in turn.*)
Wanted(c) == CASE txn[c].pc = "task"   -> {<<"task", txn[c].task>>}
               [] txn[c].pc = "order"  -> {<<"order", txn[c].order>>}
               [] txn[c].pc = "resv"   -> {<<"resv", txn[c].resv>>}
               [] txn[c].pc = "quant"  -> {<<"quant", Head(txn[c].plan).quant>>}
               [] txn[c].pc = "commit" -> RowsToWrite(c)
               [] OTHER                -> {}
WaitsFor(c, d) == \E row \in Row \cap Wanted(c) : owner[row] = d
DeadlockNeedsRfOrAllocation ==
  \A c, d \in Client :
    c # d /\ WaitsFor(c, d) /\ WaitsFor(d, c) =>
      \/ {txn[c].op, txn[d].op} \cap {"rfPick", "rfException"} # {}
      \/ {txn[c].op, txn[d].op} = {"allocate"}

=============================================================================
