----------------------------- MODULE CycleCount -----------------------------
(***************************************************************************)
(* CycleCountsService with one plan over the quants that are AVAILABLE or   *)
(* RESERVED: releasePlan, submitTask, approveTask.  The status of a count   *)
(* task is checked before anything is locked and never again.               *)
(***************************************************************************)
EXTENDS Inbound

CONSTANT Counted       \* quantities a counter may report

ASSUME CountConstants == Counted \subseteq Nat

VARIABLES plan,        \* cycle_count_plans.status
          count        \* cycle_count_tasks, by quant: [st, expected, counted]

countVars == <<plan, count>>
CountStatus == {"NONE", "OPEN", "SUBMITTED", "APPROVED"}
CountTypeOK ==
  /\ plan \in {"DRAFT", "RELEASED", "COUNTING", "RECONCILING", "APPROVED"}
  /\ count \in [1..NumRows -> [st : CountStatus, expected : Nat, counted : Nat]]
InScope == {r \in Row : quant[r].st \in {"AVAILABLE", "RESERVED"}}

(* One count task and one freeze per quant; each freeze names the quant, its *)
(* location and its SKU.                                                    *)
Tasks   == [r \in 1..NumRows |->
              IF r \in InScope THEN [st |-> "OPEN", expected |-> quant[r].qty, counted |-> 0]
                               ELSE [st |-> "NONE", expected |-> 0, counted |-> 0]]
Freezes == {[row |-> r, loc |-> quant[r].loc, sku |-> TRUE] : r \in InScope}

(* The plan is a draft, or was released before the first request.           *)
CountInit ==
  \/ /\ "release" \in ops.mix
     /\ plan = "DRAFT" /\ freeze = {}
     /\ count = [r \in 1..NumRows |-> [st |-> "NONE", expected |-> 0, counted |-> 0]]
  \/ /\ "release" \notin ops.mix
     /\ plan = "RELEASED" /\ freeze = Freezes /\ count = Tasks

Counting == {r \in DOMAIN count : count[r].st \in {"OPEN", "SUBMITTED"}}
Variance(r) == count[r].counted - count[r].expected

ReleasePlan(c) ==
  /\ plan = "DRAFT" /\ InScope # {} /\ May("release") /\ txn[c] = Idle
  /\ plan' = "RELEASED"
  /\ count' = Tasks
  /\ freeze' = Freezes
  /\ ops' = OneMore
  /\ UNCHANGED <<quant, ledger, keys, applied, shipped, drift, txn>>

(* The desk and the scanner check the same and write the same.              *)
BeginSubmit(c) ==
  \E op \in {"count", "rfcount"}, r \in DOMAIN count, n \in Counted :
    /\ count[r].st = "OPEN"
    /\ Begin(c, Request(op, "commit", 0, 0, <<>>, NoKey, r, n))
    /\ UNCHANGED <<countVars, freeze>>

Submit(c) ==
  LET t == txn[c] IN
  /\ count' = [count EXCEPT ![t.doc].st = "SUBMITTED", ![t.doc].counted = t.saw]
  /\ plan' = IF t.saw = count[t.doc].expected THEN "COUNTING" ELSE "RECONCILING"
  /\ txn' = [txn EXCEPT ![c] = Idle]
  /\ UNCHANGED <<quant, ledger, keys, applied, shipped, drift, ops, freeze>>

CommitSubmit(c)           == txn[c].op = "count" /\ Submit(c)
SubmitCycleCountFromRf(c) == txn[c].op = "rfcount" /\ Submit(c)

(* n: the variance that was read; saw: the counted quantity.                *)
BeginApprove(c) ==
  \E r \in DOMAIN count :
    /\ count[r].st = "SUBMITTED"
    /\ Begin(c, Request("approve", IF Variance(r) = 0 THEN "commit" ELSE "source",
                        IF Variance(r) = 0 THEN 0 ELSE r, Variance(r), <<>>, NoKey, r,
                        count[r].counted))
    /\ UNCHANGED <<countVars, freeze>>

LockCounted(c) ==
  /\ txn[c].op = "approve"
  /\ LockSource(c, Src(c).res <= txn[c].saw)
  /\ UNCHANGED <<countVars, freeze>>

(* The quantity becomes the counted one; the movement is the variance to    *)
(* the quantity expected at release, which the CHECK refuses unless positive. *)
CommitApprove(c) ==
  LET t == txn[c]  r == t.doc  l == quant[r].loc
      left == Counting \ {r}
  IN
  /\ t.op = "approve" /\ t.pc = "commit"
  /\ \/ /\ t.row = 0
        /\ txn' = [txn EXCEPT ![c] = Idle]
        /\ UNCHANGED <<quant, ledger, keys, applied, shipped, drift, ops>>
     \/ /\ t.row # 0
        /\ CommitStock(c, [quant EXCEPT ![r].qty = t.saw],
                       <<Move("ADJUST", None, l, t.n, t.n)>>)
        /\ drift' = [drift EXCEPT ![l] = @ + (t.saw - quant[r].qty) - t.n]
  /\ count' = [count EXCEPT ![r].st = "APPROVED"]
  /\ plan' = IF left = {} THEN "APPROVED" ELSE plan
  /\ freeze' = IF left = {} THEN {} ELSE {f \in freeze : f.row # r}

CountStep(c) ==
  /\ ReleasePlan(c) \/ BeginSubmit(c) \/ CommitSubmit(c) \/ SubmitCycleCountFromRf(c)
     \/ BeginApprove(c) \/ LockCounted(c) \/ CommitApprove(c)
  /\ UNCHANGED <<move, inboundVars>>

(* While a plan has a quant frozen nothing but the plan's own approval      *)
(* changes its quantity.                                                    *)
FrozenStockStays ==
  [][\A f \in freeze : quant'[f.row].qty = quant[f.row].qty \/ count' # count]_<<quant, count>>

-----------------------------------------------------------------------------
(* All of it on one warehouse.                                              *)
storageVars == <<stockVars, freeze, move, inboundVars, countVars>>

StorageTypeOK == StockTypeOK /\ MoveTypeOK /\ InboundTypeOK /\ CountTypeOK

StorageInit == StockInit /\ MoveInit /\ InboundInit /\ CountInit

StorageNext ==
  \/ OrderSide /\ UNCHANGED <<freeze, move, inboundVars, countVars>>
  \/ \E c \in Client :
       \/ InventoryStep(c) /\ UNCHANGED <<freeze, move, inboundVars, countVars>>
       \/ MoveStep(c) /\ UNCHANGED <<inboundVars, countVars>>
       \/ InboundStep(c) /\ UNCHANGED countVars
       \/ CountStep(c)

StorageSpec == StorageInit /\ [][StorageNext]_storageVars
=============================================================================
