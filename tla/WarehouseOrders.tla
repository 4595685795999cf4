-------------------------- MODULE WarehouseOrders ---------------------------
(***************************************************************************)
(* WarehouseOrdersService: release, complete and cancel check the status of *)
(* an order before their transaction and lock nothing; each transaction     *)
(* writes the order row first, so two of them on one order take turns.      *)
(* The linked tasks are worked on by WarehouseTasksService meanwhile.       *)
(***************************************************************************)
EXTENDS Requests

CONSTANTS NumWorders, WorderLines, NumWtasks   \* bounds

ASSUME WorderConstants == WorderLines \in Nat

VARIABLES worder,    \* warehouse_orders with their lines
          wtask      \* warehouse_tasks linked to a line

worderVars == <<worder, wtask>>
WorderStatus == {"DRAFT", "RELEASED", "COMPLETED", "CANCELLED"}   \* others are never set
WlineStatus  == {"OPEN", "IN_PROGRESS", "DONE", "CANCELLED"}
WtaskStatus  == {"OPEN", "IN_PROGRESS", "DONE", "CANCELLED"}

WorderTypeOK ==
  /\ \A o \in DOMAIN worder : worder[o] \in [st : WorderStatus, lines : [1..WorderLines -> WlineStatus]]
  /\ \A t \in DOMAIN wtask : wtask[t] \in [order : DOMAIN worder, line : 1..WorderLines, st : WtaskStatus]

WorderInit == worder = <<>> /\ wtask = <<>>

AllLines(st) == [i \in 1..WorderLines |-> st]

CreateOrder ==
  /\ Len(worder) < NumWorders
  /\ Once("wcreate")
  /\ worder' = Append(worder, [st |-> "DRAFT", lines |-> AllLines("OPEN")])
  /\ UNCHANGED wtask

(* assertWarehouseOrderTransition: the rows of the workflow table.          *)
TransitionAllowed(op, st) == \/ op = "wrelease"  /\ st = "DRAFT"
                             \/ op = "wcomplete" /\ st = "RELEASED"
                             \/ op = "wcancel"   /\ st \in {"DRAFT", "RELEASED"}

BeginTransition(c, o) ==
  \E op \in {"wrelease", "wcomplete", "wcancel"} :
    /\ TransitionAllowed(op, worder[o].st)
    /\ Begin(c, [op |-> op, pc |-> "commit", order |-> o])
    /\ UNCHANGED worderVars

ReleaseOrder(c) ==
  LET o == reqs[c].order IN
  /\ At(c, "wrelease", "commit") /\ Len(wtask) + WorderLines <= NumWtasks
  /\ worder' = [worder EXCEPT ![o] = [st |-> "RELEASED", lines |-> AllLines("IN_PROGRESS")]]
  /\ wtask' = wtask \o [i \in 1..WorderLines |-> [order |-> o, line |-> i, st |-> "OPEN"]]
  /\ Finish(c)

LinkedTasks(o, S, st) == [t \in DOMAIN wtask |->
  IF wtask[t].order = o /\ wtask[t].st \in S THEN [wtask[t] EXCEPT !.st = st] ELSE wtask[t]]

(* (Variant: lines that were cancelled stay so.)                            *)
CompleteOrderOpenLines(c) ==
  LET o == reqs[c].order IN
  /\ At(c, "wcomplete", "commit")
  /\ worder' = [worder EXCEPT ![o] = [st |-> "COMPLETED", lines |-> [i \in 1..WorderLines |->
                  IF worder[o].lines[i] = "CANCELLED" THEN "CANCELLED" ELSE "DONE"]]]
  /\ wtask' = LinkedTasks(o, {"OPEN", "IN_PROGRESS"}, "DONE")
  /\ Finish(c)

CompleteOrder(c) ==
  LET o == reqs[c].order IN
  /\ At(c, "wcomplete", "commit")
  /\ worder' = [worder EXCEPT ![o] = [st |-> "COMPLETED", lines |-> AllLines("DONE")]]
  /\ wtask' = LinkedTasks(o, {"OPEN", "IN_PROGRESS", "CANCELLED"}, "DONE")
  /\ Finish(c)

CancelOrder(c) ==
  LET o == reqs[c].order IN
  /\ At(c, "wcancel", "commit")
  /\ worder' = [worder EXCEPT ![o] = [st |-> "CANCELLED", lines |-> [i \in 1..WorderLines |->
                  IF worder[o].lines[i] = "DONE" THEN "DONE" ELSE "CANCELLED"]]]
  /\ wtask' = LinkedTasks(o, {"OPEN", "IN_PROGRESS"}, "CANCELLED")
  /\ Finish(c)

(* WarehouseTasksService.start on a linked task: checked unlocked, written  *)
(* by id.                                                                   *)
BeginStart(c, t) ==
  /\ wtask[t].st = "OPEN"
  /\ Begin(c, [op |-> "wstart", pc |-> "commit", task |-> t])
  /\ UNCHANGED worderVars

StartTask(c) ==
  /\ At(c, "wstart", "commit")
  /\ wtask' = [wtask EXCEPT ![reqs[c].task].st = "IN_PROGRESS"]
  /\ Finish(c)
  /\ UNCHANGED worder

WorderStep ==
  \/ CreateOrder
  \/ \E c \in Client, o \in DOMAIN worder : BeginTransition(c, o)
  \/ \E c \in Client : ReleaseOrder(c) \/ CompleteOrder(c) \/ CancelOrder(c) \/ StartTask(c)
  \/ \E c \in Client, t \in DOMAIN wtask : BeginStart(c, t)

WorderNext == WorderStep \/ \E c \in Client : Abort(c) /\ UNCHANGED worderVars
WorderSpec == ReqInit /\ WorderInit /\ [][WorderNext]_<<reqVars, worderVars>>

-----------------------------------------------------------------------------
(* Whichever of release, complete and cancel commits last, the lines agree  *)
(* with the order: all DONE when it is COMPLETED, none open when CANCELLED. *)
ClosedOrderClosedLines ==
  \A o \in DOMAIN worder : \A i \in 1..WorderLines :
    /\ worder[o].st = "COMPLETED" => worder[o].lines[i] = "DONE"
    /\ worder[o].st = "CANCELLED" => worder[o].lines[i] \in {"DONE", "CANCELLED"}
=============================================================================
