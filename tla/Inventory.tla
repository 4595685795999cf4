----------------------------- MODULE Inventory ------------------------------
(***************************************************************************)
(* InventoryService: receive, move, adjust, block and unblock.              *)
(***************************************************************************)
EXTENDS StockRows

BlockTarget   == {"BLOCKED", "DAMAGED", "QUARANTINE"}
UnblockTarget == {"AVAILABLE", "RESERVED"}
Src(c) == quant[txn[c].row]

-----------------------------------------------------------------------------
BeginReceive(c) ==
  \E l \in Loc, n \in Amount, k \in Key \cup {NoKey} :
     /\ ~Frozen(0, l)
     /\ Begin(c, Request("receive", "identity", 0, 0, <<Put(l, "AVAILABLE", n)>>, k, 0, 0))

BeginMove(c) ==
  \E r \in Row, l \in Loc, n \in Amount, k \in Key \cup {NoKey} :
     /\ l # quant[r].loc
     /\ ~Frozen(0, l)
     /\ Begin(c, Request("move", "source", r, n, <<Put(l, quant[r].st, n)>>, k, 0, 0))

(* doc is the sign of a delta; saw is an absolute quantity (doc = 0).       *)
BeginAdjust(c) ==
  \E r \in Row, n \in Amount \cup {0}, sign \in {-1, 0, 1}, k \in Key \cup {NoKey} :
     Begin(c, Request("adjust", "source", r, 0, <<>>, k, sign, n))

(* No row has the identity yet: it is created with 0 and then increased.    *)
BeginAdjustNew(c) ==
  \E l \in Loc, n \in Amount :
     /\ FindRow([loc |-> l, st |-> "AVAILABLE"]) = {}
     /\ Begin(c, Request("adjustNew", "identity", 0, 0, <<Put(l, "AVAILABLE", n)>>, NoKey, 0, 0))

(* block and unblock: the status, and the quantity when the request names   *)
(* none, are those of a row that is not locked yet.                         *)
BeginTransfer(c, op, r, s) ==
  \E n \in Amount \cup {quant[r].qty} :
     /\ n > 0 /\ quant[r].st # s
     /\ Begin(c, Request(op, "source", r, n, <<Put(quant[r].loc, s, n)>>, NoKey, 0, 0))

BeginBlock(c)   == \E r \in Row, s \in BlockTarget : BeginTransfer(c, "block", r, s)
BeginUnblock(c) == \E r \in Row, s \in UnblockTarget :
                      quant[r].st \in BlockTarget /\ BeginTransfer(c, "unblock", r, s)

-----------------------------------------------------------------------------
(* decrementQuant.  Where the reserved quantity is not preserved by the code *)
(* the CHECK constraint on the row does it.                                 *)
DecrementQuant(c) ==
  /\ txn[c].op \in {"move", "block", "unblock"}
  /\ ~Frozen(txn[c].row, Src(c).loc)
  /\ LockSource(c, txn[c].n <= Src(c).qty /\ Src(c).qty - txn[c].n >= Src(c).res)

NextQuantity(c) == IF txn[c].doc = 0 THEN txn[c].saw ELSE Src(c).qty + txn[c].doc * txn[c].saw

LockAdjusted(c) ==
  /\ txn[c].op = "adjust"
  /\ ~Frozen(txn[c].row, Src(c).loc)
  /\ LockSource(c, NextQuantity(c) >= 0 /\ NextQuantity(c) >= Src(c).res)

(* The rows and the one movement of a request that adds to a row.           *)
CommitAs(c, op, type, from, delta) ==
  /\ txn[c].op = op /\ txn[c].pc = "commit"
  /\ LET p == txn[c].into[1] IN
       CommitStock(c, Written(c, "identity"), <<Move(type, from, p.loc, p.n, delta)>>)
  /\ UNCHANGED drift

CommitReceive(c)   == CommitAs(c, "receive", "RECEIVE", None, txn[c].into[1].n)
CommitAdjustNew(c) == CommitAs(c, "adjustNew", "ADJUST", None, txn[c].into[1].n)
CommitTransfer(c)  == \/ CommitAs(c, "block", "BLOCK", Src(c).loc, 0)
                      \/ CommitAs(c, "unblock", "UNBLOCK", Src(c).loc, 0)

(* Variant: a transfer that names only where the goods went.                *)
CommitMoveOneSided(c) == CommitAs(c, "move", "MOVE", None, 0)

CommitMove(c) == CommitAs(c, "move", "MOVE", Src(c).loc, 0)

CommitAdjust(c) ==
  LET delta == NextQuantity(c) - Src(c).qty IN
  /\ txn[c].op = "adjust" /\ txn[c].pc = "commit"
  /\ CommitStock(c, [quant EXCEPT ![txn[c].row].qty = NextQuantity(c)],
                 <<Move("ADJUST", None, Src(c).loc, IF delta < 0 THEN -delta ELSE delta, delta)>>)
  /\ UNCHANGED drift

InventoryStep(c) ==
  \/ BeginReceive(c) \/ BeginMove(c) \/ BeginAdjust(c) \/ BeginAdjustNew(c)
  \/ BeginBlock(c) \/ BeginUnblock(c)
  \/ DecrementQuant(c) \/ LockAdjusted(c) \/ LockIdentity(c)
  \/ CommitReceive(c) \/ CommitMove(c) \/ CommitTransfer(c) \/ CommitAdjustNew(c)
  \/ CommitAdjust(c) \/ Rollback(c)
=============================================================================
