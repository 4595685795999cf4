----------------------------- MODULE MoveTasks ------------------------------
(***************************************************************************)
(* Goods moved by a task: PutawayService (createTask, confirmTask) and      *)
(* ReplenishmentService (evaluate, confirmTask).  A demand and its          *)
(* REPLENISH task are one record; the replenishment rule fills PickFace up  *)
(* to Target when less than MinPick is unreserved there.                    *)
(***************************************************************************)
EXTENDS Inventory

CONSTANTS PickFace, MinPick, Target, NumMoves

ASSUME MoveConstants ==
  PickFace \in Loc /\ MinPick \in Nat /\ Target \in Nat /\ NumMoves \in Nat

VARIABLE move       \* PUTAWAY tasks and replenishment demands, in creation order

MoveRec == [kind : {"putaway", "replenish"}, st : {"OPEN", "DONE"}, row : Nat, to : Loc,
            n : Nat, times : Nat]      \* times: history, confirmations committed
MoveTypeOK == move \in Seq(MoveRec)
MoveInit   == move = <<>>

Task == DOMAIN move
Available(r) == IF quant[r].qty > quant[r].res THEN quant[r].qty - quant[r].res ELSE 0
NewMove(kind, r, l, n) ==
  Append(move, [kind |-> kind, st |-> "OPEN", row |-> r, to |-> l, n |-> n, times |-> 0])

(* assertPutawayQuantity, on whatever was read.                             *)
AssertPutawayQuantity(r, n) == n > 0 /\ quant[r].st = "AVAILABLE" /\ n <= Available(r)

CreatePutaway(c) ==
  /\ txn[c] = Idle /\ May("putaway") /\ Len(move) < NumMoves
  /\ \E r \in Row, l \in Loc, n \in Amount :
       /\ l # quant[r].loc /\ AssertPutawayQuantity(r, n)
       /\ move' = NewMove("putaway", r, l, n)
  /\ ops' = OneMore
  /\ UNCHANGED <<quant, ledger, keys, applied, shipped, drift, txn>>

(* The status of the task and what is available are read without a lock and *)
(* never again.  The request may name another row, place or quantity than   *)
(* the task does.                                                           *)
BeginPutaway(c) ==
  \E t \in Task, r \in Row, l \in Loc, k \in Key \cup {NoKey} : \E n \in Amount \cup {move[t].n} :
     /\ move[t].kind = "putaway" /\ move[t].st = "OPEN"
     /\ l # quant[r].loc /\ AssertPutawayQuantity(r, n)
     /\ Begin(c, Request("putaway", "source", r, n, <<Put(l, quant[r].st, n)>>, k, t, 0))
     /\ UNCHANGED move

(* Variant: no such constraint in the schema.                               *)
DecrementPutawayUnchecked(c) ==
  /\ txn[c].op = "putaway"
  /\ LockSource(c, Src(c).qty - txn[c].n >= 0)
  /\ UNCHANGED move

(* UPDATE ... SET quantity = quantity - n: the row lock, and then only the  *)
(* CHECK constraint of stock_quants.                                        *)
DecrementPutaway(c) ==
  /\ txn[c].op = "putaway"
  /\ LockSource(c, Src(c).qty - txn[c].n >= Src(c).res)
  /\ UNCHANGED move

Confirmed(t) == [move EXCEPT ![t].st = "DONE", ![t].times = @ + 1]

CommitPutaway(c) ==
  LET p == txn[c].into[1] IN
  /\ txn[c].op = "putaway" /\ txn[c].pc = "commit"
  /\ CommitStock(c, Written(c, "identity"), <<Move("PUTAWAY", Src(c).loc, p.loc, p.n, 0)>>)
  /\ move' = Confirmed(txn[c].doc)
  /\ UNCHANGED drift

(* The last scan of a PUTAWAY task on the scanner (completeTaskAfterRfScan) *)
(* ends the task; the goods stay where they are.                            *)
CompleteByScanner(c) ==
  /\ txn[c] = Idle /\ May("rfputaway")
  /\ \E t \in Task : move[t].kind = "putaway" /\ move' = [move EXCEPT ![t].st = "DONE"]
  /\ ops' = OneMore
  /\ UNCHANGED <<quant, ledger, keys, applied, shipped, drift, txn>>

-----------------------------------------------------------------------------
(* calculateReplenishmentQuantity over the rows of the pick face.           *)
Required ==
  LET there == MapThenSumSet(Available, {r \in Row : quant[r].loc = PickFace})
  IN IF there >= MinPick \/ Target <= there THEN 0 ELSE Target - there

(* findSourceQuant: a row with enough, or else one with anything.           *)
SourceQuant ==
  LET from   == {r \in Row : quant[r].st = "AVAILABLE" /\ quant[r].loc # PickFace
                             /\ Available(r) > 0}
      enough == {r \in from : Available(r) >= Required}
  IN IF enough # {} THEN Min(enough) ELSE IF from # {} THEN Min(from) ELSE 0

(* evaluate, up to the insert of the demand: the open demands and the stock *)
(* are read without locks.                                                  *)
BeginEvaluate(c) ==
  /\ ~\E t \in Task : move[t].kind = "replenish" /\ move[t].st = "OPEN"
  /\ Required > 0 /\ SourceQuant # 0
  /\ ~Frozen(0, PickFace) /\ ~Frozen(SourceQuant, quant[SourceQuant].loc)
  /\ Begin(c, Request("evaluate", "commit", 0, Required, <<>>, NoKey, SourceQuant, 0))
  /\ UNCHANGED move

CommitEvaluate(c) ==
  /\ txn[c].op = "evaluate" /\ Len(move) < NumMoves
  /\ move' = NewMove("replenish", txn[c].doc, PickFace, txn[c].n)
  /\ txn' = [txn EXCEPT ![c] = Idle]
  /\ UNCHANGED <<quant, ledger, keys, applied, shipped, drift, ops>>

(* confirmTask: COMPLETED is checked before the task and the quant are      *)
(* locked, and not again.                                                   *)
BeginReplenish(c) ==
  \E t \in Task :
     /\ move[t].kind = "replenish" /\ move[t].st = "OPEN"
     /\ Begin(c, Request("replenish", "source", move[t].row, 0,
                         <<Put(PickFace, "AVAILABLE", 1)>>, NoKey, t, 0))
     /\ UNCHANGED move

LockReplenish(c) ==
  LET t == txn[c] IN
  /\ t.op = "replenish" /\ t.pc = "source"
  /\ Free(c, t.row)
  /\ \A d \in Client \ {c} : ~(txn[d].op = "replenish" /\ txn[d].pc # "source"
                               /\ txn[d].doc = t.doc)
  /\ ~Frozen(t.row, Src(c).loc) /\ ~Frozen(0, PickFace)
  /\ \E n \in Amount \cup {Min({move[t.doc].n, Available(t.row)})} :
       /\ 0 < n /\ n <= Available(t.row)
       /\ txn' = [txn EXCEPT ![c].pc = "identity", ![c].n = n, ![c].puts = <<Put(PickFace, "AVAILABLE", n)>>]
  /\ UNCHANGED <<quant, ledger, keys, applied, shipped, drift, ops, move>>

(* The destination is searched without lockStockQuantIdentity.              *)
FindDestination(c) ==
  /\ txn[c].op = "replenish" /\ txn[c].pc = "identity"
  /\ AddTo(c, Head(txn[c].puts))
  /\ UNCHANGED move

CommitReplenish(c) ==
  /\ txn[c].op = "replenish" /\ txn[c].pc = "commit"
  /\ CommitStock(c, Written(c, "search"),
                 <<Move("MOVE", Src(c).loc, PickFace, txn[c].n, 0)>>)
  /\ move' = Confirmed(txn[c].doc)
  /\ UNCHANGED drift

MoveStep(c) ==
  /\ \/ CreatePutaway(c) \/ BeginPutaway(c) \/ DecrementPutaway(c) \/ CommitPutaway(c)
     \/ CompleteByScanner(c)
     \/ BeginEvaluate(c) \/ CommitEvaluate(c)
     \/ BeginReplenish(c) \/ LockReplenish(c) \/ FindDestination(c) \/ CommitReplenish(c)
  /\ UNCHANGED freeze

(* A putaway task or a demand moves its goods once.                         *)
MovedOnce == \A t \in Task : move[t].times <= 1
=============================================================================
