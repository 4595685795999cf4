---------------------------- MODULE StorageProofs ---------------------------
(* The stock tables, for any number of requests, rows and mixes of          *)
(* operations: what is reserved is on hand, one row for each identity, one  *)
(* use of each key, and a ledger that explains the stock.                   *)
EXTENDS CycleCount, SumLemmas, SequenceTheorems

Transfers == {"move", "block", "unblock", "putaway", "replenish"}
Arrivals  == {"receive", "adjustNew", "inbound"}
StockOp   == Transfers \cup Arrivals
             \cup {"idle", "adjust", "evaluate", "count", "rfcount", "approve"}

TxnRec ==
  [op : StockOp, pc : {None, "source", "identity", "commit"}, row : Nat, n : Int,
   puts : Seq(PutSet), into : Seq(PutSet), key : Key \cup {NoKey}, doc : Int, saw : Nat,
   st : InboundStatus \cup {None}]

(* The targets of a request, those found before those to be searched.       *)
Goals(t)   == Len(t.into) + Len(t.puts)
Goal(t, i) == IF i <= Len(t.into) THEN t.into[i] ELSE t.puts[i - Len(t.into)]
Same(p, q) == p.loc = q.loc /\ p.st = q.st

Shaped(t) ==
  /\ t \in TxnRec
  /\ t.pc = None <=> t.op = "idle"
  /\ t.pc \in {None, "source"} => t.into = <<>>
  /\ t.pc = "identity" => t.puts # <<>>
  /\ t.pc = "commit" => t.puts = <<>>
  /\ t.op \in Transfers =>
       /\ t.row # 0 /\ Goals(t) = 1
       /\ (t.op # "replenish" \/ t.pc # "source") => t.n > 0 /\ Goal(t, 1).n = t.n
  /\ t.op \in Arrivals =>
       /\ t.row = 0 /\ t.n = 0 /\ t.pc # "source"
       /\ Goals(t) = 1 \/ (t.op = "inbound" /\ Goals(t) = 2)
       /\ \A i, j \in 1..Goals(t) : i # j => ~ Same(Goal(t, i), Goal(t, j))
  /\ t.op \notin Transfers \cup Arrivals => t.into = <<>> /\ t.puts = <<>> /\ t.pc # "identity"
  /\ t.op = "adjust" => t.row # 0 /\ t.doc \in {-1, 0, 1}
  /\ t.op \in {"idle", "evaluate", "count", "rfcount"} => t.row = 0 /\ t.pc # "source"
  /\ t.op = "approve" => t.row \in {0, t.doc} /\ t.key = NoKey /\ (t.row = 0 => t.pc = "commit")

(* The rows a transaction is going to change are those it has found, and of *)
(* an identity for which it found none there is none.                       *)
Placed(t, rows) ==
  /\ t.row <= Len(rows)
  /\ \A i \in DOMAIN t.into :
       LET p == t.into[i] IN
       IF p.row # 0 THEN p.row \in DOMAIN rows /\ Same(rows[p.row], p)
       ELSE t.op # "replenish" =>
              \A r \in DOMAIN rows : Same(rows[r], p) => rows[r].by = "search"

Adjusted(t, rows) == IF t.doc = 0 THEN t.saw ELSE rows[t.row].qty + t.doc * t.saw

(* Past the lock of its source a transaction leaves there what is reserved. *)
Covered(t, rows) ==
  /\ t.op \in Transfers /\ t.pc # "source" => rows[t.row].qty - t.n >= rows[t.row].res
  /\ t.op = "adjust" /\ t.pc = "commit" =>
       Adjusted(t, rows) >= 0 /\ Adjusted(t, rows) >= rows[t.row].res
  /\ t.op = "approve" /\ t.row # 0 /\ t.pc = "commit" => t.saw >= rows[t.row].res

LockedBy(t) ==
  IF t.pc \in {"identity", "commit"}
  THEN ({t.row} \cup {t.into[i].row : i \in DOMAIN t.into}) \ {0} ELSE {}

Apart(t, u) ==
  /\ LockedBy(t) \cap LockedBy(u) = {}
  /\ t.op # "replenish" /\ u.op # "replenish" =>
       \A i \in DOMAIN t.into, j \in DOMAIN u.into : ~ Same(t.into[i], u.into[j])

RowsGood(rows) ==
  /\ rows \in Seq(QuantRow)
  /\ \A r \in DOMAIN rows : rows[r].res <= rows[r].qty
  /\ \A r, s \in DOMAIN rows : r # s /\ Same(rows[r], rows[s])
                               => rows[r].by = "search" \/ rows[s].by = "search"

Good(t, rows) == Shaped(t) /\ Placed(t, rows) /\ Covered(t, rows)

StockInv ==
  /\ RowsGood(quant)
  /\ txn \in [Client -> TxnRec]
  /\ \A c \in Client : Good(txn[c], quant)
  /\ \A c, d \in Client : c # d => Apart(txn[c], txn[d])

BooksInv ==
  /\ DOMAIN keys \subseteq Key
  /\ applied \in [Key -> Nat]
  /\ \A k \in Key : applied[k] = IF k \in DOMAIN keys THEN 1 ELSE 0
  /\ ledger \in [Loc -> Int] /\ shipped \in [Loc -> Nat] /\ drift \in [Loc -> Int]
  /\ LedgerExplainsStock

(* What a receipt of n for line i leaves open.                              *)
Completes(rcv, i, n) == \A j \in Line : rcv[j] + (IF j = i THEN n ELSE 0) >= Expected[j]

(* The request is about a row, a task, a line or a count that is there; it  *)
(* puts as many pieces somewhere as it counts as received, and what it says *)
(* of the shipment is so once it has.                                       *)
AboutIn(t, rows, tasks, counts, rcv) ==
  /\ t.op \in {"putaway", "replenish"} => t.doc \in tasks
  /\ t.op = "replenish" => Goal(t, 1).loc = PickFace
  /\ t.op = "evaluate" => t.doc \in rows /\ t.n \in Nat
  /\ t.op = "inbound" =>
       /\ t.doc \in Line /\ t.st \in InboundStatus
       /\ \/ Goals(t) = 1 /\ t.saw = Goal(t, 1).n
          \/ Goals(t) = 2 /\ t.saw = Goal(t, 1).n + Goal(t, 2).n
       /\ t.st = "RECEIVED" => Completes(rcv, t.doc, t.saw)
  /\ t.op \in {"count", "rfcount", "approve"} => t.doc \in counts /\ t.doc \in rows

DocsInv ==
  /\ MoveTypeOK /\ InboundTypeOK /\ CountTypeOK
  /\ \A m \in DOMAIN move : move[m].row \in Row
  /\ \A r \in DOMAIN count : count[r].st # "NONE" => r \in Row
  /\ \A c \in Client : AboutIn(txn[c], Row, DOMAIN move, DOMAIN count, received)
  /\ received = got

StorageInv == StockInv /\ BooksInv /\ DocsInv

-----------------------------------------------------------------------------
(* Rows.  What a location has that is not reserved.                         *)
SpareIn(rows, l) ==
  [r \in DOMAIN rows |-> IF rows[r].loc = l THEN rows[r].qty - rows[r].res ELSE 0]
Spare(rows, l) == SumOf(SpareIn(rows, l), DOMAIN rows)

(* Location m has n more, and every other what it had.                      *)
Gains(rows, new, m, n) == \A l : Spare(new, l) = Spare(rows, l) + At(l, m, n)

(* The fields of the rows, and that there are finitely many.                *)
LEMMA RowFacts ==
  ASSUME NEW rows \in Seq(QuantRow)
  PROVE  /\ DOMAIN rows = 1..Len(rows) /\ Len(rows) \in Nat /\ IsFiniteSet(DOMAIN rows)
         /\ rows \in [1..Len(rows) -> QuantRow]
         /\ \A r \in DOMAIN rows :
              /\ rows[r] \in QuantRow
              /\ rows[r].loc \in Loc /\ rows[r].st \in QuantStatus
              /\ rows[r].qty \in Nat /\ rows[r].res \in Nat
              /\ rows[r].by \in {"identity", "search"}
         /\ \A l : \A r \in DOMAIN rows : SpareIn(rows, l)[r] \in Int
<1>1. DOMAIN rows = 1..Len(rows) /\ Len(rows) \in Nat /\ rows \in [1..Len(rows) -> QuantRow]
  BY LenProperties
<1>2. IsFiniteSet(DOMAIN rows)
  BY <1>1, FS_Interval
<1>3. ASSUME NEW r \in DOMAIN rows
      PROVE  /\ rows[r] \in QuantRow
             /\ rows[r].loc \in Loc /\ rows[r].st \in QuantStatus
             /\ rows[r].qty \in Nat /\ rows[r].res \in Nat
             /\ rows[r].by \in {"identity", "search"}
  <2>1. rows[r] \in QuantRow
    BY <1>1
  <2>2. QED
    BY <2>1 DEF QuantRow
<1>4. \A l : \A r \in DOMAIN rows : SpareIn(rows, l)[r] \in Int
  BY <1>3 DEF SpareIn
<1>5. QED
  BY <1>1, <1>2, <1>3, <1>4

(* Changing one row changes what its location has by the difference.        *)
LEMMA SpareOfChange ==
  ASSUME NEW rows \in Seq(QuantRow), NEW r \in DOMAIN rows, NEW q \in QuantRow,
         q.loc = rows[r].loc,
         NEW new, new = [rows EXCEPT ![r] = q]
  PROVE  /\ new \in Seq(QuantRow) /\ DOMAIN new = DOMAIN rows
         /\ Gains(rows, new, q.loc, (q.qty - q.res) - (rows[r].qty - rows[r].res))
<1> SUFFICES ASSUME NEW l
             PROVE  /\ new \in Seq(QuantRow) /\ DOMAIN new = DOMAIN rows
                    /\ Spare(new, l) = Spare(rows, l)
                         + At(l, q.loc, (q.qty - q.res) - (rows[r].qty - rows[r].res))
  BY DEF Gains
<1>1. new \in Seq(QuantRow) /\ DOMAIN new = DOMAIN rows /\ new[r] = q
      /\ \A s \in DOMAIN rows \ {r} : new[s] = rows[s]
  BY RowFacts, ExceptSeq
<1> DEFINE f == SpareIn(rows, l)
           g == SpareIn(new, l)
<1>2. \A s \in DOMAIN rows : f[s] \in Int /\ g[s] \in Int
  BY <1>1, RowFacts
<1>3. \A s \in DOMAIN rows \ {r} : f[s] = g[s]
  BY <1>1 DEF SpareIn
<1>4. /\ f[r] = IF q.loc = l THEN rows[r].qty - rows[r].res ELSE 0
      /\ g[r] = IF q.loc = l THEN q.qty - q.res ELSE 0
  BY <1>1 DEF SpareIn
<1>5. q.qty \in Nat /\ q.res \in Nat /\ rows[r].qty \in Nat /\ rows[r].res \in Nat
  BY RowFacts DEF QuantRow
<1>6. IsFiniteSet(DOMAIN rows)
  BY RowFacts
<1> HIDE DEF f, g
<1>7. SumOf(g, DOMAIN rows) = SumOf(f, DOMAIN rows) + g[r] - f[r]
  BY <1>2, <1>3, <1>6, SumUpdate
<1>8. SumOf(f, DOMAIN rows) \in Int
  BY <1>2, <1>6, SumInt
<1>9. Spare(new, l) = SumOf(g, DOMAIN rows) /\ Spare(rows, l) = SumOf(f, DOMAIN rows)
  BY <1>1 DEF Spare, f, g
<1>10. CASE q.loc = l
  BY <1>10, <1>4, <1>5, <1>7, <1>8, <1>9 DEF At
<1>11. CASE q.loc # l
  BY <1>11, <1>4, <1>5, <1>7, <1>8, <1>9 DEF At
<1>12. QED
  BY <1>1, <1>10, <1>11

(* A new row adds what it holds.                                            *)
LEMMA SpareOfAppend ==
  ASSUME NEW rows \in Seq(QuantRow), NEW q \in QuantRow,
         NEW new, new = Append(rows, q)
  PROVE  /\ new \in Seq(QuantRow) /\ Len(new) = Len(rows) + 1 /\ new[Len(new)] = q
         /\ DOMAIN rows \subseteq DOMAIN new
         /\ \A s \in DOMAIN rows : new[s] = rows[s]
         /\ Gains(rows, new, q.loc, q.qty - q.res)
<1> SUFFICES ASSUME NEW l
             PROVE  /\ new \in Seq(QuantRow) /\ Len(new) = Len(rows) + 1 /\ new[Len(new)] = q
                    /\ DOMAIN rows \subseteq DOMAIN new
                    /\ \A s \in DOMAIN rows : new[s] = rows[s]
                    /\ Spare(new, l) = Spare(rows, l) + At(l, q.loc, q.qty - q.res)
  BY DEF Gains
<1>1. new \in Seq(QuantRow) /\ Len(new) = Len(rows) + 1 /\ new[Len(new)] = q
      /\ \A s \in 1..Len(rows) : new[s] = rows[s]
  BY AppendProperties
<1>2. DOMAIN rows = 1..Len(rows) /\ DOMAIN new = 1..Len(new) /\ Len(rows) \in Nat
  BY <1>1, RowFacts
<1> DEFINE n == Len(new)
           f == SpareIn(rows, l)
           g == SpareIn(new, l)
<1>3. DOMAIN rows = DOMAIN new \ {n} /\ n \in DOMAIN new
  BY <1>1, <1>2
<1>4. \A s \in DOMAIN new : g[s] \in Int
  BY <1>1, RowFacts
<1>5. \A s \in DOMAIN rows : f[s] = g[s]
  BY <1>1, <1>2, <1>3 DEF SpareIn
<1>6. g[n] = IF q.loc = l THEN q.qty - q.res ELSE 0
  BY <1>1, <1>3 DEF SpareIn
<1>7. IsFiniteSet(DOMAIN new) /\ IsFiniteSet(DOMAIN rows)
  BY <1>1, RowFacts
<1> HIDE DEF f, g, n
<1>8. SumOf(g, DOMAIN new) = g[n] + SumOf(g, DOMAIN new \ {n})
  BY <1>3, <1>4, <1>7, SumAdd
<1>9. SumOf(g, DOMAIN rows) = SumOf(f, DOMAIN rows)
  BY <1>5, <1>7, SumSame
<1>10. SumOf(g, DOMAIN rows) \in Int
  BY <1>3, <1>4, <1>7, SumInt
<1>11. Spare(new, l) = g[n] + Spare(rows, l) /\ Spare(rows, l) \in Int
  BY <1>3, <1>8, <1>9, <1>10 DEF Spare, f, g
<1>12. q.qty \in Nat /\ q.res \in Nat
  BY DEF QuantRow
<1>13. Spare(new, l) = Spare(rows, l) + At(l, q.loc, q.qty - q.res)
  BY <1>6, <1>11, <1>12 DEF At
<1>14. DOMAIN rows \subseteq DOMAIN new
  BY <1>3
<1>15. QED
  BY <1>1, <1>2, <1>13, <1>14

(* A row with another quantity.                                             *)
LEMMA RowWith ==
  ASSUME NEW row \in QuantRow, NEW n \in Nat, NEW q, q = [row EXCEPT !.qty = n]
  PROVE  /\ q \in QuantRow /\ q.qty = n /\ q.res = row.res
         /\ q.loc = row.loc /\ q.st = row.st /\ q.by = row.by
BY DEF QuantRow

(* What was there is still there, holding at least as much.                 *)
Kept(rows, new) ==
  /\ new \in Seq(QuantRow) /\ DOMAIN rows \subseteq DOMAIN new
  /\ \A s \in DOMAIN rows :
       /\ Same(new[s], rows[s]) /\ new[s].by = rows[s].by /\ new[s].res = rows[s].res
       /\ new[s].qty >= rows[s].qty

Fits(rows, p) == p.row # 0 => p.row \in DOMAIN rows /\ Same(rows[p.row], p)

(* Adding to a row, or creating it.                                         *)
LEMMA RowAdded ==
  ASSUME NEW rows \in Seq(QuantRow), NEW p \in PutSet, Fits(rows, p),
         NEW by \in {"identity", "search"}, NEW new, new = PutInto(rows, p, by)
  PROVE  /\ Kept(rows, new)
         /\ \A s \in DOMAIN rows : s # p.row => new[s] = rows[s]
         /\ \A s \in DOMAIN new : s \notin DOMAIN rows =>
              p.row = 0 /\ s = Len(rows) + 1 /\ Same(new[s], p) /\ new[s].by = by
              /\ new[s].res = 0
         /\ Gains(rows, new, p.loc, p.n)
<1>1. p.loc \in Loc /\ p.st \in QuantStatus /\ p.n \in Nat \ {0} /\ p.row \in Nat
  BY DEF PutSet
<1>2. CASE p.row # 0
  <2> DEFINE q == [rows[p.row] EXCEPT !.qty = @ + p.n]
  <2>1. p.row \in DOMAIN rows /\ rows[p.row].loc = p.loc /\ rows[p.row].st = p.st
    BY <1>2 DEF Fits, Same
  <2>2. /\ rows[p.row] \in QuantRow
        /\ rows[p.row].qty \in Nat /\ rows[p.row].res \in Nat
    BY <2>1, RowFacts
  <2>3. /\ q \in QuantRow /\ q.qty = rows[p.row].qty + p.n /\ q.res = rows[p.row].res
        /\ q.loc = rows[p.row].loc /\ q.st = rows[p.row].st /\ q.by = rows[p.row].by
    <3>1. rows[p.row].qty + p.n \in Nat /\ q = [rows[p.row] EXCEPT !.qty = rows[p.row].qty + p.n]
      BY <1>1, <2>2
    <3> HIDE DEF q
    <3>2. QED
      BY <2>2, <3>1, RowWith
  <2>4. new = [rows EXCEPT ![p.row] = q]
    BY <1>2 DEF PutInto
  <2> HIDE DEF q
  <2>5. /\ new \in Seq(QuantRow) /\ DOMAIN new = DOMAIN rows
        /\ Gains(rows, new, q.loc, (q.qty - q.res) - (rows[p.row].qty - rows[p.row].res))
    BY <2>1, <2>3, <2>4, SpareOfChange
  <2>6. (q.qty - q.res) - (rows[p.row].qty - rows[p.row].res) = p.n
    BY <1>1, <2>2, <2>3
  <2>7. \A s \in DOMAIN rows : IF s = p.row THEN new[s] = q ELSE new[s] = rows[s]
    BY <2>1, <2>4
  <2>8. \A s \in DOMAIN rows :
          /\ Same(new[s], rows[s]) /\ new[s].by = rows[s].by /\ new[s].res = rows[s].res
          /\ new[s].qty >= rows[s].qty
    BY <1>1, <2>2, <2>3, <2>7, RowFacts DEF Same
  <2>9. Gains(rows, new, p.loc, p.n)
    BY <2>1, <2>3, <2>5, <2>6
  <2>10. QED
    BY <2>5, <2>7, <2>8, <2>9 DEF Kept
<1>3. CASE p.row = 0
  <2> DEFINE q == [loc |-> p.loc, st |-> p.st, qty |-> p.n, res |-> 0, by |-> by]
  <2>1. /\ q \in QuantRow /\ q.loc = p.loc /\ q.st = p.st /\ q.qty = p.n /\ q.res = 0
        /\ q.by = by
    BY <1>1 DEF QuantRow
  <2>2. new = Append(rows, q)
    BY <1>3 DEF PutInto
  <2> HIDE DEF q
  <2>3. /\ new \in Seq(QuantRow) /\ Len(new) = Len(rows) + 1 /\ new[Len(new)] = q
        /\ DOMAIN rows \subseteq DOMAIN new
        /\ \A s \in DOMAIN rows : new[s] = rows[s]
        /\ Gains(rows, new, q.loc, q.qty - q.res)
    BY <2>1, <2>2, SpareOfAppend
  <2>4. q.qty - q.res = p.n
    BY <1>1, <2>1
  <2>5. DOMAIN rows = 1..Len(rows) /\ DOMAIN new = 1..Len(new) /\ Len(rows) \in Nat
    BY <2>3, RowFacts
  <2>6. \A s \in DOMAIN new : s \notin DOMAIN rows => s = Len(rows) + 1 /\ new[s] = q
    BY <2>3, <2>5
  <2>7. \A s \in DOMAIN rows : rows[s].qty >= rows[s].qty
    BY RowFacts
  <2>8. Kept(rows, new)
    BY <2>3, <2>7 DEF Kept, Same
  <2>9. QED
    BY <1>3, <2>1, <2>3, <2>4, <2>6, <2>8 DEF Same
<1>4. QED
  BY <1>2, <1>3

(* Taking from a row what is not reserved there.                            *)
LEMMA RowTaken ==
  ASSUME NEW rows \in Seq(QuantRow), NEW r \in Nat, NEW n \in Nat,
         r # 0 => r \in DOMAIN rows /\ rows[r].qty - n >= rows[r].res,
         r = 0 => n = 0,
         NEW new, new = TakenFrom(rows, r, n)
  PROVE  /\ new \in Seq(QuantRow) /\ DOMAIN new = DOMAIN rows
         /\ \A s \in DOMAIN rows :
              /\ Same(new[s], rows[s]) /\ new[s].by = rows[s].by /\ new[s].res = rows[s].res
              /\ s # r => new[s] = rows[s]
              /\ s = r => new[s].qty = rows[s].qty - n
         /\ r # 0 => Gains(rows, new, rows[r].loc, -n)
         /\ r = 0 => new = rows
<1>2. CASE r = 0
  BY <1>2 DEF TakenFrom, Same
<1>3. CASE r # 0
  <2> DEFINE q == [rows[r] EXCEPT !.qty = @ - n]
  <2>1. /\ rows[r] \in QuantRow /\ r \in DOMAIN rows
        /\ rows[r].qty \in Nat /\ rows[r].res \in Nat
    BY <1>3, RowFacts
  <2>2. /\ q \in QuantRow /\ q.qty = rows[r].qty - n /\ q.res = rows[r].res
        /\ q.loc = rows[r].loc /\ q.st = rows[r].st /\ q.by = rows[r].by
    <3>1. rows[r].qty - n \in Nat /\ q = [rows[r] EXCEPT !.qty = rows[r].qty - n]
      BY <1>3, <2>1
    <3> HIDE DEF q
    <3>2. QED
      BY <2>1, <3>1, RowWith
  <2>3. new = [rows EXCEPT ![r] = q]
    BY <1>3 DEF TakenFrom
  <2> HIDE DEF q
  <2>4. /\ new \in Seq(QuantRow) /\ DOMAIN new = DOMAIN rows
        /\ Gains(rows, new, q.loc, (q.qty - q.res) - (rows[r].qty - rows[r].res))
    BY <2>1, <2>2, <2>3, SpareOfChange
  <2>5. (q.qty - q.res) - (rows[r].qty - rows[r].res) = -n
    BY <2>1, <2>2
  <2>7. \A s \in DOMAIN rows : IF s = r THEN new[s] = q ELSE new[s] = rows[s]
    BY <2>1, <2>3
  <2>8. \A s \in DOMAIN rows :
          /\ Same(new[s], rows[s]) /\ new[s].by = rows[s].by /\ new[s].res = rows[s].res
          /\ s # r => new[s] = rows[s]
          /\ s = r => new[s].qty = rows[s].qty - n
    BY <2>2, <2>7 DEF Same
  <2>9. Gains(rows, new, rows[r].loc, -n)
    BY <2>2, <2>4, <2>5
  <2>10. QED
    BY <1>3, <2>4, <2>8, <2>9
<1>4. QED
  BY <1>2, <1>3

-----------------------------------------------------------------------------
(* The sums of the models, as sums of functions.                            *)
UnreservedIn(rows, l) ==
  MapThenSumSet(LAMBDA r : rows[r].qty - rows[r].res, {r \in DOMAIN rows : rows[r].loc = l})
Deltas(M, l) == MapThenSumSet(LAMBDA i : ApplyDelta(M[i], l), DOMAIN M)
Pieces(s)    == MapThenSumSet(LAMBDA j : s[j].n, DOMAIN s)

(* What the model calls unreserved at a location is the sum over all rows   *)
(* of what each has to spare there.                                         *)
LEMMA UnreservedIsSpare ==
  ASSUME NEW rows \in Seq(QuantRow), NEW l
  PROVE  UnreservedIn(rows, l) = Spare(rows, l)
<1> DEFINE R == {r \in DOMAIN rows : rows[r].loc = l}
           f == [r \in DOMAIN rows |-> rows[r].qty - rows[r].res]
           Rec(g) == g = [s \in SUBSET R |-> IF s = {} THEN 0
                            ELSE (rows[First(s)].qty - rows[First(s)].res) + g[s \ {First(s)}]]
<1>1. IsFiniteSet(R)
  BY RowFacts, FS_Subset
<1>2. \A s \in SUBSET R : s # {} => First(s) \in DOMAIN rows
  BY DEF First
<1>3. \A g : Rec(g) <=> Sums(g, f, R)
  BY <1>2 DEF Sums
<1>4. UnreservedIn(rows, l) = (CHOOSE g : Rec(g))[R]
  BY DEF UnreservedIn, MapThenSumSet, MapThenFoldSet, First
<1>5. \A r \in R : f[r] \in Int /\ SpareIn(rows, l)[r] = f[r]
  BY RowFacts DEF SpareIn
<1>6. \A r \in DOMAIN rows \ R : SpareIn(rows, l)[r] = 0
  BY DEF SpareIn
<1>7. R \subseteq DOMAIN rows /\ IsFiniteSet(DOMAIN rows)
  BY RowFacts
<1>8. \E g : Rec(g)
  BY <1>1, <1>3, TableExists
<1> HIDE DEF Rec, f, R
<1>9. Sums(CHOOSE g : Rec(g), f, R)
  BY <1>3, <1>8
<1>10. (CHOOSE g : Rec(g))[R] = Table(f, R)[R]
  BY <1>1, <1>9, TableExists, TablesAgree
<1>13. SumOf(f, R) = Table(f, R)[R]
  BY <1>1, SumIsTable
<1>11. SumOf(SpareIn(rows, l), DOMAIN rows) = SumOf(f, R)
  BY <1>5, <1>6, <1>7, SumWithin
<1>12. QED
  BY <1>4, <1>10, <1>11, <1>13 DEF Spare

(* What a location is said to have after one movement, or after two.        *)
LEMMA DeltaSum ==
  ASSUME NEW M, IsFiniteSet(DOMAIN M), NEW l
  PROVE  Deltas(M, l) = SumOf([i \in DOMAIN M |-> ApplyDelta(M[i], l)], DOMAIN M)
<1> DEFINE R == DOMAIN M
           f == [i \in DOMAIN M |-> ApplyDelta(M[i], l)]
           Rec(g) == g = [s \in SUBSET R |-> IF s = {} THEN 0
                            ELSE ApplyDelta(M[First(s)], l) + g[s \ {First(s)}]]
<1>2. \A s \in SUBSET R : s # {} => First(s) \in DOMAIN M
  BY DEF First
<1>3. \A g : Rec(g) <=> Sums(g, f, R)
  BY <1>2 DEF Sums
<1>4. Deltas(M, l) = (CHOOSE g : Rec(g))[R]
  BY DEF Deltas, MapThenSumSet, MapThenFoldSet, First
<1>5. \E g : Rec(g)
  BY <1>3, TableExists
<1> HIDE DEF Rec, f
<1>6. Sums(CHOOSE g : Rec(g), f, R)
  BY <1>3, <1>5
<1>7. (CHOOSE g : Rec(g))[R] = SumOf(f, R)
  BY <1>6, TableExists, TablesAgree, SumIsTable
<1>8. QED
  BY <1>4, <1>7 DEF f

(* The sum over a pair, and over one.                                       *)
LEMMA SumOfOne ==
  ASSUME NEW f, f[1] \in Int PROVE SumOf(f, {1}) = f[1]
<1>1. IsFiniteSet({1}) /\ {1} \ {1} = {} /\ \A x \in {1} : f[x] \in Int
  BY FS_Singleton
<1>2. SumOf(f, {1}) = f[1] + SumOf(f, {1} \ {1})
  BY <1>1, SumAdd
<1>3. SumOf(f, {}) = 0
  BY SumEmpty
<1>4. SumOf(f, {1}) = f[1] + SumOf(f, {})
  BY <1>1, <1>2
<1>5. QED
  BY <1>3, <1>4

(* The sum over a pair.                                                     *)
LEMMA SumOfTwo ==
  ASSUME NEW f, f[1] \in Int, f[2] \in Int PROVE SumOf(f, {1, 2}) = f[1] + f[2]
<1>1. IsFiniteSet({1, 2}) /\ {1, 2} \ {2} = {1}
  <2>1. {1, 2} = {1} \cup {2} /\ {1, 2} \ {2} = {1}
    OBVIOUS
  <2>2. IsFiniteSet({1} \cup {2})
    BY FS_Singleton, FS_AddElement
  <2>3. QED
    BY <2>1, <2>2
<1>2. \A x \in {1, 2} : f[x] \in Int
  OBVIOUS
<1>3. SumOf(f, {1, 2}) = f[2] + SumOf(f, {1, 2} \ {2})
  BY <1>1, <1>2, SumAdd
<1>4. SumOf(f, {1}) = f[1]
  BY SumOfOne
<1>5. SumOf(f, {1, 2}) = f[2] + SumOf(f, {1})
  BY <1>1, <1>3
<1>6. QED
  BY <1>4, <1>5

(* The pieces a receipt has put somewhere.                                  *)
LEMMA PiecesSum ==
  ASSUME NEW s, IsFiniteSet(DOMAIN s)
  PROVE  Pieces(s) = SumOf([j \in DOMAIN s |-> s[j].n], DOMAIN s)
<1> DEFINE R == DOMAIN s
           f == [j \in DOMAIN s |-> s[j].n]
           Rec(g) == g = [u \in SUBSET R |-> IF u = {} THEN 0
                            ELSE s[First(u)].n + g[u \ {First(u)}]]
<1>2. \A u \in SUBSET R : u # {} => First(u) \in DOMAIN s
  BY DEF First
<1>3. \A g : Rec(g) <=> Sums(g, f, R)
  BY <1>2 DEF Sums
<1>4. Pieces(s) = (CHOOSE g : Rec(g))[R]
  BY DEF Pieces, MapThenSumSet, MapThenFoldSet, First
<1>5. \E g : Rec(g)
  BY <1>3, TableExists
<1> HIDE DEF Rec, f
<1>6. Sums(CHOOSE g : Rec(g), f, R)
  BY <1>3, <1>5
<1>7. (CHOOSE g : Rec(g))[R] = SumOf(f, R)
  BY <1>6, TableExists, TablesAgree, SumIsTable
<1>8. QED
  BY <1>4, <1>7 DEF f

(* The rows a request writes, one target after the other.                   *)
Filled(rows, into, by) == FoldLeft(LAMBDA s, p : PutInto(s, p, by), rows, into)

Fills(g, rows, into, by) ==
  g = [s \in SUBSET DOMAIN into |->
         IF s = {} THEN rows ELSE PutInto(g[s \ {Max(s)}], into[Max(s)], by)]

(* The greatest of one and of two.                                          *)
LEMMA Maxima == Max({1}) = 1 /\ Max({2}) = 2 /\ Max({1, 2}) = 2
<1>1. ASSUME NEW a \in Int PROVE Max({a}) = a
  BY DEF Max
<1> DEFINE P(x) == x \in {1, 2} /\ \A y \in {1, 2} : x >= y
<1>2. \A x : P(x) <=> x = 2
  OBVIOUS
<1>3. Max({1, 2}) = CHOOSE x : P(x)
  BY DEF Max
<1>4. QED
  BY <1>1, <1>2, <1>3

(* Writing targets one after the other, as a table over sets of targets.    *)
LEMMA FilledIsTable ==
  ASSUME NEW rows, NEW into, NEW by
  PROVE  Filled(rows, into, by) = (CHOOSE g : Fills(g, rows, into, by))[DOMAIN into]
BY DEF Filled, FoldLeft, MapThenFoldSet, Fills

(* With one target there is one write,                                      *)
LEMMA FilledOne ==
  ASSUME NEW rows, NEW into, NEW by, DOMAIN into = {1}
  PROVE  Filled(rows, into, by) = PutInto(rows, into[1], by)
<1> DEFINE G == [s \in SUBSET DOMAIN into |-> IF s = {} THEN rows ELSE PutInto(rows, into[1], by)]
<1>1. \A s \in SUBSET {1} : s = {} \/ s = {1}
  OBVIOUS
<1>2. {1} # {} /\ {1} \ {1} = {} /\ {} \in SUBSET {1} /\ {1} \in SUBSET {1}
  OBVIOUS
<1>3. G[{}] = rows /\ G[{1}] = PutInto(rows, into[1], by) /\ DOMAIN G = SUBSET DOMAIN into
  BY <1>2
<1>4. G = [s \in DOMAIN G |-> G[s]]
  OBVIOUS
<1> HIDE DEF G
<1>5. \A s \in SUBSET DOMAIN into :
         G[s] = IF s = {} THEN rows ELSE PutInto(G[s \ {Max(s)}], into[Max(s)], by)
  <2>1. SUFFICES ASSUME NEW s \in SUBSET DOMAIN into, s # {}
                 PROVE  G[s] = PutInto(G[s \ {Max(s)}], into[Max(s)], by)
    BY <1>3
  <2>2. s = {1}
    BY <1>1, <2>1
  <2>3. QED
    BY <2>2, <1>2, <1>3, Maxima
<1>6. Fills(G, rows, into, by)
  BY <1>3, <1>4, <1>5 DEF Fills
<1> DEFINE g == CHOOSE g : Fills(g, rows, into, by)
<1>7. Fills(g, rows, into, by)
  BY <1>6
<1> HIDE DEF g
<1>8. g[{}] = rows /\ g[{1}] = PutInto(g[{1} \ {1}], into[1], by)
  BY <1>2, <1>7, Maxima DEF Fills
<1>9. QED
  BY <1>2, <1>8, FilledIsTable DEF g

(* and with two the second is written into what the first left.             *)
LEMMA FilledTwo ==
  ASSUME NEW rows, NEW into, NEW by, DOMAIN into = {1, 2}
  PROVE  Filled(rows, into, by) = PutInto(PutInto(rows, into[1], by), into[2], by)
<1> DEFINE a == PutInto(rows, into[1], by)
           b == PutInto(rows, into[2], by)
           d == PutInto(a, into[2], by)
           G == [s \in SUBSET DOMAIN into |->
                   IF s = {} THEN rows ELSE IF s = {1} THEN a ELSE IF s = {2} THEN b ELSE d]
<1>1. \A s \in SUBSET {1, 2} : s = {} \/ s = {1} \/ s = {2} \/ s = {1, 2}
  OBVIOUS
<1>2. /\ {1} # {} /\ {2} # {} /\ {1, 2} # {} /\ {1} # {2} /\ {1, 2} # {1} /\ {1, 2} # {2}
      /\ {1} \ {1} = {} /\ {2} \ {2} = {} /\ {1, 2} \ {2} = {1}
      /\ {} \in SUBSET {1, 2} /\ {1} \in SUBSET {1, 2} /\ {2} \in SUBSET {1, 2}
      /\ {1, 2} \in SUBSET {1, 2}
  OBVIOUS
<1> HIDE DEF a, b, d
<1>3. G[{}] = rows /\ G[{1}] = a /\ G[{2}] = b /\ G[{1, 2}] = d /\ DOMAIN G = SUBSET DOMAIN into
  BY <1>2
<1>4. G = [s \in DOMAIN G |-> G[s]]
  OBVIOUS
<1> HIDE DEF G
<1>5. \A s \in SUBSET DOMAIN into :
         G[s] = IF s = {} THEN rows ELSE PutInto(G[s \ {Max(s)}], into[Max(s)], by)
  <2>1. SUFFICES ASSUME NEW s \in SUBSET DOMAIN into, s # {}
                 PROVE  G[s] = PutInto(G[s \ {Max(s)}], into[Max(s)], by)
    BY <1>3
  <2>2. CASE s = {1}
    BY <2>2, <1>2, <1>3, Maxima DEF a
  <2>3. CASE s = {2}
    BY <2>3, <1>2, <1>3, Maxima DEF b
  <2>4. CASE s = {1, 2}
    BY <2>4, <1>2, <1>3, Maxima DEF d
  <2>5. QED
    BY <1>1, <2>1, <2>2, <2>3, <2>4
<1>6. Fills(G, rows, into, by)
  BY <1>3, <1>4, <1>5 DEF Fills
<1> DEFINE g == CHOOSE g : Fills(g, rows, into, by)
<1>7. Fills(g, rows, into, by)
  BY <1>6
<1> HIDE DEF g
<1>8. g[{}] = rows /\ g[{1}] = PutInto(g[{1} \ {1}], into[1], by)
      /\ g[{1, 2}] = PutInto(g[{1, 2} \ {2}], into[2], by)
  BY <1>2, <1>7, Maxima DEF Fills
<1>9. QED
  BY <1>2, <1>8, FilledIsTable DEF g

-----------------------------------------------------------------------------
(* A request at its commit.                                                 *)
HowMade(t) == IF t.op = "replenish" THEN "search" ELSE "identity"
NewRows(t, rows) == Filled(TakenFrom(rows, t.row, t.n), t.into, HowMade(t))

(* What a commit does to the rows of others: nothing to those it has not    *)
(* locked, and new ones only of identities it has locked.                   *)
Effect(t, rows, new) ==
  /\ new \in Seq(QuantRow) /\ DOMAIN rows \subseteq DOMAIN new
  /\ \A s \in DOMAIN rows :
       /\ Same(new[s], rows[s]) /\ new[s].by = rows[s].by
       /\ s \notin LockedBy(t) => new[s] = rows[s]
  /\ \A s \in DOMAIN new : s \notin DOMAIN rows =>
       \/ new[s].by = "search"
       \/ t.op # "replenish" /\ \E i \in DOMAIN t.into : Same(new[s], t.into[i])

(* The fields of a transaction.                                             *)
LEMMA TxnFacts ==
  ASSUME NEW t, Shaped(t)
  PROVE  /\ t.row \in Nat /\ t.n \in Int /\ t.saw \in Nat /\ t.doc \in Int /\ t.op \in StockOp
         /\ t.pc \in {None, "source", "identity", "commit"}
         /\ t.into \in Seq(PutSet) /\ t.puts \in Seq(PutSet)
         /\ Len(t.into) \in Nat /\ DOMAIN t.into = 1..Len(t.into)
         /\ Len(t.puts) \in Nat /\ DOMAIN t.puts = 1..Len(t.puts)
         /\ \A i \in DOMAIN t.into : t.into[i] \in PutSet
         /\ \A i \in DOMAIN t.puts : t.puts[i] \in PutSet
         /\ t.puts = <<>> => Len(t.puts) = 0
         /\ t.into = <<>> => Len(t.into) = 0
<1>1. t \in TxnRec
  BY DEF Shaped
<1>2. /\ t.row \in Nat /\ t.n \in Int /\ t.saw \in Nat /\ t.doc \in Int /\ t.op \in StockOp
      /\ t.pc \in {None, "source", "identity", "commit"}
      /\ t.into \in Seq(PutSet) /\ t.puts \in Seq(PutSet)
  BY <1>1 DEF TxnRec
<1>3. /\ Len(t.into) \in Nat /\ DOMAIN t.into = 1..Len(t.into)
      /\ Len(t.puts) \in Nat /\ DOMAIN t.puts = 1..Len(t.puts)
      /\ \A i \in DOMAIN t.into : t.into[i] \in PutSet
      /\ \A i \in DOMAIN t.puts : t.puts[i] \in PutSet
  BY <1>2, LenProperties
<1>4. (t.puts = <<>> => Len(t.puts) = 0) /\ (t.into = <<>> => Len(t.into) = 0)
  OBVIOUS
<1>5. QED
  BY <1>2, <1>3, <1>4

(* At its commit a request that moves goods has found one target, or the    *)
(* two of a receipt.                                                        *)
LEMMA AtCommit ==
  ASSUME NEW t, Shaped(t), t.pc = "commit", t.op \in Transfers \cup Arrivals
  PROVE  /\ Len(t.into) = 1 \/ Len(t.into) = 2
         /\ Len(t.into) = 2 => t.row = 0 /\ t.op = "inbound" /\ ~ Same(t.into[1], t.into[2])
         /\ t.n \in Nat /\ (t.row = 0 => t.n = 0)
         /\ t.row = 0 <=> t.op \in Arrivals
         /\ t.op \in Transfers => t.into[1].n = t.n /\ t.n > 0
<1>1. Goals(t) = Len(t.into) /\ t.puts = <<>>
  <2>1. t.puts = <<>>
    BY DEF Shaped
  <2>2. Len(t.puts) = 0 /\ Len(t.into) \in Nat
    BY <2>1, TxnFacts
  <2>3. QED
    BY <2>1, <2>2 DEF Goals
<1>2. \A i \in 1..Len(t.into) : Goal(t, i) = t.into[i]
  BY TxnFacts DEF Goal
<1>3. CASE t.op \in Transfers
  <2>1. t.row # 0 /\ Goals(t) = 1 /\ t.n > 0 /\ Goal(t, 1).n = t.n /\ t.op \notin Arrivals
    BY <1>3 DEF Shaped, Transfers, Arrivals
  <2>2. QED
    BY <1>1, <1>2, <1>3, <2>1, TxnFacts
<1>4. CASE t.op \in Arrivals
  <2>1. /\ t.row = 0 /\ t.n = 0 /\ (Goals(t) = 1 \/ (t.op = "inbound" /\ Goals(t) = 2))
        /\ \A i, j \in 1..Goals(t) : i # j => ~ Same(Goal(t, i), Goal(t, j))
        /\ t.op \notin Transfers
    BY <1>4 DEF Shaped, Transfers, Arrivals
  <2>2. Len(t.into) = 2 => ~ Same(t.into[1], t.into[2])
    BY <1>1, <1>2, <2>1
  <2>3. QED
    BY <1>1, <1>4, <2>1, <2>2, TxnFacts
<1>5. QED
  BY <1>3, <1>4

(* What the targets of a request bring a location.                          *)
Brought(t, l) ==
  IF Len(t.into) = 1 THEN At(l, t.into[1].loc, t.into[1].n)
  ELSE At(l, t.into[1].loc, t.into[1].n) + At(l, t.into[2].loc, t.into[2].n)
Sent(t, rows, l) == IF t.row = 0 THEN 0 ELSE At(l, rows[t.row].loc, t.n)

(* The rows after a commit with one target.                                 *)
LEMMA OneTarget ==
  ASSUME NEW rows, RowsGood(rows), NEW t, Good(t, rows), t.pc = "commit",
         t.op \in Transfers \cup Arrivals, Len(t.into) = 1,
         NEW new, new = NewRows(t, rows)
  PROVE  /\ RowsGood(new) /\ Effect(t, rows, new)
         /\ \A l : Spare(new, l) = Spare(rows, l) - Sent(t, rows, l) + Brought(t, l)
<1> DEFINE mid == TakenFrom(rows, t.row, t.n)
           p   == t.into[1]
           by  == HowMade(t)
<1>1. /\ rows \in Seq(QuantRow) /\ Shaped(t) /\ Placed(t, rows) /\ Covered(t, rows)
      /\ \A r \in DOMAIN rows : rows[r].res <= rows[r].qty
      /\ \A r, s \in DOMAIN rows : r # s /\ Same(rows[r], rows[s])
                               => rows[r].by = "search" \/ rows[s].by = "search"
  BY DEF RowsGood, Good
<1>2. /\ t.row \in Nat /\ t.n \in Nat /\ (t.row = 0 => t.n = 0) /\ DOMAIN t.into = {1}
      /\ p \in PutSet /\ 1 \in DOMAIN t.into
      /\ t.row = 0 <=> t.op \in Arrivals
  BY <1>1, AtCommit, TxnFacts
<1>3. t.row # 0 => t.row \in DOMAIN rows /\ rows[t.row].qty - t.n >= rows[t.row].res
  BY <1>1, <1>2, RowFacts DEF Placed, Covered
<1>4. by \in {"identity", "search"}
  BY DEF HowMade
<1>5. new = PutInto(mid, p, by)
  BY <1>2, FilledOne DEF NewRows
<1>6. IF p.row # 0 THEN p.row \in DOMAIN rows /\ Same(rows[p.row], p)
      ELSE t.op # "replenish" => \A r \in DOMAIN rows : Same(rows[r], p) => rows[r].by = "search"
  BY <1>1, <1>2 DEF Placed
<1>7. LockedBy(t) = ({t.row} \cup {p.row}) \ {0}
  BY <1>2 DEF LockedBy
<1> HIDE DEF p, by
<1>8. /\ mid \in Seq(QuantRow) /\ DOMAIN mid = DOMAIN rows
      /\ \A s \in DOMAIN rows :
           /\ Same(mid[s], rows[s]) /\ mid[s].by = rows[s].by /\ mid[s].res = rows[s].res
           /\ s # t.row => mid[s] = rows[s]
           /\ s = t.row => mid[s].qty = rows[s].qty - t.n
      /\ t.row # 0 => Gains(rows, mid, rows[t.row].loc, -t.n)
      /\ t.row = 0 => mid = rows
  BY <1>1, <1>2, <1>3, RowTaken
<1> HIDE DEF mid
<1>9. Fits(mid, p)
  BY <1>6, <1>8 DEF Fits, Same
<1>10. /\ Kept(mid, new)
       /\ \A s \in DOMAIN mid : s # p.row => new[s] = mid[s]
       /\ \A s \in DOMAIN new : s \notin DOMAIN mid =>
            p.row = 0 /\ s = Len(mid) + 1 /\ Same(new[s], p) /\ new[s].by = by
            /\ new[s].res = 0
       /\ Gains(mid, new, p.loc, p.n)
  BY <1>2, <1>4, <1>5, <1>8, <1>9, RowAdded
<1>11. new \in Seq(QuantRow) /\ DOMAIN rows \subseteq DOMAIN new
  BY <1>8, <1>10 DEF Kept
<1>12. \A s \in DOMAIN rows : Same(new[s], rows[s]) /\ new[s].by = rows[s].by
  BY <1>8, <1>10 DEF Kept, Same
<1>13. \A s \in DOMAIN rows : s \notin LockedBy(t) => new[s] = rows[s]
  <2> SUFFICES ASSUME NEW s \in DOMAIN rows, s \notin LockedBy(t) PROVE new[s] = rows[s]
    OBVIOUS
  <2>1. s # 0
    BY <1>1, RowFacts
  <2>2. s # t.row /\ s # p.row
    BY <2>1, <1>7
  <2>3. QED
    BY <2>2, <1>8, <1>10
<1>14. \A s \in DOMAIN new : s \notin DOMAIN rows =>
         \/ new[s].by = "search"
         \/ t.op # "replenish" /\ Same(new[s], p)
  BY <1>8, <1>10 DEF by, HowMade
<1>15. Effect(t, rows, new)
  BY <1>2, <1>11, <1>12, <1>13, <1>14 DEF Effect, p
<1>16. \A r \in DOMAIN new : new[r].res <= new[r].qty
  <2> SUFFICES ASSUME NEW r \in DOMAIN new PROVE new[r].res <= new[r].qty
    OBVIOUS
  <2>1. new[r].qty \in Nat /\ new[r].res \in Nat
    BY <1>11, RowFacts
  <2>2. CASE r \notin DOMAIN rows
    BY <2>1, <2>2, <1>8, <1>10
  <2>3. CASE r \in DOMAIN rows
    <3>1. rows[r].qty \in Nat /\ rows[r].res \in Nat /\ rows[r].res <= rows[r].qty /\ mid[r].qty \in Nat
      BY <2>3, <1>1, <1>8, RowFacts
    <3>2. mid[r].res = rows[r].res /\ mid[r].res <= mid[r].qty
      BY <2>3, <3>1, <1>2, <1>3, <1>8
    <3>3. new[r].res = mid[r].res /\ new[r].qty >= mid[r].qty
      BY <2>3, <1>8, <1>10 DEF Kept
    <3>4. QED
      BY <2>1, <3>1, <3>2, <3>3
  <2>4. QED
    BY <2>2, <2>3
<1>17. ASSUME NEW r \in DOMAIN new, NEW s \in DOMAIN new, r # s, Same(new[r], new[s])
       PROVE  new[r].by = "search" \/ new[s].by = "search"
  <2>1. CASE r \in DOMAIN rows /\ s \in DOMAIN rows
    <3>1. Same(rows[r], rows[s]) /\ new[r].by = rows[r].by /\ new[s].by = rows[s].by
      BY <2>1, <1>12, <1>17 DEF Same
    <3>2. QED
      BY <2>1, <3>1, <1>1, <1>17
  <2>2. CASE r \notin DOMAIN rows /\ s \notin DOMAIN rows
    BY <2>2, <1>8, <1>10, <1>17
  <2>3. ASSUME NEW a \in DOMAIN new, NEW b \in DOMAIN new, a \notin DOMAIN rows, b \in DOMAIN rows,
               Same(new[a], new[b])
        PROVE  new[a].by = "search" \/ new[b].by = "search"
    <3>1. p.row = 0 /\ Same(new[a], p) /\ new[a].by = by
      BY <2>3, <1>8, <1>10
    <3>2. Same(rows[b], p) /\ new[b].by = rows[b].by
      BY <2>3, <3>1, <1>12 DEF Same
    <3>3. CASE t.op = "replenish"
      BY <3>1, <3>3 DEF by, HowMade
    <3>4. CASE t.op # "replenish"
      BY <2>3, <3>1, <3>2, <3>4, <1>6
    <3>5. QED
      BY <3>3, <3>4
  <2>4. Same(new[s], new[r])
    BY <1>17 DEF Same
  <2>5. QED
    BY <2>1, <2>2, <2>3, <2>4, <1>17
<1>18. RowsGood(new)
  BY <1>11, <1>16, <1>17 DEF RowsGood
<1>19. ASSUME NEW l PROVE Spare(new, l) = Spare(rows, l) - Sent(t, rows, l) + Brought(t, l)
  <2>1. Spare(new, l) = Spare(mid, l) + At(l, p.loc, p.n)
    BY <1>10 DEF Gains
  <2>2. Spare(rows, l) \in Int /\ Spare(mid, l) \in Int
    BY <1>1, <1>8, RowFacts, SumInt DEF Spare
  <2>3. Brought(t, l) = At(l, p.loc, p.n)
    BY DEF Brought, p
  <2>4. p.n \in Nat
    BY <1>2 DEF PutSet
  <2>5. CASE t.row = 0
    BY <2>1, <2>2, <2>3, <2>4, <2>5, <1>8 DEF Sent, At
  <2>6. CASE t.row # 0
    <3>1. Spare(mid, l) = Spare(rows, l) + At(l, rows[t.row].loc, -t.n)
      BY <2>6, <1>8 DEF Gains
    <3>2. Sent(t, rows, l) = At(l, rows[t.row].loc, t.n)
      BY <2>6 DEF Sent
    <3>3. QED
      BY <2>1, <2>2, <2>3, <2>4, <3>1, <3>2, <1>2 DEF At
  <2>7. QED
    BY <2>5, <2>6
<1>20. QED
  BY <1>15, <1>18, <1>19

(* The rows after a receipt with two targets.                               *)
LEMMA TwoTargets ==
  ASSUME NEW rows, RowsGood(rows), NEW t, Good(t, rows), t.pc = "commit",
         t.op \in Transfers \cup Arrivals, Len(t.into) = 2,
         NEW new, new = NewRows(t, rows)
  PROVE  /\ RowsGood(new) /\ Effect(t, rows, new)
         /\ \A l : Spare(new, l) = Spare(rows, l) - Sent(t, rows, l) + Brought(t, l)
<1> DEFINE p  == t.into[1]
           q  == t.into[2]
           by == "identity"
           mid == PutInto(rows, p, by)
<1>1. /\ rows \in Seq(QuantRow) /\ Shaped(t) /\ Placed(t, rows)
      /\ \A r \in DOMAIN rows : rows[r].res <= rows[r].qty
      /\ \A r, s \in DOMAIN rows : r # s /\ Same(rows[r], rows[s])
                               => rows[r].by = "search" \/ rows[s].by = "search"
  BY DEF RowsGood, Good
<1>2. /\ t.row = 0 /\ t.op = "inbound" /\ ~ Same(p, q)
      /\ p \in PutSet /\ q \in PutSet /\ DOMAIN t.into = {1, 2}
  <2>1. /\ t.row = 0 /\ t.op = "inbound" /\ ~ Same(p, q)
    BY <1>1, AtCommit
  <2>2. DOMAIN t.into = 1..2 /\ \A i \in DOMAIN t.into : t.into[i] \in PutSet
    BY <1>1, TxnFacts
  <2>3. QED
    BY <2>1, <2>2
<1>3. /\ IF p.row # 0 THEN p.row \in DOMAIN rows /\ Same(rows[p.row], p)
         ELSE \A r \in DOMAIN rows : Same(rows[r], p) => rows[r].by = "search"
      /\ IF q.row # 0 THEN q.row \in DOMAIN rows /\ Same(rows[q.row], q)
         ELSE \A r \in DOMAIN rows : Same(rows[r], q) => rows[r].by = "search"
  BY <1>1, <1>2 DEF Placed
<1>4. new = PutInto(mid, q, by)
  BY <1>2, FilledTwo DEF NewRows, TakenFrom, HowMade
<1>5. LockedBy(t) = ({p.row} \cup {q.row}) \ {0}
  BY <1>2 DEF LockedBy
<1>6. \A l : Brought(t, l) = At(l, p.loc, p.n) + At(l, q.loc, q.n) /\ Sent(t, rows, l) = 0
  BY <1>2 DEF Brought, Sent
<1> HIDE DEF p, q, mid
<1>7. Fits(rows, p)
  BY <1>3 DEF Fits
<1>8. /\ Kept(rows, mid)
      /\ \A s \in DOMAIN rows : s # p.row => mid[s] = rows[s]
      /\ \A s \in DOMAIN mid : s \notin DOMAIN rows =>
           p.row = 0 /\ s = Len(rows) + 1 /\ Same(mid[s], p) /\ mid[s].by = by
           /\ mid[s].res = 0
      /\ Gains(rows, mid, p.loc, p.n)
  BY <1>1, <1>2, <1>7, RowAdded DEF mid
<1>9. /\ mid \in Seq(QuantRow) /\ DOMAIN rows \subseteq DOMAIN mid
      /\ \A s \in DOMAIN rows :
           /\ Same(mid[s], rows[s]) /\ mid[s].by = rows[s].by /\ mid[s].res = rows[s].res
           /\ mid[s].qty >= rows[s].qty
  BY <1>8 DEF Kept
<1>10. Fits(mid, q)
  BY <1>3, <1>9 DEF Fits, Same
<1>11. /\ Kept(mid, new)
       /\ \A s \in DOMAIN mid : s # q.row => new[s] = mid[s]
       /\ \A s \in DOMAIN new : s \notin DOMAIN mid =>
            q.row = 0 /\ s = Len(mid) + 1 /\ Same(new[s], q) /\ new[s].by = by
            /\ new[s].res = 0
       /\ Gains(mid, new, q.loc, q.n)
  BY <1>2, <1>4, <1>9, <1>10, RowAdded
<1>12. /\ new \in Seq(QuantRow) /\ DOMAIN mid \subseteq DOMAIN new
       /\ \A s \in DOMAIN mid :
            /\ Same(new[s], mid[s]) /\ new[s].by = mid[s].by /\ new[s].res = mid[s].res
            /\ new[s].qty >= mid[s].qty
  BY <1>11 DEF Kept
<1>13. /\ DOMAIN rows \subseteq DOMAIN new
       /\ \A s \in DOMAIN rows : Same(new[s], rows[s]) /\ new[s].by = rows[s].by
  BY <1>9, <1>12 DEF Same
<1>14. \A s \in DOMAIN rows : s \notin LockedBy(t) => new[s] = rows[s]
  <2> SUFFICES ASSUME NEW s \in DOMAIN rows, s \notin LockedBy(t) PROVE new[s] = rows[s]
    OBVIOUS
  <2>1. s # 0
    BY <1>1, RowFacts
  <2>2. s # p.row /\ s # q.row
    BY <2>1, <1>5
  <2>3. QED
    BY <2>2, <1>8, <1>9, <1>11
<1>15. \A s \in DOMAIN new : s \notin DOMAIN rows =>
         \/ s \in DOMAIN mid /\ p.row = 0 /\ Same(new[s], p) /\ new[s].by = by
         \/ s \notin DOMAIN mid /\ q.row = 0 /\ Same(new[s], q) /\ new[s].by = by
  BY <1>8, <1>11, <1>12 DEF Same
<1>16. Effect(t, rows, new)
  BY <1>2, <1>12, <1>13, <1>14, <1>15 DEF Effect, p, q
<1>17. \A r \in DOMAIN new : new[r].res <= new[r].qty
  <2> SUFFICES ASSUME NEW r \in DOMAIN new PROVE new[r].res <= new[r].qty
    OBVIOUS
  <2>1. new[r].qty \in Nat /\ new[r].res \in Nat
    BY <1>12, RowFacts
  <2>2. ASSUME r \in DOMAIN mid PROVE mid[r].res <= mid[r].qty /\ mid[r].qty \in Nat /\ mid[r].res \in Nat
    <3>1. mid[r].qty \in Nat /\ mid[r].res \in Nat
      BY <2>2, <1>9, RowFacts
    <3>2. CASE r \in DOMAIN rows
      <4>1. rows[r].qty \in Nat /\ rows[r].res \in Nat /\ rows[r].res <= rows[r].qty
        BY <3>2, <1>1, RowFacts
      <4>2. mid[r].res = rows[r].res /\ mid[r].qty >= rows[r].qty
        BY <3>2, <1>9
      <4>3. QED
        BY <3>1, <4>1, <4>2
    <3>3. CASE r \notin DOMAIN rows
      BY <2>2, <3>1, <3>3, <1>8
    <3>4. QED
      BY <3>2, <3>3
  <2>3. CASE r \in DOMAIN mid
    <3>1. new[r].res = mid[r].res /\ new[r].qty >= mid[r].qty
      BY <2>3, <1>12
    <3>2. QED
      BY <2>1, <2>2, <2>3, <3>1
  <2>4. CASE r \notin DOMAIN mid
    BY <2>1, <2>4, <1>11
  <2>5. QED
    BY <2>3, <2>4
<1>18. ASSUME NEW r \in DOMAIN new, NEW s \in DOMAIN new, r # s, Same(new[r], new[s])
       PROVE  new[r].by = "search" \/ new[s].by = "search"
  <2>1. CASE r \in DOMAIN rows /\ s \in DOMAIN rows
    <3>1. Same(rows[r], rows[s]) /\ new[r].by = rows[r].by /\ new[s].by = rows[s].by
      BY <2>1, <1>13, <1>18 DEF Same
    <3>2. QED
      BY <2>1, <3>1, <1>1, <1>18
  <2>2. CASE r \notin DOMAIN rows /\ s \notin DOMAIN rows
    <3>1. ~ (r \in DOMAIN mid /\ s \in DOMAIN mid) /\ ~ (r \notin DOMAIN mid /\ s \notin DOMAIN mid)
      BY <2>2, <1>8, <1>11, <1>18
    <3>2. Same(p, q)
      BY <2>2, <3>1, <1>15, <1>18 DEF Same
    <3>3. QED
      BY <3>2, <1>2 DEF p, q
  <2>3. ASSUME NEW a \in DOMAIN new, NEW b \in DOMAIN new, a \notin DOMAIN rows, b \in DOMAIN rows,
               Same(new[a], new[b])
        PROVE  new[a].by = "search" \/ new[b].by = "search"
    <3>1. /\ rows[b].by = new[b].by
          /\ \/ p.row = 0 /\ Same(rows[b], p)
             \/ q.row = 0 /\ Same(rows[b], q)
      BY <2>3, <1>13, <1>15 DEF Same
    <3>2. QED
      BY <2>3, <3>1, <1>3
  <2>4. Same(new[s], new[r])
    BY <1>18 DEF Same
  <2>5. QED
    BY <2>1, <2>2, <2>3, <2>4, <1>18
<1>19. RowsGood(new)
  BY <1>12, <1>17, <1>18 DEF RowsGood
<1>20. ASSUME NEW l PROVE Spare(new, l) = Spare(rows, l) - Sent(t, rows, l) + Brought(t, l)
  <2>1. Spare(new, l) = Spare(mid, l) + At(l, q.loc, q.n)
    BY <1>11 DEF Gains
  <2>2. Spare(mid, l) = Spare(rows, l) + At(l, p.loc, p.n)
    BY <1>8 DEF Gains
  <2>3. Spare(rows, l) \in Int
    BY <1>1, RowFacts, SumInt DEF Spare
  <2>4. p.n \in Nat /\ q.n \in Nat
    BY <1>2 DEF PutSet, p, q
  <2>5. At(l, p.loc, p.n) \in Int /\ At(l, q.loc, q.n) \in Int
    BY <2>4 DEF At
  <2>6. QED
    BY <2>1, <2>2, <2>3, <2>5, <1>6
<1>21. QED
  BY <1>16, <1>19, <1>20

(* A request stays as good as it was while nobody touches what it has       *)
(* locked.                                                                  *)
Spares(u, rows, new) ==
  /\ new \in Seq(QuantRow) /\ DOMAIN rows \subseteq DOMAIN new
  /\ \A s \in DOMAIN rows : Same(new[s], rows[s]) /\ new[s].by = rows[s].by
  /\ \A s \in DOMAIN rows : s \in LockedBy(u) => new[s] = rows[s]
  /\ u.op # "replenish" =>
       \A s \in DOMAIN new : s \notin DOMAIN rows =>
         new[s].by = "search" \/ \A i \in DOMAIN u.into : ~ Same(new[s], u.into[i])

(* A transaction in good order stays so when the rows it counts on are      *)
(* spared.                                                                  *)
LEMMA StaysGood ==
  ASSUME NEW rows \in Seq(QuantRow), NEW u, Good(u, rows), NEW new, Spares(u, rows, new)
  PROVE  Good(u, new)
<1>1. Shaped(u) /\ Placed(u, rows) /\ Covered(u, rows)
  BY DEF Good
<1>2. u.row \in Nat /\ u.row <= Len(rows)
  BY <1>1, TxnFacts DEF Placed
<1>3. DOMAIN rows = 1..Len(rows) /\ DOMAIN new = 1..Len(new) /\ Len(rows) \in Nat /\ Len(new) \in Nat
  BY RowFacts DEF Spares
<1>4. Len(rows) <= Len(new)
  BY <1>3 DEF Spares
<1>5. Placed(u, new)
  <2>1. u.row <= Len(new)
    BY <1>2, <1>3, <1>4
  <2>2. ASSUME NEW i \in DOMAIN u.into
        PROVE  LET p == u.into[i] IN
               IF p.row # 0 THEN p.row \in DOMAIN new /\ Same(new[p.row], p)
               ELSE u.op # "replenish" =>
                      \A r \in DOMAIN new : Same(new[r], p) => new[r].by = "search"
    <3> DEFINE p == u.into[i]
    <3>1. IF p.row # 0 THEN p.row \in DOMAIN rows /\ Same(rows[p.row], p)
          ELSE u.op # "replenish" =>
                 \A r \in DOMAIN rows : Same(rows[r], p) => rows[r].by = "search"
      BY <1>1 DEF Placed
    <3> HIDE DEF p
    <3>2. CASE p.row # 0
      BY <3>1, <3>2 DEF Spares, Same, p
    <3>3. CASE p.row = 0
      <4>1. SUFFICES ASSUME u.op # "replenish", NEW r \in DOMAIN new, Same(new[r], p)
                     PROVE  new[r].by = "search"
        BY <3>3 DEF p
      <4>2. CASE r \in DOMAIN rows
        BY <3>1, <3>3, <4>1, <4>2 DEF Spares, Same
      <4>3. CASE r \notin DOMAIN rows
        BY <4>1, <4>3 DEF Spares, p
      <4>4. QED
        BY <4>2, <4>3
    <3>4. QED
      BY <3>2, <3>3
  <2>3. QED
    BY <2>1, <2>2 DEF Placed
<1>6. ASSUME u.row # 0, u.pc \in {"identity", "commit"} PROVE new[u.row] = rows[u.row]
  <2>1. u.row \in DOMAIN rows /\ u.row \in LockedBy(u)
    BY <1>2, <1>3, <1>6 DEF LockedBy
  <2>2. QED
    BY <2>1 DEF Spares
<1>7. Covered(u, new)
  <2>1. ASSUME u.op \in Transfers, u.pc # "source" PROVE new[u.row].qty - u.n >= new[u.row].res
    <3>1. u.row # 0 /\ u.pc # None
      BY <1>1, <2>1 DEF Shaped, Transfers
    <3>2. u.pc \in {"identity", "commit"}
      BY <1>1, <2>1, <3>1, TxnFacts
    <3>3. QED
      BY <1>1, <1>6, <2>1, <3>1, <3>2 DEF Covered
  <2>2. ASSUME u.op = "adjust", u.pc = "commit"
        PROVE  Adjusted(u, new) >= 0 /\ Adjusted(u, new) >= new[u.row].res
    <3>1. u.row # 0
      BY <1>1, <2>2 DEF Shaped
    <3>2. QED
      BY <1>1, <1>6, <2>2, <3>1 DEF Covered, Adjusted
  <2>3. ASSUME u.op = "approve", u.row # 0, u.pc = "commit" PROVE u.saw >= new[u.row].res
    BY <1>1, <1>6, <2>3 DEF Covered
  <2>4. QED
    BY <2>1, <2>2, <2>3 DEF Covered
<1>8. QED
  BY <1>1, <1>5, <1>7 DEF Good

-----------------------------------------------------------------------------
(* Apart is symmetric, and an idle client is apart from every other.        *)
LEMMA ApartFacts ==
  /\ \A t, u : Apart(t, u) => Apart(u, t)
  /\ \A u, rows : rows \in Seq(QuantRow) => Apart(Idle, u) /\ Good(Idle, rows)
<1>1. \A t, u : Apart(t, u) => Apart(u, t)
  BY DEF Apart, Same
<1>2. /\ Idle.op = "idle" /\ Idle.pc = None /\ Idle.row = 0 /\ Idle.into = <<>>
      /\ Idle.puts = <<>> /\ Idle.doc = 0
  BY DEF Idle
<1>3. Idle \in TxnRec
  BY DEF Idle, TxnRec, StockOp, None
<1>4. DOMAIN Idle.into = {}
  BY <1>2
<1>5. LockedBy(Idle) = {}
  BY <1>2 DEF LockedBy, None
<1>6. \A u : Apart(Idle, u)
  BY <1>4, <1>5 DEF Apart
<1>7. Shaped(Idle)
  BY <1>2, <1>3 DEF Shaped, Transfers, Arrivals, None
<1>8. ASSUME NEW rows \in Seq(QuantRow) PROVE Good(Idle, rows)
  <2>1. Len(rows) \in Nat
    BY RowFacts
  <2>2. QED
    BY <1>2, <1>4, <1>7, <2>1 DEF Good, Placed, Covered, Transfers
<1>9. QED
  BY <1>1, <1>6, <1>8

(* A step of one request that writes no row.                                *)
LEMMA LocalStep ==
  ASSUME StockInv, NEW c \in Client, NEW u,
         txn' = [txn EXCEPT ![c] = u], quant' = quant, Good(u, quant),
         \A d \in Client \ {c} : Apart(u, txn[d])
  PROVE  StockInv'
<1>1. /\ RowsGood(quant) /\ txn \in [Client -> TxnRec]
      /\ \A d \in Client : Good(txn[d], quant)
      /\ \A d, e \in Client : d # e => Apart(txn[d], txn[e])
  BY DEF StockInv
<1>2. u \in TxnRec
  BY DEF Good, Shaped
<1>3. /\ txn' \in [Client -> TxnRec] /\ txn'[c] = u
      /\ \A d \in Client \ {c} : txn'[d] = txn[d]
  BY <1>1, <1>2
<1>4. \A d \in Client : Good(txn'[d], quant')
  BY <1>1, <1>3
<1>5. \A d, e \in Client : d # e => Apart(txn'[d], txn'[e])
  BY <1>1, <1>3, ApartFacts
<1>6. RowsGood(quant')
  BY <1>1
<1>7. QED
  BY <1>3, <1>4, <1>5, <1>6 DEF StockInv

(* Rows that others have locked are spared by a commit.                     *)
LEMMA EffectSpares ==
  ASSUME NEW rows \in Seq(QuantRow), NEW new, NEW t, NEW u, Effect(t, rows, new), Apart(t, u)
  PROVE  Spares(u, rows, new)
<1>1. \A s \in DOMAIN rows : s \in LockedBy(u) => s \notin LockedBy(t)
  BY DEF Apart
<1>2. ASSUME u.op # "replenish", NEW s \in DOMAIN new, s \notin DOMAIN rows
      PROVE  new[s].by = "search" \/ \A i \in DOMAIN u.into : ~ Same(new[s], u.into[i])
  <2>1. CASE new[s].by = "search"
    BY <2>1
  <2>2. CASE t.op # "replenish" /\ \E j \in DOMAIN t.into : Same(new[s], t.into[j])
    <3>1. PICK j \in DOMAIN t.into : Same(new[s], t.into[j])
      BY <2>2
    <3>2. \A i \in DOMAIN u.into : ~ Same(t.into[j], u.into[i])
      BY <1>2, <2>2 DEF Apart
    <3>3. QED
      BY <3>1, <3>2 DEF Same
  <2>3. QED
    BY <1>2, <2>1, <2>2 DEF Effect
<1>3. QED
  BY <1>1, <1>2 DEF Effect, Spares

(* The commit of a request.                                                 *)
LEMMA CommitStep ==
  ASSUME StockInv, NEW c \in Client, txn' = [txn EXCEPT ![c] = Idle],
         RowsGood(quant'), Effect(txn[c], quant, quant')
  PROVE  StockInv'
<1>1. /\ quant \in Seq(QuantRow) /\ txn \in [Client -> TxnRec]
      /\ \A d \in Client : Good(txn[d], quant)
      /\ \A d, e \in Client : d # e => Apart(txn[d], txn[e])
  BY DEF StockInv, RowsGood
<1>2. quant' \in Seq(QuantRow)
  BY DEF RowsGood
<1>3. Good(Idle, quant') /\ \A u : Apart(Idle, u)
  BY <1>2, ApartFacts
<1>4. Idle \in TxnRec
  BY <1>3 DEF Good, Shaped
<1>5. /\ txn' \in [Client -> TxnRec] /\ txn'[c] = Idle
      /\ \A d \in Client \ {c} : txn'[d] = txn[d]
  BY <1>1, <1>4
<1>6. ASSUME NEW d \in Client PROVE Good(txn'[d], quant')
  <2>1. CASE d = c
    BY <2>1, <1>3, <1>5
  <2>2. CASE d # c
    <3>1. Apart(txn[c], txn[d])
      BY <2>2, <1>1
    <3>2. Spares(txn[d], quant, quant')
      BY <3>1, <1>1, EffectSpares
    <3>3. Good(txn[d], quant')
      BY <3>2, <1>1, StaysGood
    <3>4. QED
      BY <2>2, <3>3, <1>5
  <2>3. QED
    BY <2>1, <2>2
<1>7. ASSUME NEW d \in Client, NEW e \in Client, d # e PROVE Apart(txn'[d], txn'[e])
  BY <1>1, <1>3, <1>5, <1>7, ApartFacts
<1>8. QED
  BY <1>5, <1>6, <1>7 DEF StockInv

(* The order side changes a row that nobody has locked.                     *)
LEMMA FreeStep ==
  ASSUME StockInv, txn' = txn, RowsGood(quant'), DOMAIN quant' = DOMAIN quant,
         \A s \in DOMAIN quant : Same(quant'[s], quant[s]) /\ quant'[s].by = quant[s].by,
         NEW r, \A d \in Client : r \notin LockedBy(txn[d]),
         \A s \in DOMAIN quant : s # r => quant'[s] = quant[s]
  PROVE  StockInv'
<1>1. /\ quant \in Seq(QuantRow) /\ txn \in [Client -> TxnRec]
      /\ \A d \in Client : Good(txn[d], quant)
      /\ \A d, e \in Client : d # e => Apart(txn[d], txn[e])
  BY DEF StockInv, RowsGood
<1>2. ASSUME NEW d \in Client PROVE Good(txn[d], quant')
  <2>1. Spares(txn[d], quant, quant')
    BY DEF Spares, RowsGood
  <2>2. QED
    BY <1>1, <2>1, StaysGood
<1>3. QED
  BY <1>1, <1>2 DEF StockInv

-----------------------------------------------------------------------------
(* The books.                                                               *)
LEMMA BooksStay ==
  ASSUME BooksInv, UNCHANGED <<quant, ledger, keys, applied, shipped, drift>>
  PROVE  BooksInv'
<1>1. /\ quant' = quant /\ ledger' = ledger /\ keys' = keys /\ applied' = applied
      /\ shipped' = shipped /\ drift' = drift
  OBVIOUS
<1>2. \A l \in Loc : Unreserved(l)' = Unreserved(l)
  BY <1>1 DEF Unreserved, Row, MapThenSumSet, MapThenFoldSet
<1>3. LedgerExplainsStock'
  BY <1>1, <1>2 DEF BooksInv, LedgerExplainsStock
<1>4. QED
  BY <1>1, <1>3 DEF BooksInv

(* The movements of a commit account for the change of its rows.            *)
LEMMA BooksBalance ==
  ASSUME quant \in Seq(QuantRow), quant' \in Seq(QuantRow), BooksInv,
         shipped' \in [Loc -> Nat], drift' \in [Loc -> Int],
         NEW M, ledger' = Posted(M), \A l \in Loc : Deltas(M, l) \in Int,
         \A l \in Loc : Deltas(M, l) + (shipped'[l] - shipped[l]) + (drift'[l] - drift[l])
                          = Spare(quant', l) - Spare(quant, l)
  PROVE  ledger' \in [Loc -> Int] /\ LedgerExplainsStock'
<1>1. /\ ledger \in [Loc -> Int] /\ shipped \in [Loc -> Nat] /\ drift \in [Loc -> Int]
      /\ \A l \in Loc : ledger[l] + shipped[l] + drift[l] = Unreserved(l)
  BY DEF BooksInv, LedgerExplainsStock
<1>2. ledger' = [l \in Loc |-> ledger[l] + Deltas(M, l)]
  BY DEF Posted, Deltas
<1>3. ASSUME NEW l \in Loc
      PROVE  /\ Unreserved(l) = Spare(quant, l) /\ Unreserved(l)' = Spare(quant', l)
             /\ Spare(quant, l) \in Int /\ Spare(quant', l) \in Int
  <2>1. UnreservedIn(quant, l) = Spare(quant, l) /\ UnreservedIn(quant', l) = Spare(quant', l)
    BY UnreservedIsSpare
  <2>2. Unreserved(l) = UnreservedIn(quant, l)
    BY DEF Unreserved, UnreservedIn, Row, MapThenSumSet, MapThenFoldSet
  <2>3. Unreserved(l)' = UnreservedIn(quant', l)
    BY DEF Unreserved, UnreservedIn, Row, MapThenSumSet, MapThenFoldSet
  <2>4. Spare(quant, l) \in Int /\ Spare(quant', l) \in Int
    BY RowFacts, SumInt DEF Spare
  <2>5. QED
    BY <2>1, <2>2, <2>3, <2>4
<1>4. ledger' \in [Loc -> Int] /\ \A l \in Loc : ledger'[l] = ledger[l] + Deltas(M, l)
  BY <1>1, <1>2
<1>5. ASSUME NEW l \in Loc PROVE ledger'[l] + shipped'[l] + drift'[l] = Unreserved(l)'
  <2>1. /\ ledger[l] \in Int /\ shipped[l] \in Int /\ drift[l] \in Int
        /\ shipped'[l] \in Int /\ drift'[l] \in Int /\ Deltas(M, l) \in Int
    BY <1>1
  <2>2. /\ ledger[l] + shipped[l] + drift[l] = Spare(quant, l)
        /\ ledger'[l] = ledger[l] + Deltas(M, l)
        /\ Deltas(M, l) + (shipped'[l] - shipped[l]) + (drift'[l] - drift[l])
             = Spare(quant', l) - Spare(quant, l)
    BY <1>1, <1>3, <1>4
  <2>3. Spare(quant, l) \in Int /\ Spare(quant', l) \in Int /\ Unreserved(l)' = Spare(quant', l)
    BY <1>3
  <2>4. PICK a \in Int : a = ledger[l]
    BY <2>1
  <2>6. PICK s \in Int : s = shipped[l]
    BY <2>1
  <2>7. PICK d \in Int : d = drift[l]
    BY <2>1
  <2>8. PICK m \in Int : m = Deltas(M, l)
    BY <2>1
  <2>9. PICK x \in Int : x = Spare(quant, l)
    BY <2>3
  <2>10. PICK s2 \in Int : s2 = shipped'[l]
    BY <2>1
  <2>11. PICK d2 \in Int : d2 = drift'[l]
    BY <2>1
  <2>12. PICK x2 \in Int : x2 = Spare(quant', l)
    BY <2>3
  <2>13. a + s + d = x /\ m + (s2 - s) + (d2 - d) = x2 - x
    BY <2>2, <2>4, <2>6, <2>7, <2>8, <2>9, <2>10, <2>11, <2>12
  <2>14. (a + m) + s2 + d2 = x2
    <3>1. /\ a \in Int /\ s \in Int /\ d \in Int /\ m \in Int /\ x \in Int
          /\ s2 \in Int /\ d2 \in Int /\ x2 \in Int
      BY <2>4, <2>6, <2>7, <2>8, <2>9, <2>10, <2>11, <2>12
    <3>2. PICK e \in Int : e = s2 - s
      BY <3>1
    <3>3. PICK f \in Int : f = d2 - d
      BY <3>1
    <3>4. PICK g \in Int : g = x2 - x
      BY <3>1
    <3>5. m + e + f = g
      BY <2>13, <3>2, <3>3, <3>4
    <3>6. s2 = s + e /\ d2 = d + f /\ x2 = x + g
      BY <3>1, <3>2, <3>3, <3>4
    <3>7. (a + m) + (s + e) + (d + f) = (a + s + d) + (m + e + f)
      BY <3>1, <3>2, <3>3
    <3>8. (a + s + d) + (m + e + f) = x + g
      BY <2>13, <3>5
    <3>9. QED
      BY <3>6, <3>7, <3>8
  <2>15. ledger'[l] + shipped'[l] + drift'[l] = Spare(quant', l)
    BY <2>2, <2>4, <2>8, <2>10, <2>11, <2>12, <2>14
  <2>16. QED
    BY <2>3, <2>15
<1>6. QED
  BY <1>4, <1>5 DEF LedgerExplainsStock

(* A used key is in the index, and only one insert gets it there.           *)
LEMMA KeysStep ==
  ASSUME BooksInv, NEW c, NEW rows, NEW M, CommitStock(c, rows, M),
         txn[c].key \in Key \cup {NoKey}, txn[c].key # NoKey => M # <<>>
  PROVE  /\ DOMAIN keys' \subseteq Key /\ applied' \in [Key -> Nat]
         /\ \A k \in Key : applied'[k] = IF k \in DOMAIN keys' THEN 1 ELSE 0
<1> DEFINE k == txn[c].key
<1>1. /\ DOMAIN keys \subseteq Key /\ applied \in [Key -> Nat]
      /\ \A x \in Key : applied[x] = IF x \in DOMAIN keys THEN 1 ELSE 0
  BY DEF BooksInv
<1>2. CASE k = NoKey
  <2>1. keys' = keys /\ applied' = applied
    BY <1>2 DEF CommitStock
  <2>2. QED
    BY <1>1, <2>1
<1>3. CASE k # NoKey
  <2>1. k \in Key /\ k \notin DOMAIN keys /\ M # <<>>
    BY <1>3 DEF CommitStock, InsertKey
  <2>2. /\ keys' = [x \in DOMAIN keys \cup {k} |-> IF x = k THEN M[1].type ELSE keys[x]]
        /\ applied' = [applied EXCEPT ![k] = @ + 1]
    BY <1>3, <2>1 DEF CommitStock
  <2>3. DOMAIN keys' = DOMAIN keys \cup {k}
    BY <2>2
  <2>4. applied[k] = 0
    BY <1>1, <2>1
  <2>5. applied' \in [Key -> Nat] /\ \A x \in Key : applied'[x] = IF x = k THEN 1 ELSE applied[x]
    BY <1>1, <2>1, <2>2, <2>4
  <2> HIDE DEF k
  <2>6. QED
    BY <1>1, <2>1, <2>3, <2>5
<1>4. QED
  BY <1>2, <1>3

-----------------------------------------------------------------------------
(* Movements.                                                               *)
LEMMA AtInt == ASSUME NEW l, NEW m, NEW n \in Int PROVE At(l, m, n) \in Int
BY DEF At

(* One movement changes a location by what that movement says.              *)
LEMMA OneMove ==
  ASSUME NEW m, NEW l, ApplyDelta(m, l) \in Int
  PROVE  Deltas(<<m>>, l) = ApplyDelta(m, l)
<1> DEFINE M == <<m>>
           f == [i \in DOMAIN M |-> ApplyDelta(M[i], l)]
<1>1. DOMAIN M = {1} /\ M[1] = m
  OBVIOUS
<1>2. IsFiniteSet(DOMAIN M)
  BY <1>1, FS_Singleton
<1>3. f[1] = ApplyDelta(m, l)
  BY <1>1
<1> HIDE DEF M
<1>4. Deltas(M, l) = SumOf(f, DOMAIN M)
  BY <1>2, DeltaSum
<1> HIDE DEF f
<1>5. SumOf(f, {1}) = f[1]
  BY <1>3, SumOfOne
<1>6. Deltas(M, l) = ApplyDelta(m, l)
  BY <1>1, <1>3, <1>4, <1>5
<1>7. QED
  BY <1>6 DEF M

(* What each movement of the models does to the books of a location: two    *)
(* locations, one that goods come to, one that they are promised or go from. *)
LEMMA TransferDelta ==
  ASSUME NEW a \in Loc, NEW b \in Loc, NEW n \in Int, NEW l, NEW type \in Transfer
  PROVE  ApplyDelta(Move(type, a, b, n, 0), l) = At(l, b, n) - At(l, a, n)
<1> DEFINE m == Move(type, a, b, n, 0)
<1>1. m.type = type /\ m.from = a /\ m.to = b /\ m.n = n
  BY DEF Move
<1>2. a # None /\ b # None
  BY StockConstants
<1> HIDE DEF m
<1>3. ApplyDelta(m, l) = At(l, m.to, m.n) - At(l, m.from, m.n)
  BY <1>1, <1>2 DEF ApplyDelta, Transfer, Inward, Outward
<1>4. QED
  BY <1>1, <1>3 DEF m

(* A receipt or an adjustment changes the location it names by the pieces   *)
(* it names.                                                                *)
LEMMA InwardDelta ==
  ASSUME NEW b \in Loc, NEW n \in Int, NEW d \in Int, NEW l
  PROVE  /\ ApplyDelta(Move("ADJUST", None, b, n, d), l) = At(l, b, d)
         /\ ApplyDelta(Move("RECEIVE", None, b, n, d), l) = At(l, b, n)
<1>1. b # None
  BY StockConstants
<1>2. ApplyDelta(Move("ADJUST", None, b, n, d), l) = At(l, b, d)
  <2> DEFINE m == Move("ADJUST", None, b, n, d)
  <2>1. m.type = "ADJUST" /\ m.from = None /\ m.to = b /\ m.delta = d
    BY DEF Move
  <2> HIDE DEF m
  <2>2. ApplyDelta(m, l) = At(l, Either(m.to, m.from), m.delta)
    BY <1>1, <2>1 DEF ApplyDelta, Transfer, Inward, Outward
  <2>3. QED
    BY <1>1, <2>1, <2>2 DEF m, Either
<1>3. ApplyDelta(Move("RECEIVE", None, b, n, d), l) = At(l, b, n)
  <2> DEFINE m == Move("RECEIVE", None, b, n, d)
  <2>1. m.type = "RECEIVE" /\ m.from = None /\ m.to = b /\ m.n = n
    BY DEF Move
  <2> HIDE DEF m
  <2>2. ApplyDelta(m, l) = At(l, m.to, m.n)
    BY <1>1, <2>1 DEF ApplyDelta, Transfer, Inward, Outward
  <2>3. QED
    BY <2>1, <2>2 DEF m
<1>4. QED
  BY <1>2, <1>3

(* What the movements of an order take from a location or give back to it.  *)
LEMMA OrderDelta ==
  ASSUME NEW a \in Loc, NEW n \in Int, NEW l,
         NEW type \in {"RESERVE", "PICK", "CANCEL_RESERVATION"}
  PROVE  ApplyDelta(Move(type, a, None, n, 0), l)
           = IF type = "CANCEL_RESERVATION" THEN At(l, a, n) ELSE -At(l, a, n)
<1> DEFINE m == Move(type, a, None, n, 0)
<1>1. m.type = type /\ m.from = a /\ m.to = None /\ m.n = n
  BY DEF Move
<1>2. a # None
  BY StockConstants
<1> HIDE DEF m
<1>3. ApplyDelta(m, l) = IF type = "CANCEL_RESERVATION" THEN At(l, Either(m.to, m.from), m.n)
                         ELSE -At(l, m.from, m.n)
  BY <1>1, <1>2 DEF ApplyDelta, Transfer, Inward, Outward
<1>4. QED
  BY <1>1, <1>3 DEF m, Either

(* A commit that writes the rows a request has found.                       *)
LEMMA WrittenStep ==
  ASSUME StockInv, BooksInv, NEW c \in Client, txn[c].op \in Transfers \cup Arrivals,
         NEW by, by = HowMade(txn[c]), NEW M, M # <<>>,
         CommitStock(c, Written(c, by), M), drift' = drift,
         \A l \in Loc : Deltas(M, l) = Brought(txn[c], l) - Sent(txn[c], quant, l)
  PROVE  StockInv' /\ BooksInv'
<1> DEFINE t == txn[c]
<1>1. RowsGood(quant) /\ Good(t, quant) /\ Shaped(t) /\ t \in TxnRec /\ quant \in Seq(QuantRow)
  BY DEF StockInv, Good, Shaped, RowsGood
<1>2. /\ t.pc = "commit" /\ txn' = [txn EXCEPT ![c] = Idle] /\ quant' = Written(c, by)
      /\ ledger' = Posted(M) /\ shipped' = shipped
  BY DEF CommitStock
<1>3. Written(c, by) = Filled(TakenFrom(quant, t.row, t.n), t.into, by)
  BY DEF Written, Filled, FoldLeft, MapThenFoldSet
<1>4. quant' = NewRows(t, quant)
  BY <1>2, <1>3 DEF NewRows
<1>5. Len(t.into) = 1 \/ Len(t.into) = 2
  BY <1>1, <1>2, AtCommit
<1>6. /\ RowsGood(quant') /\ Effect(t, quant, quant')
      /\ \A l : Spare(quant', l) = Spare(quant, l) - Sent(t, quant, l) + Brought(t, l)
  BY <1>1, <1>2, <1>4, <1>5, OneTarget, TwoTargets
<1>7. StockInv'
  BY <1>2, <1>6, CommitStep
<1>8. \A l : Brought(t, l) \in Int /\ Sent(t, quant, l) \in Int
  <2>1. /\ t.into[1].n \in Int /\ (Len(t.into) = 2 => t.into[2].n \in Int) /\ t.n \in Int
    <3>1. \A i \in 1..Len(t.into) : t.into[i] \in PutSet
      BY <1>1, TxnFacts
    <3>2. t.n \in Int /\ \A i \in 1..Len(t.into) : t.into[i].n \in Int
      BY <1>1, <3>1, TxnFacts DEF PutSet
    <3>3. QED
      BY <1>5, <3>2
  <2>2. QED
    BY <1>5, <2>1, AtInt DEF Brought, Sent
<1>9. quant' \in Seq(QuantRow)
  BY <1>6 DEF RowsGood
<1>10. \A l \in Loc : Spare(quant, l) \in Int /\ Spare(quant', l) \in Int
  BY <1>1, <1>9, RowFacts, SumInt DEF Spare
<1>11. /\ shipped' \in [Loc -> Nat] /\ drift' \in [Loc -> Int]
       /\ \A l \in Loc : shipped[l] \in Int /\ drift[l] \in Int
  BY <1>2 DEF BooksInv
<1>12. ASSUME NEW l \in Loc
       PROVE  /\ Deltas(M, l) \in Int
              /\ Deltas(M, l) + (shipped'[l] - shipped[l]) + (drift'[l] - drift[l])
                   = Spare(quant', l) - Spare(quant, l)
  <2>1. PICK b \in Int : b = Brought(t, l)
    BY <1>8
  <2>2. PICK s \in Int : s = Sent(t, quant, l)
    BY <1>8
  <2>3. PICK x \in Int : x = Spare(quant, l)
    BY <1>10
  <2>4. Deltas(M, l) = b - s /\ b \in Int /\ s \in Int /\ x \in Int
    BY <2>1, <2>2, <2>3
  <2>5. Spare(quant', l) = x - s + b
    BY <1>6, <2>1, <2>2, <2>3
  <2>6. shipped'[l] - shipped[l] = 0 /\ drift'[l] - drift[l] = 0
    BY <1>2, <1>11
  <2>7. QED
    BY <2>3, <2>4, <2>5, <2>6
<1>13. ledger' \in [Loc -> Int] /\ LedgerExplainsStock'
  BY <1>1, <1>2, <1>9, <1>11, <1>12, BooksBalance
<1>14. t.key \in Key \cup {NoKey}
  BY <1>1 DEF TxnRec
<1>15. /\ DOMAIN keys' \subseteq Key /\ applied' \in [Key -> Nat]
       /\ \A k \in Key : applied'[k] = IF k \in DOMAIN keys' THEN 1 ELSE 0
  BY <1>14, KeysStep
<1>16. BooksInv'
  BY <1>11, <1>13, <1>15 DEF BooksInv
<1>17. QED
  BY <1>7, <1>16

-----------------------------------------------------------------------------
(* Requests at their beginning.                                             *)
Arriving(op, puts, k, doc, saw, st) ==
  [Request(op, "identity", 0, 0, puts, k, doc, saw) EXCEPT !.st = st]

(* A new request is a transaction,                                          *)
LEMMA RequestRec ==
  ASSUME NEW op \in StockOp, NEW pc \in {None, "source", "identity", "commit"}, NEW r \in Nat,
         NEW n \in Int, NEW puts \in Seq(PutSet), NEW k \in Key \cup {NoKey}, NEW doc \in Int,
         NEW saw \in Nat
  PROVE  Request(op, pc, r, n, puts, k, doc, saw) \in TxnRec
<1>1. <<>> \in Seq(PutSet)
  OBVIOUS
<1>2. QED
  BY <1>1 DEF TxnRec, Request

(* and so is one that brings stock from nowhere.                            *)
LEMMA ArrivingRec ==
  ASSUME NEW op \in Arrivals, NEW puts \in Seq(PutSet), NEW k \in Key \cup {NoKey},
         NEW doc \in Int, NEW saw \in Nat, NEW st \in InboundStatus \cup {None}
  PROVE  Arriving(op, puts, k, doc, saw, st) \in TxnRec
<1> DEFINE u == [op |-> op, pc |-> "identity", row |-> 0, n |-> 0, puts |-> puts, into |-> <<>>,
                 key |-> k, doc |-> doc, saw |-> saw, st |-> st]
<1>1. Arriving(op, puts, k, doc, saw, st) = u
  BY DEF Request, Arriving
<1>2. <<>> \in Seq(PutSet) /\ op \in StockOp
  BY DEF Arrivals, StockOp
<1>3. u \in TxnRec
  BY <1>2 DEF TxnRec
<1>4. QED
  BY <1>1, <1>3

(* A target as it is written down.                                          *)
LEMMA PutFacts ==
  ASSUME NEW l \in Loc, NEW s \in QuantStatus, NEW n \in Nat \ {0}
  PROVE  Put(l, s, n) \in PutSet /\ Put(l, s, n).loc = l /\ Put(l, s, n).st = s
         /\ Put(l, s, n).n = n /\ Put(l, s, n).row = 0
BY DEF Put, PutSet

(* A new request that has something to look for.                            *)
LEMMA FreshShape ==
  ASSUME NEW u \in TxnRec, u.op \in Transfers \cup Arrivals, u.into = <<>>,
         u.op \in Transfers => u.pc = "source" /\ u.row # 0 /\ Len(u.puts) = 1
                               /\ (u.op # "replenish" => u.puts[1].n = u.n),
         u.op \in Arrivals => u.pc = "identity" /\ u.row = 0 /\ u.n = 0 /\
           \/ Len(u.puts) = 1
           \/ u.op = "inbound" /\ Len(u.puts) = 2 /\ ~ Same(u.puts[1], u.puts[2])
  PROVE  /\ Shaped(u) /\ (u.pc = "source" \/ u.row = 0)
         /\ Goals(u) = Len(u.puts) /\ \A i \in 1..Len(u.puts) : Goal(u, i) = u.puts[i]
<1>1. u.puts \in Seq(PutSet)
  BY DEF TxnRec
<1>2. Len(u.puts) \in Nat /\ DOMAIN u.puts = 1..Len(u.puts) /\ Len(u.into) = 0
      /\ \A i \in 1..Len(u.puts) : u.puts[i] \in PutSet
  BY <1>1, LenProperties
<1>3. Goals(u) = Len(u.puts) /\ \A i \in 1..Len(u.puts) : Goal(u, i) = u.puts[i]
  BY <1>2 DEF Goals, Goal
<1>4. Len(u.puts) = 1 \/ Len(u.puts) = 2
  OBVIOUS
<1>5. u.puts = <<>> => Len(u.puts) = 0
  OBVIOUS
<1>6. \A i \in 1..Len(u.puts) : u.puts[i].n \in Nat \ {0}
  BY <1>2 DEF PutSet
<1>7. /\ u.op \notin {"idle", "adjust", "evaluate", "count", "rfcount", "approve"}
      /\ u.pc # None /\ u.pc # "commit"
      /\ ~ (u.op \in Transfers /\ u.op \in Arrivals)
  BY DEF Transfers, Arrivals, None
<1>8. u.op \in Transfers =>
        /\ u.row # 0 /\ Goals(u) = 1
        /\ (u.op # "replenish" \/ u.pc # "source") => u.n > 0 /\ Goal(u, 1).n = u.n
  BY <1>3, <1>6
<1>9. ASSUME u.op \in Arrivals, NEW i \in 1..Goals(u), NEW j \in 1..Goals(u), i # j
      PROVE  ~ Same(Goal(u, i), Goal(u, j))
  <2>1. Len(u.puts) = 2 /\ ~ Same(u.puts[1], u.puts[2])
    BY <1>3, <1>9
  <2>2. (i = 1 /\ j = 2) \/ (i = 2 /\ j = 1)
    BY <1>3, <1>9, <2>1
  <2>3. Goal(u, i) = u.puts[i] /\ Goal(u, j) = u.puts[j]
    BY <1>3, <1>9
  <2>4. QED
    BY <2>1, <2>2, <2>3 DEF Same
<1>10. u.op \in Arrivals =>
        /\ u.row = 0 /\ u.n = 0 /\ u.pc # "source"
        /\ Goals(u) = 1 \/ (u.op = "inbound" /\ Goals(u) = 2)
  BY <1>3
<1>11. u.pc = "source" \/ u.row = 0
  OBVIOUS
<1>12. /\ u.pc = None <=> u.op = "idle"
       /\ u.pc \in {None, "source"} => u.into = <<>>
       /\ u.pc = "identity" => u.puts # <<>>
       /\ u.pc = "commit" => u.puts = <<>>
  BY <1>4, <1>5, <1>7
<1>13. Shaped(u)
  BY <1>7, <1>8, <1>9, <1>10, <1>12 DEF Shaped
<1>14. QED
  BY <1>3, <1>11, <1>13

(* A new request that adds to no row.                                       *)
LEMMA FreshPlain ==
  ASSUME NEW u \in TxnRec, u.op \in {"adjust", "evaluate", "count", "rfcount", "approve"},
         u.into = <<>>, u.puts = <<>>, u.pc \in {"source", "commit"},
         u.op = "adjust" => u.pc = "source" /\ u.row # 0 /\ u.doc \in {-1, 0, 1},
         u.op \in {"evaluate", "count", "rfcount"} => u.pc = "commit" /\ u.row = 0,
         u.op = "approve" => u.key = NoKey /\
           (IF u.row = 0 THEN u.pc = "commit" ELSE u.pc = "source" /\ u.row = u.doc)
  PROVE  Shaped(u) /\ (u.pc = "source" \/ u.row = 0)
<1>1. u.op \notin Transfers /\ u.op \notin Arrivals /\ u.op # "idle" /\ u.pc # None
      /\ u.pc # "identity"
  BY DEF Transfers, Arrivals, None
<1>2. u.pc = "source" \/ u.row = 0
  OBVIOUS
<1>3. Shaped(u)
  BY <1>1 DEF Shaped
<1>4. QED
  BY <1>2, <1>3

(* A request begins: it has locked nothing.                                 *)
LEMMA FreshStep ==
  ASSUME StockInv, BooksInv, NEW c \in Client, NEW u, Begin(c, u),
         Shaped(u), u.into = <<>>, u.row \in DOMAIN quant \/ u.row = 0,
         u.pc = "source" \/ u.row = 0
  PROVE  StockInv' /\ BooksInv'
<1>1. quant \in Seq(QuantRow)
  BY DEF StockInv, RowsGood
<1>2. DOMAIN quant = 1..Len(quant) /\ Len(quant) \in Nat
  BY <1>1, RowFacts
<1>3. DOMAIN u.into = {}
  OBVIOUS
<1>4. LockedBy(u) = {}
  BY <1>3 DEF LockedBy
<1>5. \A d : Apart(u, d)
  BY <1>3, <1>4 DEF Apart
<1>6. Placed(u, quant)
  BY <1>2, <1>3 DEF Placed
<1>7. Covered(u, quant)
  <2>1. u.op \in Transfers \cup {"adjust"} => u.row # 0
    BY DEF Shaped
  <2>2. QED
    BY <2>1 DEF Covered
<1>8. Good(u, quant)
  BY <1>6, <1>7 DEF Good
<1>9. /\ txn' = [txn EXCEPT ![c] = u]
      /\ UNCHANGED <<quant, ledger, keys, applied, shipped, drift>>
  BY DEF Begin
<1>10. QED
  BY <1>5, <1>8, <1>9, LocalStep, BooksStay

(* It is given up.                                                          *)
LEMMA RollbackStep ==
  ASSUME StockInv, BooksInv, NEW c \in Client, txn' = [txn EXCEPT ![c] = Idle],
         UNCHANGED <<quant, ledger, keys, applied, shipped, drift>>
  PROVE  StockInv' /\ BooksInv'
<1>1. quant \in Seq(QuantRow)
  BY DEF StockInv, RowsGood
<1>2. Good(Idle, quant) /\ \A d : Apart(Idle, d)
  BY <1>1, ApartFacts
<1>3. QED
  BY <1>2, LocalStep, BooksStay

-----------------------------------------------------------------------------
(* Locks.  What Free says of the other requests.                            *)
LEMMA FreeRow ==
  ASSUME NEW c \in Client, NEW r, r # 0, Free(c, r), NEW d \in Client \ {c}
  PROVE  r \notin LockedBy(txn[d])
BY DEF Free, Locks, HeldRows, LockedBy

(* A request has locked its source.                                         *)
LEMMA SourceStep ==
  ASSUME StockInv, BooksInv, NEW c \in Client, txn[c].pc = "source", Free(c, txn[c].row),
         NEW u, u.row = txn[c].row, u.into = <<>>, u.row # 0,
         Shaped(u), Covered(u, quant), txn' = [txn EXCEPT ![c] = u],
         UNCHANGED <<quant, ledger, keys, applied, shipped, drift>>
  PROVE  StockInv' /\ BooksInv'
<1>1. Good(txn[c], quant)
  BY DEF StockInv
<1>2. DOMAIN u.into = {}
  OBVIOUS
<1>3. Placed(u, quant)
  BY <1>1, <1>2 DEF Good, Placed
<1>4. Good(u, quant)
  BY <1>3 DEF Good
<1>5. LockedBy(u) \subseteq {u.row}
  BY <1>2 DEF LockedBy
<1>6. ASSUME NEW d \in Client \ {c} PROVE Apart(u, txn[d])
  <2>1. u.row \notin LockedBy(txn[d])
    BY FreeRow
  <2>2. QED
    BY <1>2, <1>5, <2>1 DEF Apart
<1>7. QED
  BY <1>4, <1>6, LocalStep, BooksStay

(* LockSource leaves all but the program counter.                           *)
LEMMA LockStep ==
  ASSUME StockInv, BooksInv, NEW c \in Client, LockSource(c, TRUE),
         txn[c].op # "replenish",
         txn[c].op \in Transfers => quant[txn[c].row].qty - txn[c].n >= quant[txn[c].row].res,
         txn[c].op = "adjust" => Adjusted(txn[c], quant) >= 0
                                 /\ Adjusted(txn[c], quant) >= quant[txn[c].row].res,
         txn[c].op = "approve" => txn[c].saw >= quant[txn[c].row].res
  PROVE  StockInv' /\ BooksInv'
<1> DEFINE t == txn[c]
           u == [t EXCEPT !.pc = IF t.puts = <<>> THEN "commit" ELSE "identity"]
<1>1. /\ t.pc = "source" /\ Free(c, t.row) /\ txn' = [txn EXCEPT ![c] = u]
      /\ UNCHANGED <<quant, ledger, keys, applied, shipped, drift>>
  BY DEF LockSource
<1>2. Shaped(t) /\ t \in TxnRec
  BY DEF StockInv, Good, Shaped
<1>3. /\ u \in TxnRec /\ u.pc = IF t.puts = <<>> THEN "commit" ELSE "identity"
      /\ u.op = t.op /\ u.row = t.row /\ u.n = t.n /\ u.puts = t.puts /\ u.into = t.into
      /\ u.key = t.key /\ u.doc = t.doc /\ u.saw = t.saw
  BY <1>2 DEF TxnRec, None
<1> HIDE DEF u
<1>4. t.into = <<>> /\ t.op \notin Arrivals /\ t.op \notin {"idle", "evaluate", "count", "rfcount"}
  BY <1>1, <1>2 DEF Shaped, Transfers, Arrivals, None
<1>5. t.row # 0
  <2>1. t.op = "approve" => t.row # 0
    BY <1>1, <1>2 DEF Shaped
  <2>2. t.op \in Transfers \cup {"adjust", "approve"}
    BY <1>2, <1>4 DEF TxnRec, StockOp
  <2>3. QED
    BY <1>2, <2>1, <2>2 DEF Shaped
<1>6. t.op \in Transfers => t.puts # <<>>
  <2>1. ASSUME t.puts = <<>> PROVE Goals(t) = 0
    <3>1. Len(t.puts) = 0 /\ Len(t.into) = 0
      BY <2>1, <1>4
    <3>2. QED
      BY <3>1 DEF Goals
  <2>2. t.op \in Transfers => Goals(t) = 1
    BY <1>2 DEF Shaped
  <2>3. QED
    BY <2>1, <2>2
<1>7. Shaped(u)
  <2>1. Goals(u) = Goals(t) /\ \A i : Goal(u, i) = Goal(t, i)
    BY <1>3 DEF Goals, Goal
  <2>2. CASE t.op \in Transfers
    <3>1. u.row # 0 /\ Goals(u) = 1 /\ u.n > 0 /\ Goal(u, 1).n = u.n
      BY <1>2, <1>3, <2>1, <2>2 DEF Shaped
    <3>2. u.op \notin {"idle", "adjust", "evaluate", "count", "rfcount", "approve"} \cup Arrivals
      BY <1>3, <2>2 DEF Transfers, Arrivals
    <3>3. u.pc = "identity" /\ u.puts # <<>> /\ None # "identity"
      BY <1>3, <1>6, <2>2 DEF None
    <3>4. QED
      BY <1>3, <2>2, <3>1, <3>2, <3>3 DEF Shaped
  <2>3. CASE t.op \notin Transfers
    <3>1. t.into = <<>> /\ t.puts = <<>> /\ u.pc = "commit" /\ None # "commit"
      BY <1>2, <1>3, <1>4, <2>3 DEF Shaped, None
    <3>2. QED
      BY <1>2, <1>3, <1>4, <2>3, <3>1 DEF Shaped
  <2>4. QED
    BY <2>2, <2>3
<1>8. Covered(u, quant)
  BY <1>3 DEF Covered, Adjusted
<1>9. QED
  BY <1>1, <1>3, <1>4, <1>5, <1>7, <1>8, SourceStep

(* The fields of a target whose row has been looked for.                    *)
LEMMA TargetWith ==
  ASSUME NEW p \in PutSet, NEW r \in Nat, NEW q, q = [p EXCEPT !.row = r]
  PROVE  q \in PutSet /\ q.row = r /\ Same(q, p) /\ q.loc = p.loc /\ q.st = p.st /\ q.n = p.n
BY DEF PutSet, Same

(* The targets of a request do not change while they are looked for.        *)
LEMMA GoalsStay ==
  ASSUME NEW t, t.into \in Seq(PutSet), t.puts \in Seq(PutSet), t.puts # <<>>,
         NEW q \in PutSet, Same(q, Head(t.puts)), q.n = Head(t.puts).n,
         NEW u, u.into = Append(t.into, q), u.puts = Tail(t.puts)
  PROVE  /\ Goals(u) = Goals(t) /\ Goals(t) \in Nat /\ Len(u.into) = Len(t.into) + 1
         /\ Len(u.puts) = Len(t.puts) - 1 /\ Len(t.into) \in Nat /\ Len(t.puts) \in Nat
         /\ \A i \in 1..Goals(t) : Same(Goal(u, i), Goal(t, i)) /\ Goal(u, i).n = Goal(t, i).n
         /\ \A i \in 1..Len(t.into) : u.into[i] = t.into[i]
         /\ u.into[Len(t.into) + 1] = q
<1>1. /\ Len(u.into) = Len(t.into) + 1 /\ u.into[Len(t.into) + 1] = q
      /\ \A i \in 1..Len(t.into) : u.into[i] = t.into[i]
      /\ Len(t.into) \in Nat /\ Len(t.puts) \in Nat
  BY AppendProperties, LenProperties
<1>2. /\ Len(u.puts) = Len(t.puts) - 1 /\ Len(t.puts) > 0
      /\ \A i \in 1..Len(u.puts) : u.puts[i] = t.puts[i + 1]
      /\ Head(t.puts) = t.puts[1]
  BY HeadTailProperties, EmptySeq, LenProperties
<1> DEFINE a == Len(t.into)
           b == Len(t.puts)
           d == Len(u.into)
           e == Len(u.puts)
<1>3. /\ Goals(u) = Goals(t) /\ Goals(t) \in Nat
      /\ Goals(t) = a + b /\ d = a + 1 /\ e = b - 1 /\ a \in Nat /\ b \in Nat
  <2>1. a \in Nat /\ b \in Nat /\ d = a + 1 /\ e = b - 1
    BY <1>1, <1>2
  <2>2. Goals(u) = d + e /\ Goals(t) = a + b
    BY DEF Goals
  <2> HIDE DEF a, b, d, e
  <2>3. QED
    BY <2>1, <2>2
<1>4. ASSUME NEW i \in 1..Goals(t)
      PROVE  Same(Goal(u, i), Goal(t, i)) /\ Goal(u, i).n = Goal(t, i).n
  <2>1. CASE i <= Len(t.into)
    <3>1. Goal(u, i) = u.into[i] /\ Goal(t, i) = t.into[i] /\ i \in 1..Len(t.into)
      BY <2>1, <1>1 DEF Goal
    <3>2. QED
      BY <3>1, <1>1 DEF Same
  <2>2. CASE i = Len(t.into) + 1
    <3>1. Goal(u, i) = q /\ Goal(t, i) = t.puts[1]
      BY <2>2, <1>1 DEF Goal
    <3>2. QED
      BY <3>1, <1>2 DEF Same
  <2>3. CASE i > Len(t.into) + 1
    <3>1. /\ ~ (i <= a) /\ ~ (i <= d) /\ i - d \in 1..e /\ (i - d) + 1 = i - a
      <4>1. i > a + 1
        BY <2>3
      <4> HIDE DEF a, b, d, e
      <4>2. QED
        BY <4>1, <1>3
    <3>2. Goal(u, i) = u.puts[i - d] /\ Goal(t, i) = t.puts[i - a]
      BY <3>1 DEF Goal
    <3>3. u.puts[i - d] = t.puts[(i - d) + 1]
      BY <3>1, <1>2
    <3>4. Goal(u, i) = Goal(t, i)
      BY <3>1, <3>2, <3>3
    <3>5. QED
      BY <3>4 DEF Same
  <2>4. QED
    BY <1>1, <1>3, <2>1, <2>2, <2>3
<1>5. QED
  BY <1>1, <1>2, <1>3, <1>4

(* What AddTo does, and the request that has found the row of its next      *)
(* target.                                                                  *)
Located(p, r) == [p EXCEPT !.row = r]
WithTarget(t, p, r) ==
  [t EXCEPT !.into = Append(t.into, Located(p, r)), !.puts = Tail(t.puts),
            !.pc = IF Len(t.puts) = 1 THEN "commit" ELSE "identity"]

(* What one turn of the search does to its transaction.                     *)
LEMMA AddToHas ==
  ASSUME NEW c, NEW p, AddTo(c, p)
  PROVE  /\ txn[c].pc = "identity" /\ UNCHANGED <<quant, ledger, keys, applied, shipped, drift>>
         /\ \E r \in Found(p) :
              /\ r # 0 => Free(c, r)
              /\ txn' = [txn EXCEPT ![c] = WithTarget(txn[c], p, r)]
BY DEF AddTo, WithTarget, Located

(* The transaction after that turn, field by field.                         *)
LEMMA WithTargetFields ==
  ASSUME NEW t \in TxnRec, t.puts # <<>>, NEW p \in PutSet, NEW r \in Nat,
         NEW u, WithTarget(t, p, r) = u
  PROVE  /\ u \in TxnRec /\ u.into = Append(t.into, Located(p, r)) /\ u.puts = Tail(t.puts)
         /\ u.pc = (IF Len(t.puts) = 1 THEN "commit" ELSE "identity")
         /\ u.op = t.op /\ u.row = t.row /\ u.n = t.n /\ u.key = t.key /\ u.doc = t.doc
         /\ u.saw = t.saw /\ u.st = t.st
<1>1. Located(p, r) \in PutSet
  BY TargetWith DEF Located
<1>2. t.into \in Seq(PutSet) /\ t.puts \in Seq(PutSet)
  BY DEF TxnRec
<1>3. Append(t.into, Located(p, r)) \in Seq(PutSet) /\ Tail(t.puts) \in Seq(PutSet)
  BY <1>1, <1>2, AppendProperties, HeadTailProperties
<1>4. PICK a \in Seq(PutSet) : a = Append(t.into, Located(p, r))
  BY <1>3
<1>5. PICK b \in Seq(PutSet) : b = Tail(t.puts)
  BY <1>3
<1>6. PICK s \in {"identity", "commit"} : s = IF Len(t.puts) = 1 THEN "commit" ELSE "identity"
  OBVIOUS
<1>7. u = [t EXCEPT !.into = a, !.puts = b, !.pc = s]
  BY <1>4, <1>5, <1>6 DEF WithTarget
<1>8. /\ u \in TxnRec /\ u.into = a /\ u.puts = b /\ u.pc = s
      /\ u.op = t.op /\ u.row = t.row /\ u.n = t.n /\ u.key = t.key /\ u.doc = t.doc
      /\ u.saw = t.saw /\ u.st = t.st
  BY <1>7 DEF TxnRec
<1>9. QED
  BY <1>4, <1>5, <1>6, <1>8

(* A target that was found, or was not, is added: nobody else is at the     *)
(* same identity.                                                           *)
LEMMA AddedStep ==
  ASSUME StockInv, BooksInv, NEW c \in Client, AddTo(c, Head(txn[c].puts)),
         txn[c].op # "replenish" =>
           \A d \in Client \ {c} : ~ HoldsIdentity(d, Head(txn[c].puts))
  PROVE  StockInv' /\ BooksInv'
<1> DEFINE t == txn[c]
           p == Head(t.puts)
<1>1. /\ Good(t, quant) /\ Shaped(t) /\ Placed(t, quant) /\ Covered(t, quant) /\ t \in TxnRec
      /\ quant \in Seq(QuantRow)
      /\ \A d \in Client \ {c} : Apart(t, txn[d])
  BY DEF StockInv, Good, Shaped, RowsGood
<1>2. t.pc = "identity" /\ t.puts # <<>> /\ t.into \in Seq(PutSet) /\ t.puts \in Seq(PutSet)
      /\ t.row \in Nat /\ t.n \in Int
  BY <1>1, TxnFacts DEF AddTo, Shaped
<1>3. PICK r \in Found(p) :
        (r # 0 => Free(c, r)) /\ txn' = [txn EXCEPT ![c] = WithTarget(t, p, r)]
  BY AddToHas
<1> DEFINE q == Located(p, r)
           pc == IF Len(t.puts) = 1 THEN "commit" ELSE "identity"
           u == WithTarget(t, p, r)
<1>4. txn' = [txn EXCEPT ![c] = u]
  BY <1>3
<1>5. /\ r \in Nat
      /\ IF r # 0 THEN r \in DOMAIN quant /\ Same(quant[r], p)
         ELSE \A s \in DOMAIN quant : ~ Same(quant[s], p)
  <2>1. DOMAIN quant = 1..Len(quant) /\ Len(quant) \in Nat
    BY <1>1, RowFacts
  <2>2. CASE FindRow(p) = {}
    <3>1. r = 0
      BY <2>2, <1>3 DEF Found
    <3>2. \A s \in DOMAIN quant : ~ Same(quant[s], p)
      BY <2>2 DEF FindRow, Same, Row
    <3>3. QED
      BY <3>1, <3>2
  <2>3. CASE FindRow(p) # {}
    <3>1. r \in FindRow(p)
      BY <2>3, <1>3 DEF Found
    <3>2. r \in DOMAIN quant /\ Same(quant[r], p)
      BY <3>1 DEF FindRow, Same, Row
    <3>3. QED
      BY <2>1, <3>2
  <2>4. QED
    BY <2>2, <2>3
<1>6. p \in PutSet
  BY <1>2, HeadTailProperties
<1>7. q \in PutSet /\ q.row = r /\ Same(q, p) /\ q.loc = p.loc /\ q.st = p.st /\ q.n = p.n
  BY <1>5, <1>6, TargetWith DEF Located
<1> HIDE DEF q
<1>8. Append(t.into, q) \in Seq(PutSet) /\ Tail(t.puts) \in Seq(PutSet)
  BY <1>2, <1>7, AppendProperties, HeadTailProperties
<1>23. pc \in {"identity", "commit"}
  OBVIOUS
<1>9. /\ u \in TxnRec /\ u.into = Append(t.into, q) /\ u.puts = Tail(t.puts) /\ u.pc = pc
      /\ u.op = t.op /\ u.row = t.row /\ u.n = t.n /\ u.key = t.key /\ u.doc = t.doc
      /\ u.saw = t.saw /\ u.st = t.st
  <2> HIDE DEF p, pc, u
  <2>1. PICK x \in TxnRec : x = t
    BY <1>1
  <2>2. PICK y \in PutSet : y = p
    BY <1>6
  <2>3. x.puts # <<>> /\ r \in Nat /\ WithTarget(x, y, r) = u
    BY <1>2, <1>5, <2>1, <2>2 DEF u
  <2>4. /\ u \in TxnRec /\ u.into = Append(x.into, Located(y, r)) /\ u.puts = Tail(x.puts)
        /\ u.pc = (IF Len(x.puts) = 1 THEN "commit" ELSE "identity")
        /\ u.op = x.op /\ u.row = x.row /\ u.n = x.n /\ u.key = x.key /\ u.doc = x.doc
        /\ u.saw = x.saw /\ u.st = x.st
    BY <2>3, WithTargetFields
  <2>5. QED
    BY <2>1, <2>2, <2>4 DEF q, pc
<1> HIDE DEF u
<1>10. /\ Goals(u) = Goals(t) /\ Goals(t) \in Nat /\ Len(u.into) = Len(t.into) + 1
       /\ Len(u.puts) = Len(t.puts) - 1 /\ Len(t.into) \in Nat /\ Len(t.puts) \in Nat
       /\ \A i \in 1..Goals(t) : Same(Goal(u, i), Goal(t, i)) /\ Goal(u, i).n = Goal(t, i).n
       /\ \A i \in 1..Len(t.into) : u.into[i] = t.into[i]
       /\ u.into[Len(t.into) + 1] = q
  <2> HIDE DEF p
  <2>1. Same(q, Head(t.puts)) /\ q.n = Head(t.puts).n
    BY <1>7 DEF p
  <2>2. QED
    BY <1>2, <1>7, <1>9, <2>1, GoalsStay
<1>11. u.puts = <<>> <=> pc = "commit"
  <2>1. u.puts = <<>> <=> Len(u.puts) = 0
    BY <1>8, <1>9, EmptySeq
  <2>2. Len(u.puts) = 0 <=> Len(t.puts) = 1
    BY <1>10
  <2>3. QED
    BY <2>1, <2>2
<1>12. t.op \in Transfers \cup Arrivals /\ (t.op \in Arrivals => t.row = 0 /\ t.n = 0)
       /\ t.op \notin {"idle", "adjust", "evaluate", "count", "rfcount", "approve"}
       /\ ~ (t.op \in Transfers /\ t.op \in Arrivals)
  <2>1. t.op \in Transfers \cup Arrivals
    BY <1>1, <1>2 DEF Shaped
  <2>2. QED
    BY <1>1, <2>1 DEF Shaped, Transfers, Arrivals
<1>13. u.pc \in {"identity", "commit"} /\ u.pc # None /\ u.pc # "source"
  BY <1>9 DEF None
<1> HIDE DEF pc, p
<1>14. Shaped(u)
  <2>1. ASSUME t.op \in Transfers
        PROVE  u.row # 0 /\ Goals(u) = 1 /\ u.n > 0 /\ Goal(u, 1).n = u.n
    <3>1. t.row # 0 /\ Goals(t) = 1 /\ t.n > 0 /\ Goal(t, 1).n = t.n
      BY <1>1, <1>2, <2>1 DEF Shaped
    <3>2. QED
      BY <1>9, <1>10, <3>1
  <2>2. ASSUME t.op \in Arrivals
        PROVE  /\ u.row = 0 /\ u.n = 0
               /\ Goals(u) = 1 \/ (u.op = "inbound" /\ Goals(u) = 2)
               /\ \A i, j \in 1..Goals(u) : i # j => ~ Same(Goal(u, i), Goal(u, j))
    <3>1. /\ t.row = 0 /\ t.n = 0
          /\ Goals(t) = 1 \/ (t.op = "inbound" /\ Goals(t) = 2)
          /\ \A i, j \in 1..Goals(t) : i # j => ~ Same(Goal(t, i), Goal(t, j))
      BY <1>1, <2>2 DEF Shaped
    <3>2. ASSUME NEW i \in 1..Goals(u), NEW j \in 1..Goals(u), i # j
          PROVE  ~ Same(Goal(u, i), Goal(u, j))
      <4>1. Same(Goal(u, i), Goal(t, i)) /\ Same(Goal(u, j), Goal(t, j)) /\ ~ Same(Goal(t, i), Goal(t, j))
        BY <1>10, <3>1, <3>2
      <4>2. QED
        BY <4>1 DEF Same
    <3>3. QED
      BY <1>9, <1>10, <3>1, <3>2
  <2>3. /\ u.pc = None <=> u.op = "idle"
        /\ u.pc \in {None, "source"} => u.into = <<>>
        /\ u.pc = "identity" => u.puts # <<>>
        /\ u.pc = "commit" => u.puts = <<>>
    BY <1>9, <1>11, <1>12, <1>13
  <2>4. QED
    BY <1>9, <1>12, <1>13, <2>1, <2>2, <2>3 DEF Shaped
<1>15. DOMAIN u.into = 1..(Len(t.into) + 1) /\ DOMAIN t.into = 1..Len(t.into)
  <2>1. DOMAIN u.into = 1..Len(u.into)
    BY <1>8, <1>9, LenProperties
  <2>2. QED
    BY <1>2, <1>10, <2>1, LenProperties
<1>16. \A i \in DOMAIN u.into : (i \in DOMAIN t.into /\ u.into[i] = t.into[i]) \/ u.into[i] = q
  <2> DEFINE a == Len(t.into)
  <2>1. a \in Nat /\ DOMAIN u.into = 1..(a + 1) /\ DOMAIN t.into = 1..a
    BY <1>10, <1>15
  <2>2. u.into[a + 1] = q /\ \A i \in 1..a : u.into[i] = t.into[i]
    BY <1>10
  <2> HIDE DEF a
  <2>3. \A i \in 1..(a + 1) : i \in 1..a \/ i = a + 1
    BY <2>1
  <2>4. QED
    BY <2>1, <2>2, <2>3
<1>17. Placed(u, quant)
  <2>1. u.row <= Len(quant)
    BY <1>1, <1>9 DEF Placed
  <2>2. ASSUME NEW i \in DOMAIN u.into
        PROVE  LET x == u.into[i] IN
               IF x.row # 0 THEN x.row \in DOMAIN quant /\ Same(quant[x.row], x)
               ELSE u.op # "replenish" =>
                      \A s \in DOMAIN quant : Same(quant[s], x) => quant[s].by = "search"
    <3>1. CASE i \in DOMAIN t.into /\ u.into[i] = t.into[i]
      BY <3>1, <1>1, <1>9 DEF Placed
    <3>2. CASE u.into[i] = q
      BY <3>2, <1>5, <1>7 DEF Same
    <3>3. QED
      BY <3>1, <3>2, <1>16
  <2>3. QED
    BY <2>1, <2>2 DEF Placed
<1>18. Covered(u, quant)
  BY <1>1, <1>2, <1>9, <1>12 DEF Covered
<1>19. Good(u, quant)
  BY <1>14, <1>17, <1>18 DEF Good
<1>20. ASSUME NEW d \in Client \ {c} PROVE Apart(u, txn[d])
  <2>1. LockedBy(u) \subseteq LockedBy(t) \cup ({r} \ {0})
    <3> SUFFICES ASSUME NEW s \in LockedBy(u) PROVE s \in LockedBy(t) \/ (s = r /\ r # 0)
      OBVIOUS
    <3>1. s # 0 /\ (s = t.row \/ \E i \in DOMAIN u.into : s = u.into[i].row)
      BY <1>9, <1>13 DEF LockedBy
    <3>2. CASE s = t.row
      BY <3>1, <3>2, <1>2 DEF LockedBy
    <3>3. CASE \E i \in DOMAIN u.into : s = u.into[i].row
      <4>1. PICK i \in DOMAIN u.into : s = u.into[i].row
        BY <3>3
      <4>2. CASE i \in DOMAIN t.into /\ u.into[i] = t.into[i]
        BY <3>1, <4>1, <4>2, <1>2 DEF LockedBy
      <4>3. CASE u.into[i] = q
        BY <3>1, <4>1, <4>3, <1>7
      <4>4. QED
        BY <4>2, <4>3, <1>16
    <3>4. QED
      BY <3>1, <3>2, <3>3
  <2>2. r # 0 => r \notin LockedBy(txn[d])
    BY <1>3, FreeRow
  <2>3. LockedBy(u) \cap LockedBy(txn[d]) = {}
    BY <2>1, <2>2, <1>1 DEF Apart
  <2>4. ASSUME u.op # "replenish", txn[d].op # "replenish",
               NEW i \in DOMAIN u.into, NEW j \in DOMAIN txn[d].into
        PROVE  ~ Same(u.into[i], txn[d].into[j])
    <3>1. CASE i \in DOMAIN t.into /\ u.into[i] = t.into[i]
      BY <3>1, <2>4, <1>1, <1>9 DEF Apart
    <3>2. CASE u.into[i] = q
      <4>1. ~ HoldsIdentity(d, p)
        BY <2>4, <1>9 DEF p
      <4>2. ~ (txn[d].into[j].loc = p.loc /\ txn[d].into[j].st = p.st)
        BY <4>1, <2>4 DEF HoldsIdentity
      <4>3. QED
        BY <4>2, <3>2, <1>7 DEF Same
    <3>3. QED
      BY <3>1, <3>2, <1>16
  <2>5. QED
    BY <2>3, <2>4 DEF Apart
<1>21. UNCHANGED <<quant, ledger, keys, applied, shipped, drift>>
  BY DEF AddTo
<1>22. QED
  BY <1>4, <1>19, <1>20, <1>21, LocalStep, BooksStay

-----------------------------------------------------------------------------
(* The beginnings.  A transfer has its source row and one target.           *)
LEMMA BeginsTransfer ==
  ASSUME StockInv, BooksInv, NEW c \in Client, NEW op \in Transfers, NEW r \in DOMAIN quant,
         NEW n \in Nat, NEW m \in Nat \ {0}, op # "replenish" => m = n,
         NEW l \in Loc, NEW s \in QuantStatus, NEW k \in Key \cup {NoKey}, NEW doc \in Int,
         Begin(c, Request(op, "source", r, n, <<Put(l, s, m)>>, k, doc, 0))
  PROVE  StockInv' /\ BooksInv'
<1> DEFINE p == Put(l, s, m)
           u == Request(op, "source", r, n, <<p>>, k, doc, 0)
<1>1. p \in PutSet /\ p.n = m
  BY PutFacts
<1>2. <<p>> \in Seq(PutSet) /\ Len(<<p>>) = 1 /\ <<p>>[1] = p
  BY <1>1
<1>3. r \in Nat /\ r # 0
  BY RowFacts DEF StockInv, RowsGood
<1> HIDE DEF p
<1>5. op \in StockOp /\ op \notin Arrivals
  BY DEF StockOp, Transfers, Arrivals
<1>7. /\ u \in TxnRec
      /\ u.op = op /\ u.pc = "source" /\ u.row = r /\ u.n = n /\ u.puts = <<p>> /\ u.into = <<>>
  <2>1. u \in TxnRec
    <3>1. PICK puts \in Seq(PutSet) : puts = <<p>>
      BY <1>2
    <3>2. <<>> \in Seq(PutSet) /\ "source" \in {None, "source", "identity", "commit"}
          /\ None \in InboundStatus \cup {None}
      OBVIOUS
    <3>3. Request(op, "source", r, n, puts, k, doc, 0) \in TxnRec
      BY <1>3, <1>5, <3>2 DEF Request, TxnRec
    <3>4. QED
      BY <3>1, <3>3
  <2>2. QED
    BY <2>1 DEF Request
<1>8. Begin(c, u)
  BY DEF p
<1> HIDE DEF u
<1>9. Shaped(u)
  BY <1>1, <1>2, <1>3, <1>5, <1>7, FreshShape
<1>10. QED
  BY <1>7, <1>8, <1>9, FreshStep

(* An arrival has one target, or the two of a receipt.                      *)
LEMMA BeginsArrival ==
  ASSUME StockInv, BooksInv, NEW c \in Client, NEW op \in Arrivals,
         NEW puts \in Seq(PutSet), NEW k \in Key \cup {NoKey}, NEW doc \in Int,
         NEW saw \in Nat, NEW st \in InboundStatus \cup {None},
         \/ Len(puts) = 1
         \/ op = "inbound" /\ Len(puts) = 2 /\ ~ Same(puts[1], puts[2]),
         Begin(c, Arriving(op, puts, k, doc, saw, st))
  PROVE  StockInv' /\ BooksInv'
<1> DEFINE u == Arriving(op, puts, k, doc, saw, st)
<1>1. op \notin Transfers
  BY DEF Transfers, Arrivals
<1>3. u \in TxnRec /\ u.op = op /\ u.pc = "identity" /\ u.row = 0 /\ u.n = 0 /\ u.puts = puts /\ u.into = <<>>
  <2>1. u \in TxnRec
    BY ArrivingRec
  <2>2. QED
    BY <2>1 DEF Request, Arriving
<1>4. Begin(c, u)
  OBVIOUS
<1> HIDE DEF u
<1>5. Shaped(u)
  BY <1>1, <1>3, FreshShape
<1>6. QED
  BY <1>3, <1>4, <1>5, FreshStep

(* A request that adds to no row.                                           *)
LEMMA BeginsPlain ==
  ASSUME StockInv, BooksInv, NEW c \in Client,
         NEW op \in {"adjust", "evaluate", "count", "rfcount", "approve"},
         NEW pc \in {"source", "commit"}, NEW r \in DOMAIN quant \cup {0}, NEW n \in Int,
         NEW k \in Key \cup {NoKey}, NEW doc \in Int, NEW saw \in Nat,
         op = "adjust" => pc = "source" /\ r # 0 /\ doc \in {-1, 0, 1},
         op \in {"evaluate", "count", "rfcount"} => pc = "commit" /\ r = 0,
         op = "approve" => k = NoKey /\ (IF r = 0 THEN pc = "commit" ELSE pc = "source" /\ r = doc),
         Begin(c, Request(op, pc, r, n, <<>>, k, doc, saw))
  PROVE  StockInv' /\ BooksInv'
<1> DEFINE u == Request(op, pc, r, n, <<>>, k, doc, saw)
<1>1. r \in Nat
  BY RowFacts DEF StockInv, RowsGood
<1>2. op \in StockOp
  BY DEF StockOp
<1>3. <<>> \in Seq(PutSet)
  OBVIOUS
<1>5. /\ u \in TxnRec /\ u.op = op /\ u.pc = pc /\ u.row = r /\ u.puts = <<>> /\ u.into = <<>>
      /\ u.key = k /\ u.doc = doc
  <2>1. u \in TxnRec
    BY <1>1, <1>2, <1>3, RequestRec
  <2>2. QED
    BY <2>1 DEF Request
<1>6. Begin(c, u)
  OBVIOUS
<1> HIDE DEF u
<1>7. Shaped(u) /\ (u.pc = "source" \/ u.row = 0)
  BY <1>5, FreshPlain
<1>8. QED
  BY <1>5, <1>6, <1>7, FreshStep

(* What a row and an amount are.                                            *)
LEMMA Given ==
  ASSUME StockInv
  PROVE  /\ \A n \in Amount : n \in Nat \ {0}
         /\ \A r \in Row : /\ r \in Nat /\ r # 0 /\ quant[r].loc \in Loc
                           /\ quant[r].st \in QuantStatus
                           /\ quant[r].qty \in Nat /\ quant[r].res \in Nat
         /\ NoKey \in Key \cup {NoKey}
         /\ "AVAILABLE" \in QuantStatus /\ BlockTarget \subseteq QuantStatus
         /\ UnblockTarget \subseteq QuantStatus
<1>1. quant \in Seq(QuantRow)
  BY DEF StockInv, RowsGood
<1>2. \A r \in Row : /\ r \in Nat /\ r # 0 /\ quant[r].loc \in Loc
                     /\ quant[r].st \in QuantStatus
                     /\ quant[r].qty \in Nat /\ quant[r].res \in Nat
  BY <1>1, RowFacts DEF Row
<1>3. QED
  BY <1>2, StockConstants DEF QuantStatus, BlockTarget, UnblockTarget

(* The first statement of every operation of the inventory.                 *)
LEMMA InventoryBegins ==
  ASSUME StockInv, BooksInv, NEW c \in Client,
         \/ BeginReceive(c) \/ BeginMove(c) \/ BeginAdjust(c) \/ BeginAdjustNew(c)
         \/ BeginBlock(c) \/ BeginUnblock(c)
  PROVE  StockInv' /\ BooksInv'
<1>1. ASSUME NEW l \in Loc, NEW n \in Amount, NEW k \in Key \cup {NoKey}, NEW op \in {"receive", "adjustNew"},
             Begin(c, Request(op, "identity", 0, 0, <<Put(l, "AVAILABLE", n)>>, k, 0, 0))
      PROVE  StockInv' /\ BooksInv'
  <2> DEFINE puts == <<Put(l, "AVAILABLE", n)>>
  <2>1. puts \in Seq(PutSet) /\ Len(puts) = 1
    BY Given, PutFacts
  <2>2. Request(op, "identity", 0, 0, puts, k, 0, 0) = Arriving(op, puts, k, 0, 0, None)
    BY DEF Request, Arriving
  <2> HIDE DEF puts
  <2>3. op \in Arrivals /\ 0 \in Nat /\ 0 \in Int
    BY DEF Arrivals
  <2>4. Begin(c, Arriving(op, puts, k, 0, 0, None))
    BY <1>1, <2>2 DEF puts
  <2>5. QED
    BY <2>1, <2>3, <2>4, BeginsArrival
<1>2. CASE BeginReceive(c)
  BY <1>1, <1>2 DEF BeginReceive
<1>3. CASE BeginAdjustNew(c)
  BY <1>1, <1>3, Given DEF BeginAdjustNew
<1>4. CASE BeginMove(c)
  <2>1. PICK r \in Row, l \in Loc, n \in Amount, k \in Key \cup {NoKey} :
          Begin(c, Request("move", "source", r, n, <<Put(l, quant[r].st, n)>>, k, 0, 0))
    BY <1>4 DEF BeginMove
  <2>2. PICK s \in QuantStatus : s = quant[r].st
    BY Given
  <2>3. Begin(c, Request("move", "source", r, n, <<Put(l, s, n)>>, k, 0, 0))
    BY <2>1, <2>2
  <2>4. "move" \in Transfers /\ n \in Nat \ {0} /\ 0 \in Int /\ r \in DOMAIN quant
    BY Given DEF Transfers, Row
  <2>5. QED
    BY <2>3, <2>4, BeginsTransfer
<1>5. CASE BeginAdjust(c)
  <2>1. PICK r \in Row, n \in Amount \cup {0}, sign \in {-1, 0, 1}, k \in Key \cup {NoKey} :
          Begin(c, Request("adjust", "source", r, 0, <<>>, k, sign, n))
    BY <1>5 DEF BeginAdjust
  <2>2. r \in DOMAIN quant \cup {0} /\ r # 0 /\ n \in Nat /\ sign \in Int
    BY Given DEF Row
  <2>3. QED
    BY <2>1, <2>2, BeginsPlain
<1>6. ASSUME NEW op \in {"block", "unblock"}, NEW r \in Row, NEW s \in QuantStatus, BeginTransfer(c, op, r, s)
      PROVE  StockInv' /\ BooksInv'
  <2>1. PICK n \in Amount \cup {quant[r].qty} :
          n > 0 /\ Begin(c, Request(op, "source", r, n, <<Put(quant[r].loc, s, n)>>, NoKey, 0, 0))
    BY <1>6 DEF BeginTransfer
  <2>2. PICK l \in Loc : l = quant[r].loc
    BY Given
  <2>3. Begin(c, Request(op, "source", r, n, <<Put(l, s, n)>>, NoKey, 0, 0))
    BY <2>1, <2>2
  <2>4. n \in Nat \ {0} /\ n \in Nat /\ 0 \in Int /\ r \in DOMAIN quant /\ op \in Transfers
        /\ NoKey \in Key \cup {NoKey}
    BY <2>1, Given DEF Transfers, Row
  <2>5. QED
    BY <2>3, <2>4, BeginsTransfer
<1>7. CASE BeginBlock(c)
  BY <1>6, <1>7, Given DEF BeginBlock
<1>8. CASE BeginUnblock(c)
  BY <1>6, <1>8, Given DEF BeginUnblock
<1>9. QED
  BY <1>2, <1>3, <1>4, <1>5, <1>7, <1>8

-----------------------------------------------------------------------------
(* The locks of the inventory and of the tasks.                             *)
LEMMA InventoryLocks ==
  ASSUME StockInv, BooksInv, NEW c \in Client,
         DecrementQuant(c) \/ LockAdjusted(c) \/ LockIdentity(c) \/ Rollback(c)
  PROVE  StockInv' /\ BooksInv'
<1>1. CASE DecrementQuant(c)
  <2>1. LockSource(c, TRUE) /\ txn[c].op \in {"move", "block", "unblock"}
        /\ quant[txn[c].row].qty - txn[c].n >= quant[txn[c].row].res
    BY <1>1 DEF DecrementQuant, LockSource, Src
  <2>2. QED
    BY <2>1, LockStep
<1>2. CASE LockAdjusted(c)
  <2>1. LockSource(c, TRUE) /\ txn[c].op = "adjust"
    BY <1>2 DEF LockAdjusted, LockSource
  <2>2. NextQuantity(c) >= 0 /\ NextQuantity(c) >= quant[txn[c].row].res
    BY <1>2 DEF LockAdjusted, LockSource, Src
  <2>3. NextQuantity(c) = Adjusted(txn[c], quant)
    BY DEF NextQuantity, Adjusted, Src
  <2>4. txn[c].op \notin Transfers
    BY <2>1 DEF Transfers
  <2>5. QED
    BY <2>1, <2>2, <2>3, <2>4, LockStep
<1>3. CASE LockIdentity(c)
  <2>1. AddTo(c, Head(txn[c].puts)) /\ \A d \in Client \ {c} : ~ HoldsIdentity(d, Head(txn[c].puts))
    BY <1>3 DEF LockIdentity
  <2>2. QED
    BY <2>1, AddedStep
<1>4. CASE Rollback(c)
  BY <1>4, RollbackStep DEF Rollback
<1>5. QED
  BY <1>1, <1>2, <1>3, <1>4

-----------------------------------------------------------------------------
(* The commits.  Goods moved from one location to another.                  *)
LEMMA TransferStep ==
  ASSUME StockInv, BooksInv, NEW c \in Client, txn[c].op \in Transfers,
         NEW type \in Transfer, NEW by, by = HowMade(txn[c]),
         NEW to, to = txn[c].into[1].loc, NEW n, n = txn[c].n,
         NEW M, M = <<Move(type, quant[txn[c].row].loc, to, n, 0)>>,
         CommitStock(c, Written(c, by), M), drift' = drift
  PROVE  StockInv' /\ BooksInv'
<1> DEFINE t == txn[c]
           from == quant[t.row].loc
<1>1. Shaped(t) /\ Placed(t, quant) /\ t.pc = "commit" /\ quant \in Seq(QuantRow)
  BY DEF StockInv, Good, CommitStock, RowsGood
<1>2. /\ Len(t.into) = 1 /\ t.n \in Nat /\ t.into[1].n = t.n /\ t.row # 0
  BY <1>1, AtCommit DEF Transfers, Arrivals
<1>3. t.row \in DOMAIN quant
  <2>1. t.row \in Nat /\ t.row <= Len(quant) /\ DOMAIN quant = 1..Len(quant) /\ Len(quant) \in Nat
    BY <1>1, TxnFacts, RowFacts DEF Placed
  <2>2. QED
    BY <1>2, <2>1
<1>4. from \in Loc /\ to \in Loc
  <2>1. t.into[1] \in PutSet
    BY <1>1, <1>2, TxnFacts
  <2>2. QED
    BY <1>1, <1>3, <2>1, RowFacts DEF PutSet
<1>5. ASSUME NEW l \in Loc PROVE Deltas(M, l) = Brought(t, l) - Sent(t, quant, l)
  <2>1. PICK a \in Loc : a = from
    BY <1>4
  <2>2. PICK b \in Loc : b = to
    BY <1>4
  <2>3. PICK i \in Int : i = n
    BY <1>2
  <2>4. ApplyDelta(Move(type, a, b, i, 0), l) = At(l, b, i) - At(l, a, i)
    BY TransferDelta
  <2>5. ApplyDelta(Move(type, a, b, i, 0), l) \in Int
    BY <2>4, AtInt
  <2>6. Deltas(<<Move(type, a, b, i, 0)>>, l) = At(l, b, i) - At(l, a, i)
    BY <2>4, <2>5, OneMove
  <2>7. Brought(t, l) = At(l, b, i) /\ Sent(t, quant, l) = At(l, a, i)
    BY <1>2, <2>1, <2>2, <2>3 DEF Brought, Sent
  <2>8. M = <<Move(type, a, b, i, 0)>>
    BY <2>1, <2>2, <2>3
  <2> HIDE DEF from
  <2>9. QED
    BY <2>6, <2>7, <2>8
<1>6. M # <<>>
  OBVIOUS
<1>7. t.op \in Transfers \cup Arrivals
  OBVIOUS
<1>8. QED
  BY <1>5, <1>6, <1>7, WrittenStep

(* New goods in one place.                                                  *)
LEMMA ArrivalStep ==
  ASSUME StockInv, BooksInv, NEW c \in Client, txn[c].op \in Arrivals, Len(txn[c].into) = 1,
         NEW type \in {"RECEIVE", "ADJUST"}, NEW to, to = txn[c].into[1].loc,
         NEW n, n = txn[c].into[1].n, NEW M, M = <<Move(type, None, to, n, n)>>,
         CommitStock(c, Written(c, "identity"), M), drift' = drift
  PROVE  StockInv' /\ BooksInv'
<1> DEFINE t == txn[c]
<1>1. Shaped(t) /\ t.pc = "commit"
  BY DEF StockInv, Good, CommitStock
<1>2. t.row = 0 /\ HowMade(t) = "identity"
  <2>1. t.op # "replenish"
    BY DEF Arrivals
  <2>2. QED
    BY <1>1, <2>1 DEF Shaped, HowMade
<1>3. to \in Loc /\ n \in Int
  <2>1. t.into[1] \in PutSet
    BY <1>1, TxnFacts
  <2>2. QED
    BY <2>1 DEF PutSet
<1>4. ASSUME NEW l \in Loc PROVE Deltas(M, l) = Brought(t, l) - Sent(t, quant, l)
  <2>1. PICK b \in Loc : b = to
    BY <1>3
  <2>2. PICK i \in Int : i = n
    BY <1>3
  <2>3. ApplyDelta(Move(type, None, b, i, i), l) = At(l, b, i)
    BY InwardDelta
  <2>4. ApplyDelta(Move(type, None, b, i, i), l) \in Int
    BY <2>3, AtInt
  <2>5. Deltas(<<Move(type, None, b, i, i)>>, l) = At(l, b, i)
    BY <2>3, <2>4, OneMove
  <2>6. Brought(t, l) = At(l, b, i) /\ Sent(t, quant, l) = 0
    BY <1>2, <2>1, <2>2 DEF Brought, Sent
  <2>7. M = <<Move(type, None, b, i, i)>>
    BY <2>1, <2>2
  <2>8. At(l, b, i) \in Int
    BY AtInt
  <2>9. Deltas(M, l) = At(l, b, i)
    BY <2>5, <2>7
  <2>10. QED
    BY <2>6, <2>8, <2>9
<1>5. M # <<>>
  OBVIOUS
<1>6. t.op \in Transfers \cup Arrivals
  OBVIOUS
<1>7. QED
  BY <1>2, <1>4, <1>5, <1>6, WrittenStep

(* The commits of InventoryService that write the rows a request has found. *)
LEMMA InventoryCommits ==
  ASSUME StockInv, BooksInv, NEW c \in Client,
         \/ CommitReceive(c) \/ CommitMove(c) \/ CommitTransfer(c) \/ CommitAdjustNew(c)
  PROVE  StockInv' /\ BooksInv'
<1> DEFINE t == txn[c]
           p == t.into[1]
<1>1. Shaped(t)
  BY DEF StockInv, Good
<1>2. ASSUME NEW op \in {"receive", "adjustNew"}, NEW type \in {"RECEIVE", "ADJUST"},
             CommitAs(c, op, type, None, p.n)
      PROVE  StockInv' /\ BooksInv'
  <2>1. /\ t.op = op /\ t.pc = "commit" /\ drift' = drift
        /\ CommitStock(c, Written(c, "identity"), <<Move(type, None, p.loc, p.n, p.n)>>)
    BY <1>2 DEF CommitAs
  <2>2. t.op \in Arrivals /\ t.op # "inbound"
    BY <2>1 DEF Arrivals
  <2>3. Len(t.into) = 1
    BY <1>1, <2>1, <2>2, AtCommit
  <2>4. PICK M : M = <<Move(type, None, p.loc, p.n, p.n)>>
    OBVIOUS
  <2>5. PICK to : to = p.loc
    OBVIOUS
  <2>6. PICK n : n = p.n
    OBVIOUS
  <2>7. M = <<Move(type, None, to, n, n)>> /\ CommitStock(c, Written(c, "identity"), M)
        /\ to = txn[c].into[1].loc /\ n = txn[c].into[1].n
    BY <2>1, <2>4, <2>5, <2>6
  <2>8. QED
    BY <2>1, <2>2, <2>3, <2>7, ArrivalStep
<1>3. CASE CommitReceive(c)
  BY <1>2, <1>3 DEF CommitReceive
<1>4. CASE CommitAdjustNew(c)
  BY <1>2, <1>4 DEF CommitAdjustNew
<1>5. ASSUME NEW op \in {"move", "block", "unblock"}, NEW type \in Transfer,
             CommitAs(c, op, type, Src(c).loc, 0)
      PROVE  StockInv' /\ BooksInv'
  <2>1. /\ t.op = op /\ t.pc = "commit" /\ drift' = drift
        /\ CommitStock(c, Written(c, "identity"), <<Move(type, quant[t.row].loc, p.loc, p.n, 0)>>)
    BY <1>5 DEF CommitAs, Src
  <2>2. t.op \in Transfers /\ t.op # "replenish"
    BY <2>1 DEF Transfers
  <2>3. p.n = t.n
    BY <1>1, <2>1, <2>2, AtCommit
  <2>4. PICK M : M = <<Move(type, quant[t.row].loc, p.loc, p.n, 0)>>
    OBVIOUS
  <2>5. PICK to : to = p.loc
    OBVIOUS
  <2>6. PICK n : n = p.n
    OBVIOUS
  <2>7. M = <<Move(type, quant[txn[c].row].loc, to, n, 0)>>
        /\ to = txn[c].into[1].loc /\ n = txn[c].n
    BY <2>3, <2>4, <2>5, <2>6
  <2>8. CommitStock(c, Written(c, "identity"), M) /\ HowMade(txn[c]) = "identity"
    BY <2>1, <2>2, <2>4 DEF HowMade
  <2>9. QED
    BY <2>1, <2>2, <2>7, <2>8, TransferStep
<1>6. CASE CommitMove(c)
  BY <1>5, <1>6 DEF CommitMove, Transfer
<1>7. CASE CommitTransfer(c)
  BY <1>5, <1>7 DEF CommitTransfer, Transfer
<1>8. QED
  BY <1>3, <1>4, <1>6, <1>7

(* Movements that bring a location x, and a column that is larger there.    *)
Tells(M, place, x)      == \A l \in Loc : Deltas(M, l) = At(l, place, x)
Larger(f, new, place, y) == \A l \in Loc : new[l] = f[l] + At(l, place, y)

(* A commit that sets the quantity of one row, for a movement of x and a    *)
(* difference of y that no movement tells.                                  *)
LEMMA RowSetStep ==
  ASSUME StockInv, BooksInv, NEW c \in Client, txn[c].row # 0, txn[c].op \in {"adjust", "approve"},
         txn[c].row \in LockedBy(txn[c]),
         NEW r, r = txn[c].row, NEW m \in Nat, m >= quant[r].res,
         NEW M, M # <<>>, NEW x \in Int, NEW y \in Int, x + y = m - quant[r].qty,
         NEW place, place = quant[r].loc,
         Tells(M, place, x),
         NEW rows, rows = [quant EXCEPT ![r].qty = m], CommitStock(c, rows, M),
         drift' \in [Loc -> Int], Larger(drift, drift', place, y)
  PROVE  StockInv' /\ BooksInv'
<1> DEFINE t == txn[c]
           q == [quant[r] EXCEPT !.qty = m]
<1>1. /\ Shaped(t) /\ Placed(t, quant) /\ quant \in Seq(QuantRow)
      /\ \A s \in DOMAIN quant : quant[s].res <= quant[s].qty
      /\ \A a, b \in DOMAIN quant : a # b /\ Same(quant[a], quant[b])
                                    => quant[a].by = "search" \/ quant[b].by = "search"
  BY DEF StockInv, Good, RowsGood
<1>2. r \in DOMAIN quant /\ quant[r] \in QuantRow /\ quant[r].loc \in Loc
      /\ quant[r].qty \in Nat /\ quant[r].res \in Nat
  <2>1. t.row \in Nat /\ t.row <= Len(quant) /\ DOMAIN quant = 1..Len(quant) /\ Len(quant) \in Nat
    BY <1>1, TxnFacts, RowFacts DEF Placed
  <2>2. r \in DOMAIN quant
    BY <2>1
  <2>3. QED
    BY <1>1, <2>2, RowFacts
<1>3. /\ q \in QuantRow /\ q.qty = m /\ q.res = quant[r].res
      /\ q.loc = quant[r].loc /\ q.st = quant[r].st /\ q.by = quant[r].by
  BY <1>2, RowWith
<1>4. /\ quant' = [quant EXCEPT ![r] = q] /\ ledger' = Posted(M) /\ shipped' = shipped
      /\ txn' = [txn EXCEPT ![c] = Idle]
  BY DEF CommitStock
<1> HIDE DEF q
<1>5. /\ quant' \in Seq(QuantRow) /\ DOMAIN quant' = DOMAIN quant
      /\ Gains(quant, quant', q.loc, (q.qty - q.res) - (quant[r].qty - quant[r].res))
  BY <1>1, <1>2, <1>3, <1>4, SpareOfChange
<1>6. \A s \in DOMAIN quant : IF s = r THEN quant'[s] = q ELSE quant'[s] = quant[s]
  BY <1>2, <1>4
<1>7. \A s \in DOMAIN quant : Same(quant'[s], quant[s]) /\ quant'[s].by = quant[s].by
  BY <1>3, <1>6 DEF Same
<1>8. \A s \in DOMAIN quant' : quant'[s].res <= quant'[s].qty
  BY <1>1, <1>3, <1>5, <1>6
<1>9. RowsGood(quant')
  <2>1. ASSUME NEW a \in DOMAIN quant', NEW b \in DOMAIN quant', a # b, Same(quant'[a], quant'[b])
        PROVE  quant'[a].by = "search" \/ quant'[b].by = "search"
    <3>1. Same(quant[a], quant[b]) /\ quant'[a].by = quant[a].by /\ quant'[b].by = quant[b].by
      BY <2>1, <1>5, <1>7 DEF Same
    <3>2. QED
      BY <2>1, <3>1, <1>1, <1>5
  <2>2. QED
    BY <2>1, <1>5, <1>8 DEF RowsGood
<1>10. Effect(t, quant, quant')
  BY <1>5, <1>6, <1>7 DEF Effect
<1>11. StockInv'
  BY <1>4, <1>9, <1>10, CommitStep
<1>12. (q.qty - q.res) - (quant[r].qty - quant[r].res) = x + y
  BY <1>2, <1>3
<1>13. \A l : Spare(quant', l) = Spare(quant, l) + At(l, place, x + y)
  BY <1>3, <1>5, <1>12 DEF Gains
<1>14. \A l : Spare(quant, l) \in Int
  BY <1>1, RowFacts, SumInt DEF Spare
<1>15. /\ shipped' \in [Loc -> Nat] /\ \A l \in Loc : shipped[l] \in Int /\ drift[l] \in Int
  BY <1>4 DEF BooksInv
<1>16. ASSUME NEW l \in Loc
       PROVE  /\ Deltas(M, l) \in Int
              /\ Deltas(M, l) + (shipped'[l] - shipped[l]) + (drift'[l] - drift[l])
                   = Spare(quant', l) - Spare(quant, l)
  <2>1. PICK z \in Int : z = Spare(quant, l)
    BY <1>14
  <2>2. PICK d \in Int : d = drift[l]
    BY <1>15
  <2>3. PICK s \in Int : s = shipped[l]
    BY <1>15
  <2>4. /\ Deltas(M, l) = At(l, place, x) /\ drift'[l] = d + At(l, place, y)
        /\ Spare(quant', l) = z + At(l, place, x + y) /\ shipped'[l] = s
    BY <1>4, <1>13, <2>1, <2>2, <2>3 DEF Tells, Larger
  <2>5. /\ At(l, place, x) \in Int
        /\ At(l, place, x) + (s - s) + ((d + At(l, place, y)) - d)
             = (z + At(l, place, x + y)) - z
    <3>1. z \in Int /\ d \in Int /\ s \in Int
      BY <2>1, <2>2, <2>3
    <3>2. CASE l = place
      BY <3>1, <3>2 DEF At
    <3>3. CASE l # place
      BY <3>1, <3>3 DEF At
    <3>4. QED
      BY <3>2, <3>3
  <2>6. QED
    BY <2>1, <2>2, <2>3, <2>4, <2>5
<1>17. ledger' \in [Loc -> Int] /\ LedgerExplainsStock'
  BY <1>1, <1>4, <1>5, <1>15, <1>16, BooksBalance
<1>18. t.key \in Key \cup {NoKey}
  BY <1>1 DEF Shaped, TxnRec
<1>19. /\ DOMAIN keys' \subseteq Key /\ applied' \in [Key -> Nat]
       /\ \A k \in Key : applied'[k] = IF k \in DOMAIN keys' THEN 1 ELSE 0
  BY <1>18, KeysStep
<1>20. BooksInv'
  BY <1>15, <1>17, <1>19 DEF BooksInv
<1>21. QED
  BY <1>11, <1>20

(* An adjustment writes the quantity it was told or adds to the one it      *)
(* locked.                                                                  *)
LEMMA CommitAdjustStep ==
  ASSUME StockInv, BooksInv, NEW c \in Client, CommitAdjust(c)
  PROVE  StockInv' /\ BooksInv'
<1> DEFINE t == txn[c]
           delta == NextQuantity(c) - Src(c).qty
           M == <<Move("ADJUST", None, Src(c).loc, IF delta < 0 THEN -delta ELSE delta, delta)>>
<1>1. /\ t.op = "adjust" /\ t.pc = "commit" /\ drift' = drift
      /\ CommitStock(c, [quant EXCEPT ![t.row].qty = NextQuantity(c)], M)
  BY DEF CommitAdjust
<1>2. /\ Shaped(t) /\ Placed(t, quant) /\ Covered(t, quant) /\ quant \in Seq(QuantRow)
  BY DEF StockInv, Good, RowsGood
<1>3. t.row # 0 /\ t.doc \in {-1, 0, 1} /\ t.saw \in Nat /\ t.row \in Nat
  BY <1>1, <1>2, TxnFacts DEF Shaped
<1>4. PICK r : r = t.row
  OBVIOUS
<1>5. r # 0 /\ r \in DOMAIN quant /\ Src(c) = quant[r]
      /\ quant[r].loc \in Loc /\ quant[r].qty \in Nat /\ quant[r].res \in Nat
  <2>1. t.row <= Len(quant) /\ DOMAIN quant = 1..Len(quant) /\ Len(quant) \in Nat
    BY <1>2, RowFacts DEF Placed
  <2>2. r # 0 /\ r \in DOMAIN quant
    BY <1>3, <1>4, <2>1
  <2>3. QED
    BY <1>2, <1>4, <2>2, RowFacts DEF Src
<1>6. NextQuantity(c) \in Nat /\ NextQuantity(c) >= quant[r].res
  <2>1. NextQuantity(c) = Adjusted(t, quant)
    BY DEF NextQuantity, Adjusted, Src
  <2>2. Adjusted(t, quant) >= 0 /\ Adjusted(t, quant) >= quant[r].res
    BY <1>1, <1>2, <1>4 DEF Covered
  <2>3. NextQuantity(c) \in Int
    <3>1. NextQuantity(c) = IF t.doc = 0 THEN t.saw ELSE quant[r].qty + t.doc * t.saw
      BY <1>5 DEF NextQuantity
    <3>2. t.doc = -1 \/ t.doc = 0 \/ t.doc = 1
      BY <1>3
    <3>3. CASE t.doc = 0
      BY <3>1, <3>3, <1>3
    <3>4. CASE t.doc = 1
      BY <3>1, <3>4, <1>3, <1>5
    <3>5. CASE t.doc = -1
      BY <3>1, <3>5, <1>3, <1>5
    <3>6. QED
      BY <3>2, <3>3, <3>4, <3>5
  <2>4. QED
    BY <2>1, <2>2, <2>3
<1>7. PICK m \in Nat : m = NextQuantity(c)
  BY <1>6
<1>8. PICK place \in Loc : place = quant[r].loc
  BY <1>5
<1>9. PICK x \in Int : x = m - quant[r].qty
  BY <1>5
<1>10. PICK n \in Int : n = IF x < 0 THEN -x ELSE x
  OBVIOUS
<1>11. PICK N : N = <<Move("ADJUST", None, place, n, x)>>
  OBVIOUS
<1>12. M = N
  BY <1>5, <1>7, <1>8, <1>9, <1>10, <1>11
<1> HIDE DEF M
<1>23. PICK rows : rows = [quant EXCEPT ![r].qty = m]
  OBVIOUS
<1>13. CommitStock(c, rows, N)
  BY <1>1, <1>4, <1>7, <1>12, <1>23
<1>14. ASSUME NEW l \in Loc PROVE Deltas(N, l) = At(l, place, x)
  <2>1. ApplyDelta(Move("ADJUST", None, place, n, x), l) = At(l, place, x)
    BY InwardDelta
  <2>2. At(l, place, x) \in Int
    BY AtInt
  <2>3. QED
    BY <1>11, <2>1, <2>2, OneMove
<1>15. r \in LockedBy(t)
  BY <1>1, <1>4, <1>5 DEF LockedBy
<1>16. drift' \in [Loc -> Int] /\ \A l \in Loc : drift'[l] = drift[l] + At(l, place, 0)
  BY <1>1 DEF At, BooksInv
<1>17. N # <<>>
  BY <1>11
<1>18. m >= quant[r].res /\ x + 0 = m - quant[r].qty
  BY <1>5, <1>6, <1>7, <1>9
<1>19. PICK y \in Int : y = 0
  OBVIOUS
<1>20. /\ x + y = m - quant[r].qty /\ \A l \in Loc : drift'[l] = drift[l] + At(l, place, y)
  BY <1>16, <1>18, <1>19
<1>21. t.op \in {"adjust", "approve"} /\ t.row # 0 /\ t.row \in LockedBy(t)
  BY <1>1, <1>3, <1>4, <1>15
<1>22. QED
  <2>1. m \in Nat /\ x \in Int /\ y \in Int
    BY <1>7, <1>9, <1>19
  <2>2. /\ r = txn[c].row /\ m >= quant[r].res /\ N # <<>> /\ x + y = m - quant[r].qty
        /\ place = quant[r].loc /\ txn[c].row # 0 /\ txn[c].op \in {"adjust", "approve"}
        /\ txn[c].row \in LockedBy(txn[c]) /\ drift' \in [Loc -> Int]
    BY <1>4, <1>8, <1>16, <1>17, <1>18, <1>20, <1>21
  <2>3. Tells(N, place, x) /\ Larger(drift, drift', place, y)
    BY <1>14, <1>20 DEF Tells, Larger
  <2>4. QED
    BY <2>1, <2>2, <2>3, <1>13, <1>23, RowSetStep

(* The counts.                                                              *)
LEMMA CountBegins ==
  ASSUME StockInv, BooksInv, CountTypeOK, NEW c \in Client,
         \A r \in DOMAIN count : count[r].st # "NONE" => r \in Row,
         BeginSubmit(c) \/ BeginApprove(c)
  PROVE  StockInv' /\ BooksInv'
<1>1. /\ DOMAIN count = 1..NumRows /\ NumRows \in Nat
      /\ \A r \in DOMAIN count : count[r].expected \in Nat /\ count[r].counted \in Nat /\ r \in Nat /\ r # 0
  BY StockConstants DEF CountTypeOK
<1>2. CASE BeginSubmit(c)
  <2>1. PICK op \in {"count", "rfcount"}, r \in DOMAIN count, n \in Counted :
          Begin(c, Request(op, "commit", 0, 0, <<>>, NoKey, r, n))
    BY <1>2 DEF BeginSubmit
  <2>2. PICK d \in Int : d = r
    BY <1>1
  <2>3. PICK m \in Nat : m = n
    BY CountConstants
  <2>4. PICK z \in Int : z = 0
    OBVIOUS
  <2>5. Begin(c, Request(op, "commit", 0, z, <<>>, NoKey, d, m))
    BY <2>1, <2>2, <2>3, <2>4
  <2>6. QED
    BY <2>5, BeginsPlain
<1>3. CASE BeginApprove(c)
  <2>1. PICK r \in DOMAIN count :
          /\ count[r].st = "SUBMITTED"
          /\ Begin(c, Request("approve", IF Variance(r) = 0 THEN "commit" ELSE "source",
                              IF Variance(r) = 0 THEN 0 ELSE r, Variance(r), <<>>, NoKey, r,
                              count[r].counted))
    BY <1>3 DEF BeginApprove
  <2>2. PICK v \in Int : v = Variance(r)
    BY <1>1 DEF Variance
  <2>3. PICK n \in Nat : n = count[r].counted
    BY <1>1
  <2>4. PICK d \in Int : d = r
    BY <1>1
  <2>5. r \in DOMAIN quant /\ r # 0
    BY <1>1, <2>1 DEF Row
  <2>6. CASE v = 0
    <3>1. Begin(c, Request("approve", "commit", 0, v, <<>>, NoKey, d, n))
      BY <2>1, <2>2, <2>3, <2>4, <2>6
    <3>2. QED
      BY <3>1, BeginsPlain
  <2>7. CASE v # 0
    <3>1. Begin(c, Request("approve", "source", r, v, <<>>, NoKey, d, n))
      BY <2>1, <2>2, <2>3, <2>4, <2>7
    <3>2. QED
      BY <3>1, <2>4, <2>5, BeginsPlain
  <2>8. QED
    BY <2>6, <2>7
<1>4. QED
  BY <1>2, <1>3

(* The approval of a count locks a row that has no more reserved than was   *)
(* counted.                                                                 *)
LEMMA LockCountedStep ==
  ASSUME StockInv, BooksInv, NEW c \in Client, LockCounted(c)
  PROVE  StockInv' /\ BooksInv'
<1>1. txn[c].op = "approve" /\ LockSource(c, TRUE) /\ quant[txn[c].row].res <= txn[c].saw
  BY DEF LockCounted, LockSource, Src
<1>2. txn[c].op \notin Transfers
  BY <1>1 DEF Transfers
<1>3. Shaped(txn[c]) /\ quant \in Seq(QuantRow) /\ Placed(txn[c], quant) /\ txn[c].pc = "source"
  BY <1>1 DEF StockInv, Good, RowsGood, LockSource
<1>4. txn[c].saw \in Nat /\ quant[txn[c].row].res \in Nat
  <2>1. txn[c].row # 0
    BY <1>1, <1>3 DEF Shaped, None
  <2>2. txn[c].row \in Nat /\ txn[c].row <= Len(quant) /\ DOMAIN quant = 1..Len(quant) /\ Len(quant) \in Nat
    BY <1>3, TxnFacts, RowFacts DEF Placed
  <2>3. txn[c].row \in DOMAIN quant
    BY <2>1, <2>2
  <2>4. QED
    BY <1>3, <2>3, TxnFacts, RowFacts
<1>5. txn[c].saw >= quant[txn[c].row].res
  BY <1>1, <1>4
<1>6. QED
  BY <1>1, <1>2, <1>5, LockStep

(* The approval writes what was counted and books the difference it was     *)
(* shown: drift holds what the two disagree by.                             *)
LEMMA CommitApproveStep ==
  ASSUME StockInv, BooksInv, NEW c \in Client, CommitApprove(c)
  PROVE  StockInv' /\ BooksInv'
<1> DEFINE t == txn[c]
<1>1. t.op = "approve" /\ t.pc = "commit"
  BY DEF CommitApprove
<1>2. /\ Shaped(t) /\ Placed(t, quant) /\ Covered(t, quant) /\ quant \in Seq(QuantRow)
  BY DEF StockInv, Good, RowsGood
<1>3. CASE t.row = 0
  <2>1. txn' = [txn EXCEPT ![c] = Idle] /\ UNCHANGED <<quant, ledger, keys, applied, shipped, drift>>
    BY <1>3 DEF CommitApprove
  <2>2. QED
    BY <2>1, RollbackStep
<1>4. CASE t.row # 0
  <2>1. PICK r : r = t.row
    OBVIOUS
  <2>2. r = t.doc /\ r # 0
    BY <1>1, <1>2, <1>4, <2>1 DEF Shaped
  <2>3. /\ r \in DOMAIN quant /\ quant[r].loc \in Loc /\ quant[r].qty \in Nat /\ quant[r].res \in Nat
    <3>1. t.row \in Nat /\ t.row <= Len(quant) /\ DOMAIN quant = 1..Len(quant) /\ Len(quant) \in Nat
      BY <1>2, TxnFacts, RowFacts DEF Placed
    <3>2. r \in DOMAIN quant
      BY <1>4, <2>1, <3>1
    <3>3. QED
      BY <1>2, <3>2, RowFacts
  <2>4. PICK m \in Nat : m = t.saw
    BY <1>2, TxnFacts
  <2>5. PICK x \in Int : x = t.n
    BY <1>2, TxnFacts
  <2>6. PICK place : place = quant[r].loc
    OBVIOUS
  <2>7. PICK y \in Int : y = (m - quant[r].qty) - x
    BY <2>3, <2>4, <2>5
  <2>8. PICK rows : rows = [quant EXCEPT ![r].qty = m]
    OBVIOUS
  <2>9. PICK M : M = <<Move("ADJUST", None, place, x, x)>>
    OBVIOUS
  <2>10. /\ CommitStock(c, rows, M)
         /\ drift' = [drift EXCEPT ![place] = @ + (m - quant[r].qty) - x]
    BY <1>4, <2>2, <2>4, <2>5, <2>6, <2>8, <2>9 DEF CommitApprove
  <2>11. place \in Loc /\ m \in Nat /\ x \in Int /\ y \in Int
    BY <2>3, <2>4, <2>5, <2>6, <2>7
  <2>12. Tells(M, place, x)
    <3> SUFFICES ASSUME NEW l \in Loc PROVE Deltas(M, l) = At(l, place, x)
      BY DEF Tells
    <3>1. ApplyDelta(Move("ADJUST", None, place, x, x), l) = At(l, place, x)
      BY <2>11, InwardDelta
    <3>2. At(l, place, x) \in Int
      BY <2>11, AtInt
    <3>3. QED
      BY <2>9, <3>1, <3>2, OneMove
  <2>13. drift' \in [Loc -> Int] /\ Larger(drift, drift', place, y)
    <3>1. drift \in [Loc -> Int]
      BY DEF BooksInv
    <3>2. PICK d \in Int : d = drift[place]
      BY <2>11, <3>1
    <3>3. d \in Int /\ d + (m - quant[r].qty) - x = d + y
      BY <2>3, <2>7, <2>11, <3>2
    <3>4. drift' = [drift EXCEPT ![place] = d + y] /\ d + y \in Int
      <4>1. drift' = [drift EXCEPT ![place] = drift[place] + (m - quant[r].qty) - x]
        BY <2>10
      <4>2. drift[place] + (m - quant[r].qty) - x = d + y
        BY <3>2, <3>3
      <4>3. drift' = [drift EXCEPT ![place] = d + y]
        BY <4>1, <4>2
      <4>4. d + y \in Int
        BY <3>3, <2>11
      <4>5. QED
        BY <4>3, <4>4
    <3>5. drift' \in [Loc -> Int]
      BY <3>1, <3>4
    <3>6. ASSUME NEW l \in Loc PROVE drift'[l] = drift[l] + At(l, place, y)
      <4>1. CASE l = place
        BY <4>1, <3>1, <3>2, <3>4, <2>11 DEF At
      <4>2. CASE l # place
        <5>1. drift'[l] = drift[l] /\ drift[l] \in Int
          BY <4>2, <3>1, <3>4
        <5>2. QED
          BY <4>2, <5>1 DEF At
      <4>3. QED
        BY <4>1, <4>2
    <3>7. QED
      BY <3>5, <3>6 DEF Larger
  <2>14. m >= quant[r].res /\ x + y = m - quant[r].qty
    <3>1. m >= quant[r].res
      BY <1>1, <1>2, <1>4, <2>1, <2>4 DEF Covered
    <3>2. QED
      BY <3>1, <2>3, <2>7, <2>11
  <2>15. M # <<>>
    BY <2>9
  <2>16. r \in LockedBy(t)
    BY <1>1, <2>1, <2>2 DEF LockedBy
  <2>17. /\ r = txn[c].row /\ txn[c].row # 0 /\ txn[c].op \in {"adjust", "approve"}
         /\ txn[c].row \in LockedBy(txn[c])
    BY <1>1, <1>4, <2>1, <2>16
  <2>18. QED
    BY <2>6, <2>8, <2>10, <2>11, <2>12, <2>13, <2>14, <2>15, <2>17, RowSetStep
<1>5. QED
  BY <1>3, <1>4

-----------------------------------------------------------------------------
(* The order side: the row q in place of row r, which is free, and what a   *)
(* location has changes by x, of which the movement tells y and the rest is *)
(* shipped.                                                                 *)
LEMMA OrderRow ==
  ASSUME StockInv, BooksInv, NEW r \in Row, Unlocked(r), NEW q \in QuantRow,
         Same(q, quant[r]), q.by = quant[r].by, q.res <= q.qty,
         quant' = [quant EXCEPT ![r] = q], txn' = txn,
         UNCHANGED <<keys, applied, drift>>,
         NEW place, place = quant[r].loc, NEW M, ledger' = Posted(M),
         NEW y \in Int, Tells(M, place, y),
         shipped' \in [Loc -> Nat], NEW z \in Int, Larger(shipped, shipped', place, z),
         (q.qty - q.res) - (quant[r].qty - quant[r].res) = y + z
  PROVE  StockInv' /\ BooksInv'
<1>1. /\ quant \in Seq(QuantRow) /\ txn \in [Client -> TxnRec]
      /\ \A s \in DOMAIN quant : quant[s].res <= quant[s].qty
      /\ \A a, b \in DOMAIN quant : a # b /\ Same(quant[a], quant[b])
                                    => quant[a].by = "search" \/ quant[b].by = "search"
  BY DEF StockInv, RowsGood
<1>2. r \in DOMAIN quant /\ q.loc = quant[r].loc
  BY DEF Row, Same
<1>3. /\ quant' \in Seq(QuantRow) /\ DOMAIN quant' = DOMAIN quant
      /\ Gains(quant, quant', q.loc, (q.qty - q.res) - (quant[r].qty - quant[r].res))
  BY <1>1, <1>2, SpareOfChange
<1>4. \A s \in DOMAIN quant : IF s = r THEN quant'[s] = q ELSE quant'[s] = quant[s]
  BY <1>2
<1>5. \A s \in DOMAIN quant : Same(quant'[s], quant[s]) /\ quant'[s].by = quant[s].by
  BY <1>4 DEF Same
<1>6. RowsGood(quant')
  <2>1. \A s \in DOMAIN quant' : quant'[s].res <= quant'[s].qty
    BY <1>1, <1>3, <1>4
  <2>2. ASSUME NEW a \in DOMAIN quant', NEW b \in DOMAIN quant', a # b, Same(quant'[a], quant'[b])
        PROVE  quant'[a].by = "search" \/ quant'[b].by = "search"
    <3>1. Same(quant[a], quant[b]) /\ quant'[a].by = quant[a].by /\ quant'[b].by = quant[b].by
      BY <2>2, <1>3, <1>5 DEF Same
    <3>2. QED
      BY <2>2, <3>1, <1>1, <1>3
  <2>3. QED
    BY <2>1, <2>2, <1>3 DEF RowsGood
<1>7. ASSUME NEW d \in Client PROVE r \notin LockedBy(txn[d])
  <2>1. r # 0
    BY <1>1, <1>2, RowFacts
  <2>2. QED
    BY <2>1 DEF Unlocked, Locks, HeldRows, LockedBy
<1>8. StockInv'
  BY <1>3, <1>4, <1>5, <1>6, <1>7, FreeStep
<1>9. \A l : Spare(quant', l) = Spare(quant, l) + At(l, place, y + z)
  BY <1>2, <1>3 DEF Gains
<1>10. \A l : Spare(quant, l) \in Int
  BY <1>1, RowFacts, SumInt DEF Spare
<1>11. drift' \in [Loc -> Int] /\ \A l \in Loc : shipped[l] \in Int /\ drift[l] \in Int
  BY DEF BooksInv
<1>12. ASSUME NEW l \in Loc
       PROVE  /\ Deltas(M, l) \in Int
              /\ Deltas(M, l) + (shipped'[l] - shipped[l]) + (drift'[l] - drift[l])
                   = Spare(quant', l) - Spare(quant, l)
  <2>1. PICK x \in Int : x = Spare(quant, l)
    BY <1>10
  <2>2. PICK d \in Int : d = drift[l]
    BY <1>11
  <2>3. PICK s \in Int : s = shipped[l]
    BY <1>11
  <2>4. /\ Deltas(M, l) = At(l, place, y) /\ shipped'[l] = s + At(l, place, z)
        /\ Spare(quant', l) = x + At(l, place, y + z) /\ drift'[l] = d
    BY <1>9, <2>1, <2>2, <2>3 DEF Tells, Larger
  <2>5. /\ At(l, place, y) \in Int
        /\ At(l, place, y) + ((s + At(l, place, z)) - s) + (d - d)
             = (x + At(l, place, y + z)) - x
    <3>1. x \in Int /\ d \in Int /\ s \in Int
      BY <2>1, <2>2, <2>3
    <3>2. CASE l = place
      BY <3>1, <3>2 DEF At
    <3>3. CASE l # place
      BY <3>1, <3>3 DEF At
    <3>4. QED
      BY <3>2, <3>3
  <2>6. QED
    BY <2>1, <2>2, <2>3, <2>4, <2>5
<1>13. ledger' \in [Loc -> Int] /\ LedgerExplainsStock'
  BY <1>1, <1>3, <1>11, <1>12, BooksBalance
<1>14. QED
  BY <1>8, <1>11, <1>13 DEF BooksInv

(* What a movement of the order side tells: the other way round but for the *)
(* cancellation of a reservation.                                           *)
LEMMA OrderTells ==
  ASSUME NEW place \in Loc, NEW n \in Nat, NEW y \in Int,
         NEW type \in {"RESERVE", "PICK", "CANCEL_RESERVATION"},
         y = IF type = "CANCEL_RESERVATION" THEN n ELSE -n,
         NEW M, M = <<Move(type, place, None, n, 0)>>
  PROVE  Tells(M, place, y)
<1> SUFFICES ASSUME NEW l \in Loc PROVE Deltas(M, l) = At(l, place, y)
  BY DEF Tells
<1> DEFINE m == Move(type, place, None, n, 0)
<1>1. ApplyDelta(m, l) = IF type = "CANCEL_RESERVATION" THEN At(l, place, n) ELSE -At(l, place, n)
  BY OrderDelta
<1> HIDE DEF m
<1>2. ApplyDelta(m, l) = At(l, place, y) /\ At(l, place, y) \in Int
  BY <1>1 DEF At
<1>3. Deltas(<<m>>, l) = ApplyDelta(m, l)
  BY <1>2, OneMove
<1>4. QED
  BY <1>2, <1>3 DEF m

(* A table nothing was added to,                                            *)
LEMMA NoneLarger ==
  ASSUME NEW f \in [Loc -> Nat], NEW place, NEW z \in Int, z = 0
  PROVE  Larger(f, f, place, z)
<1> SUFFICES ASSUME NEW l \in Loc PROVE f[l] = f[l] + At(l, place, z)
  BY DEF Larger
<1>1. PICK x \in Nat : x = f[l]
  OBVIOUS
<1>2. At(l, place, z) = 0
  BY DEF At
<1>3. x = x + 0
  OBVIOUS
<1>4. QED
  BY <1>1, <1>2, <1>3

(* and one with something added at one place.                               *)
LEMMA OneLarger ==
  ASSUME NEW f \in [Loc -> Nat], NEW place \in Loc, NEW z \in Nat,
         NEW g, g = [f EXCEPT ![place] = @ + z]
  PROVE  g \in [Loc -> Nat] /\ Larger(f, g, place, z)
<1>1. PICK x \in Nat : x = f[place]
  OBVIOUS
<1>2. g = [f EXCEPT ![place] = x + z] /\ x + z \in Nat
  BY <1>1
<1>3. g \in [Loc -> Nat]
  BY <1>2
<1>4. ASSUME NEW l \in Loc PROVE g[l] = f[l] + At(l, place, z)
  <2>1. CASE l = place
    BY <2>1, <1>1, <1>2 DEF At
  <2>2. CASE l # place
    <3>1. g[l] = f[l] /\ f[l] \in Nat
      BY <2>2, <1>2
    <3>2. QED
      BY <2>2, <3>1 DEF At
  <2>3. QED
    BY <2>1, <2>2
<1>5. QED
  BY <1>3, <1>4 DEF Larger

(* A row with another reservation.                                          *)
LEMMA RowWithReserved ==
  ASSUME NEW row \in QuantRow, NEW m \in Nat, NEW q, q = [row EXCEPT !.res = m]
  PROVE  /\ q \in QuantRow /\ q.qty = row.qty /\ q.res = m /\ Same(q, row) /\ q.by = row.by
BY DEF QuantRow, Same

(* What the order side does to a row: reserve, release, pick.               *)
LEMMA OrderSideStep ==
  ASSUME StockInv, BooksInv, OrderSide
  PROVE  StockInv' /\ BooksInv'
<1>1. PICK r \in Row, n \in Amount :
         ReserveStockQuant(r, n) \/ ReleaseStockQuant(r, n) \/ PickStockQuant(r, n)
  BY DEF OrderSide
<1>2. quant \in Seq(QuantRow) /\ quant[r].res <= quant[r].qty /\ r \in DOMAIN quant
  BY DEF StockInv, RowsGood, Row
<1>3. PICK row : row = quant[r]
  OBVIOUS
<1>4. row \in QuantRow /\ row.qty \in Nat /\ row.res \in Nat /\ row.loc \in Loc /\ row.res <= row.qty
  BY <1>2, <1>3, RowFacts
<1>5. PICK a \in Nat : a = row.qty
  BY <1>4
<1>6. PICK b \in Nat : b = row.res
  BY <1>4
<1>7. n \in Nat /\ n > 0 /\ n \in Int
  BY Given
<1>8. PICK place : place = quant[r].loc
  OBVIOUS
<1>9. place \in Loc /\ b <= a
  BY <1>3, <1>4, <1>5, <1>6, <1>8
<1>10. /\ Unlocked(r) /\ txn' = txn /\ UNCHANGED <<keys, applied, drift>>
  BY <1>1 DEF ReserveStockQuant, ReleaseStockQuant, PickStockQuant, OrderStep
<1>11. shipped \in [Loc -> Nat]
  BY DEF BooksInv
<1>12. PICK none \in Int : none = 0
  OBVIOUS
<1>13. PICK less \in Int : less = -n
  BY <1>7
<1>14. CASE ReserveStockQuant(r, n)
  <2>1. PICK q : q = [row EXCEPT !.res = b + n]
    OBVIOUS
  <2>2. /\ quant' = [quant EXCEPT ![r] = q] /\ n <= a - b /\ shipped' = shipped
    <3>1. quant' = [quant EXCEPT ![r] = [quant[r] EXCEPT !.res = quant[r].res + n]]
      BY <1>14 DEF ReserveStockQuant
    <3>2. n <= quant[r].qty - quant[r].res /\ shipped' = shipped
      BY <1>14 DEF ReserveStockQuant
    <3>3. QED
      BY <2>1, <3>1, <3>2, <1>3, <1>5, <1>6
  <2>3. b + n \in Nat /\ b + n <= a /\ (a - (b + n)) - (a - b) = less + none
    BY <1>7, <1>9, <1>12, <1>13, <2>2
  <2>4. /\ q \in QuantRow /\ q.qty = a /\ q.res = b + n /\ Same(q, quant[r]) /\ q.by = quant[r].by
    BY <1>3, <1>4, <1>5, <2>1, <2>3, RowWithReserved
  <2>5. PICK M : M = <<Move("RESERVE", place, None, n, 0)>>
    OBVIOUS
  <2>6. ledger' = Posted(M)
    BY <1>8, <1>14, <2>5 DEF ReserveStockQuant, OrderStep
  <2>7. PICK type \in {"RESERVE", "PICK", "CANCEL_RESERVATION"} : type = "RESERVE"
    OBVIOUS
  <2>8. Tells(M, place, less)
    <3>1. M = <<Move(type, place, None, n, 0)>>
      BY <2>5, <2>7
    <3>2. less = IF type = "CANCEL_RESERVATION" THEN n ELSE -n
      BY <1>13, <2>7
    <3>3. QED
      BY <1>7, <1>9, <3>1, <3>2, OrderTells
  <2>9. Larger(shipped, shipped', place, none) /\ shipped' \in [Loc -> Nat]
    BY <1>11, <1>12, <2>2, NoneLarger
  <2>10. q.res <= q.qty /\ (q.qty - q.res) - (quant[r].qty - quant[r].res) = less + none
    BY <2>3, <2>4, <1>3, <1>5, <1>6
  <2>11. QED
    BY <1>8, <1>10, <2>2, <2>4, <2>6, <2>8, <2>9, <2>10, OrderRow
<1>15. CASE ReleaseStockQuant(r, n)
  <2>1. PICK q : q = [row EXCEPT !.res = b - n]
    OBVIOUS
  <2>2. /\ quant' = [quant EXCEPT ![r] = q] /\ n <= b /\ shipped' = shipped
    <3>1. quant' = [quant EXCEPT ![r] = [quant[r] EXCEPT !.res = quant[r].res - n]]
      BY <1>15 DEF ReleaseStockQuant
    <3>2. n <= quant[r].res /\ shipped' = shipped
      BY <1>15 DEF ReleaseStockQuant
    <3>3. QED
      BY <2>1, <3>1, <3>2, <1>3, <1>5, <1>6
  <2>3. b - n \in Nat /\ b - n <= a /\ (a - (b - n)) - (a - b) = n + none
    BY <1>7, <1>9, <1>12, <2>2
  <2>4. /\ q \in QuantRow /\ q.qty = a /\ q.res = b - n /\ Same(q, quant[r]) /\ q.by = quant[r].by
    BY <1>3, <1>4, <1>5, <2>1, <2>3, RowWithReserved
  <2>5. PICK M : M = <<Move("CANCEL_RESERVATION", place, None, n, 0)>>
    OBVIOUS
  <2>6. ledger' = Posted(M)
    BY <1>8, <1>15, <2>5 DEF ReleaseStockQuant, OrderStep
  <2>7. PICK type \in {"RESERVE", "PICK", "CANCEL_RESERVATION"} : type = "CANCEL_RESERVATION"
    OBVIOUS
  <2>8. Tells(M, place, n)
    <3>1. M = <<Move(type, place, None, n, 0)>>
      BY <2>5, <2>7
    <3>2. n = IF type = "CANCEL_RESERVATION" THEN n ELSE -n
      BY <2>7
    <3>3. QED
      BY <1>7, <1>9, <3>1, <3>2, OrderTells
  <2>9. Larger(shipped, shipped', place, none) /\ shipped' \in [Loc -> Nat]
    BY <1>11, <1>12, <2>2, NoneLarger
  <2>10. q.res <= q.qty /\ (q.qty - q.res) - (quant[r].qty - quant[r].res) = n + none
    BY <2>3, <2>4, <1>3, <1>5, <1>6
  <2>11. QED
    BY <1>7, <1>8, <1>10, <2>2, <2>4, <2>6, <2>8, <2>9, <2>10, OrderRow
<1>16. CASE PickStockQuant(r, n)
  <2>1. PICK q : q = [row EXCEPT !.qty = a - n, !.res = b - n]
    OBVIOUS
  <2>2. /\ quant' = [quant EXCEPT ![r] = q] /\ n <= b
        /\ shipped' = [shipped EXCEPT ![place] = @ + n]
    <3>1. quant' = [quant EXCEPT ![r] = [quant[r] EXCEPT !.qty = quant[r].qty - n,
                                                        !.res = quant[r].res - n]]
      <4>1. quant' = [quant EXCEPT ![r].qty = @ - n, ![r].res = @ - n]
        BY <1>16 DEF PickStockQuant
      <4>2. QED
        BY <4>1, <1>2
    <3>2. n <= quant[r].res /\ shipped' = [shipped EXCEPT ![quant[r].loc] = @ + n]
      BY <1>16 DEF PickStockQuant
    <3>3. QED
      BY <2>1, <3>1, <3>2, <1>3, <1>5, <1>6, <1>8
  <2>3. a - n \in Nat /\ b - n \in Nat /\ b - n <= a - n
        /\ ((a - n) - (b - n)) - (a - b) = less + n
    BY <1>7, <1>9, <1>13, <2>2
  <2>4. /\ q \in QuantRow /\ q.qty = a - n /\ q.res = b - n /\ Same(q, quant[r]) /\ q.by = quant[r].by
    <3>1. PICK a2 \in Nat : a2 = a - n
      BY <2>3
    <3>2. PICK b2 \in Nat : b2 = b - n
      BY <2>3
    <3>3. q = [row EXCEPT !.qty = a2, !.res = b2]
      BY <2>1, <3>1, <3>2
    <3>4. /\ q \in QuantRow /\ q.qty = a2 /\ q.res = b2 /\ Same(q, row) /\ q.by = row.by
      BY <1>4, <3>3 DEF QuantRow, Same
    <3>5. QED
      BY <1>3, <3>1, <3>2, <3>4
  <2>5. PICK M : M = <<Move("PICK", place, None, n, 0)>>
    OBVIOUS
  <2>6. ledger' = Posted(M)
    BY <1>8, <1>16, <2>5 DEF PickStockQuant, OrderStep
  <2>7. PICK type \in {"RESERVE", "PICK", "CANCEL_RESERVATION"} : type = "PICK"
    OBVIOUS
  <2>8. Tells(M, place, less)
    <3>1. M = <<Move(type, place, None, n, 0)>>
      BY <2>5, <2>7
    <3>2. less = IF type = "CANCEL_RESERVATION" THEN n ELSE -n
      BY <1>13, <2>7
    <3>3. QED
      BY <1>7, <1>9, <3>1, <3>2, OrderTells
  <2>9. Larger(shipped, shipped', place, n) /\ shipped' \in [Loc -> Nat]
    BY <1>7, <1>9, <1>11, <2>2, OneLarger
  <2>10. q.res <= q.qty /\ (q.qty - q.res) - (quant[r].qty - quant[r].res) = less + n
    BY <2>3, <2>4, <1>3, <1>5, <1>6
  <2>11. QED
    BY <1>7, <1>8, <1>10, <2>2, <2>4, <2>6, <2>8, <2>9, <2>10, OrderRow
<1>17. QED
  BY <1>1, <1>14, <1>15, <1>16

-----------------------------------------------------------------------------
(* Tasks.  The least of a set of rows is one of them.                       *)
LEMMA LeastIsIn ==
  ASSUME NEW S, S \subseteq Nat, S # {}
  PROVE  Min(S) \in S
<1> DEFINE less == OpToRel(<, Nat)
<1>1. IsWellFoundedOn(less, Nat)
  BY NatLessThanWellFounded
<1>2. \A x, y \in Nat : <<y, x>> \in less <=> y < x
  BY DEF OpToRel
<1> HIDE DEF less
<1>3. \E x \in S : \A y \in S : <<y, x>> \notin less
  BY <1>1, WFMin
<1>4. \E x \in S : \A y \in S : x <= y
  <2>1. PICK x \in S : \A y \in S : <<y, x>> \notin less
    BY <1>3
  <2>2. ASSUME NEW y \in S PROVE x <= y
    <3>1. PICK i \in Nat : i = x
      BY <2>1
    <3>2. PICK j \in Nat : j = y
      BY <2>2
    <3>3. ~ (j < i)
      BY <1>2, <2>1, <2>2, <3>1, <3>2
    <3>4. QED
      BY <3>1, <3>2, <3>3
  <2>3. QED
    BY <2>1, <2>2
<1>5. QED
  BY <1>4 DEF Min

(* What lies unreserved at the pick face is a number.                       *)
LEMMA RequiredIsNatural ==
  ASSUME quant \in Seq(QuantRow), Required > 0
  PROVE  Required \in Nat
<1> DEFINE R == {r \in Row : quant[r].loc = PickFace}
           f == [r \in Row |-> Available(r)]
           Rec(g) == g = [s \in SUBSET R |-> IF s = {} THEN 0
                            ELSE Available(First(s)) + g[s \ {First(s)}]]
           there == MapThenSumSet(Available, R)
<1>1. IsFiniteSet(R)
  BY RowFacts, FS_Subset DEF Row
<1>2. \A s \in SUBSET R : s # {} => First(s) \in Row
  BY DEF First
<1>3. \A g : Rec(g) <=> Sums(g, f, R)
  BY <1>2 DEF Sums
<1>4. there = (CHOOSE g : Rec(g))[R]
  BY DEF MapThenSumSet, MapThenFoldSet, First
<1>5. \A r \in R : f[r] \in Int
  BY RowFacts DEF Available, Row
<1> HIDE DEF Rec, f, R
<1>6. \E g : Rec(g)
  BY <1>1, <1>3, TableExists
<1>7. PICK g : g = CHOOSE h : Rec(h)
  OBVIOUS
<1>8. Sums(g, f, R)
  BY <1>3, <1>6, <1>7
<1>9. there \in Int
  <2>1. Sums(Table(f, R), f, R)
    BY <1>1, TableExists
  <2>2. g[R] = Table(f, R)[R]
    BY <1>1, <1>8, <2>1, TablesAgree
  <2>3. Table(f, R)[R] = SumOf(f, R)
    BY <1>1, SumIsTable
  <2>4. there = g[R]
    BY <1>4, <1>7
  <2>5. QED
    BY <1>1, <1>5, <2>2, <2>3, <2>4, SumInt
<1> HIDE DEF there
<1>10. Required = IF there >= MinPick \/ Target <= there THEN 0 ELSE Target - there
  BY DEF Required, there, R
<1>11. QED
  BY <1>9, <1>10, MoveConstants

(* The source a replenishment is evaluated with is a row.                   *)
LEMMA SourceIsRow ==
  ASSUME quant \in Seq(QuantRow), SourceQuant # 0
  PROVE  SourceQuant \in Row
<1> DEFINE from   == {r \in Row : quant[r].st = "AVAILABLE" /\ quant[r].loc # PickFace
                                  /\ Available(r) > 0}
           enough == {r \in from : Available(r) >= Required}
<1>1. Row \subseteq Nat
  BY RowFacts DEF Row
<1>2. enough # {} => Min(enough) \in enough
  BY <1>1, LeastIsIn
<1>3. from # {} => Min(from) \in from
  BY <1>1, LeastIsIn
<1>4. SourceQuant = IF enough # {} THEN Min(enough) ELSE IF from # {} THEN Min(from) ELSE 0
  BY DEF SourceQuant
<1>5. QED
  BY <1>2, <1>3, <1>4

(* A task names a row that is there.                                        *)
LEMMA TaskFacts ==
  ASSUME StockInv, DocsInv, NEW i \in Task
  PROVE  /\ i \in Nat /\ i \in Int
         /\ move[i].row \in DOMAIN quant /\ move[i].row \in Nat /\ move[i].to \in Loc
         /\ move[i].n \in Nat /\ move[i].times \in Nat
<1>1. move \in Seq(MoveRec) /\ \A m \in DOMAIN move : move[m].row \in Row
  BY DEF DocsInv, MoveTypeOK
<1>2. i \in 1..Len(move) /\ Len(move) \in Nat /\ move[i] \in MoveRec
  BY <1>1, LenProperties DEF Task
<1>3. QED
  BY <1>1, <1>2 DEF MoveRec, Row, Task

(* A putaway begins at the row of its task, or at another.                  *)
LEMMA PutawayBegins ==
  ASSUME StockInv, BooksInv, DocsInv, NEW c \in Client, BeginPutaway(c)
  PROVE  StockInv' /\ BooksInv'
<1>0. PICK i \in Task, r \in Row, l \in Loc, k \in Key \cup {NoKey} : \E n \in Amount \cup {move[i].n} :
        /\ AssertPutawayQuantity(r, n)
        /\ Begin(c, Request("putaway", "source", r, n, <<Put(l, quant[r].st, n)>>, k, i, 0))
  BY DEF BeginPutaway
<1>1. PICK n \in Amount \cup {move[i].n} :
        /\ AssertPutawayQuantity(r, n)
        /\ Begin(c, Request("putaway", "source", r, n, <<Put(l, quant[r].st, n)>>, k, i, 0))
  BY <1>0
<1>2. n \in Nat
  BY <1>1, TaskFacts, StockConstants
<1>3. r \in DOMAIN quant
  BY DEF Row
<1>4. PICK s \in QuantStatus : s = quant[r].st
  BY Given DEF Row
<1>5. Begin(c, Request("putaway", "source", r, n, <<Put(l, s, n)>>, k, i, 0))
  BY <1>1, <1>4
<1>6. n \in Nat \ {0} /\ "putaway" \in Transfers /\ i \in Int
  BY <1>1, <1>2, TaskFacts DEF AssertPutawayQuantity, Transfers
<1>7. QED
  BY <1>3, <1>5, <1>6, BeginsTransfer

(* A replenishment begins at the row of its task.                           *)
LEMMA ReplenishBegins ==
  ASSUME StockInv, BooksInv, DocsInv, NEW c \in Client, BeginReplenish(c)
  PROVE  StockInv' /\ BooksInv'
<1>1. PICK i \in Task :
        Begin(c, Request("replenish", "source", move[i].row, 0,
                         <<Put(PickFace, "AVAILABLE", 1)>>, NoKey, i, 0))
  BY DEF BeginReplenish
<1>2. PICK r \in DOMAIN quant : r = move[i].row
  BY TaskFacts
<1>3. PICK n \in Nat : n = 0
  OBVIOUS
<1>4. PICK m \in Nat \ {0} : m = 1
  OBVIOUS
<1>5. Begin(c, Request("replenish", "source", r, n, <<Put(PickFace, "AVAILABLE", m)>>, NoKey, i, 0))
  BY <1>1, <1>2, <1>3, <1>4
<1>6. "replenish" \in Transfers /\ i \in Int /\ PickFace \in Loc /\ "AVAILABLE" \in QuantStatus
      /\ NoKey \in Key \cup {NoKey}
  BY TaskFacts, MoveConstants DEF Transfers, QuantStatus
<1>7. PICK op \in Transfers : op = "replenish"
  BY <1>6
<1>8. Begin(c, Request(op, "source", r, n, <<Put(PickFace, "AVAILABLE", m)>>, NoKey, i, 0))
      /\ (op # "replenish" => m = n)
  BY <1>5, <1>7
<1>9. QED
  BY <1>6, <1>8, BeginsTransfer

(* An evaluation that found something to do.                                *)
LEMMA EvaluateBegins ==
  ASSUME StockInv, BooksInv, NEW c \in Client, BeginEvaluate(c)
  PROVE  StockInv' /\ BooksInv'
<1>1. /\ Required > 0 /\ SourceQuant # 0
      /\ Begin(c, Request("evaluate", "commit", 0, Required, <<>>, NoKey, SourceQuant, 0))
  BY DEF BeginEvaluate
<1>2. quant \in Seq(QuantRow)
  BY DEF StockInv, RowsGood
<1>3. PICK n \in Int : n = Required
  BY <1>1, <1>2, RequiredIsNatural
<1>4. SourceQuant \in Row /\ Row \subseteq Nat
  BY <1>1, <1>2, SourceIsRow, RowFacts DEF Row
<1>5. PICK doc \in Int : doc = SourceQuant
  BY <1>4
<1>6. Begin(c, Request("evaluate", "commit", 0, n, <<>>, NoKey, doc, 0))
  BY <1>1, <1>3, <1>5
<1>7. 0 \in DOMAIN quant \cup {0} /\ NoKey \in Key \cup {NoKey} /\ 0 \in Nat
  OBVIOUS
<1>8. QED
  BY <1>6, <1>7, BeginsPlain

-----------------------------------------------------------------------------
(* The lock of a demand: how much is taken is settled now.                  *)
Settled(t, n) ==
  [t EXCEPT !.pc = "identity", !.n = n, !.puts = <<Put(PickFace, "AVAILABLE", n)>>]

(* A replenishment that has settled what it moves, field by field.          *)
LEMMA SettledFields ==
  ASSUME NEW t \in TxnRec, NEW n \in Nat \ {0}, NEW u, Settled(t, n) = u
  PROVE  /\ u \in TxnRec /\ u.pc = "identity" /\ u.n = n /\ u.puts = <<Put(PickFace, "AVAILABLE", n)>>
         /\ u.op = t.op /\ u.row = t.row /\ u.into = t.into /\ u.key = t.key /\ u.doc = t.doc
         /\ u.saw = t.saw /\ u.st = t.st
<1> DEFINE puts == <<Put(PickFace, "AVAILABLE", n)>>
<1>1. Put(PickFace, "AVAILABLE", n) \in PutSet
  BY PutFacts, MoveConstants DEF QuantStatus
<1>2. puts \in Seq(PutSet) /\ n \in Int
  BY <1>1
<1> HIDE DEF puts
<1>3. u = [t EXCEPT !.pc = "identity", !.n = n, !.puts = puts]
  BY DEF Settled, puts
<1>4. /\ u \in TxnRec /\ u.pc = "identity" /\ u.n = n /\ u.puts = puts
      /\ u.op = t.op /\ u.row = t.row /\ u.into = t.into /\ u.key = t.key /\ u.doc = t.doc
      /\ u.saw = t.saw /\ u.st = t.st
  BY <1>2, <1>3 DEF TxnRec
<1>5. QED
  BY <1>4 DEF puts

(* The lock of the source settles how much is moved: no more than lies      *)
(* there unreserved.                                                        *)
LEMMA ReplenishLocks ==
  ASSUME StockInv, BooksInv, DocsInv, NEW c \in Client, LockReplenish(c)
  PROVE  StockInv' /\ BooksInv'
<1> DEFINE t == txn[c]
<1>1. /\ t.op = "replenish" /\ t.pc = "source" /\ Free(c, t.row)
      /\ UNCHANGED <<quant, ledger, keys, applied, shipped, drift>>
  BY DEF LockReplenish
<1>2. /\ Shaped(t) /\ Placed(t, quant) /\ t \in TxnRec /\ quant \in Seq(QuantRow)
      /\ txn \in [Client -> TxnRec]
  BY DEF StockInv, Good, RowsGood, Shaped
<1>3. PICK n \in Amount \cup {Min({move[t.doc].n, Available(t.row)})} :
        /\ 0 < n /\ n <= Available(t.row)
        /\ txn' = [txn EXCEPT ![c].pc = "identity", ![c].n = n,
                              ![c].puts = <<Put(PickFace, "AVAILABLE", n)>>]
  BY DEF LockReplenish
<1>4. t.row # 0 /\ t.into = <<>> /\ t.row \in DOMAIN quant
  <2>1. t.row # 0 /\ t.into = <<>>
    BY <1>1, <1>2 DEF Shaped, Transfers
  <2>2. t.row \in Nat /\ t.row <= Len(quant) /\ DOMAIN quant = 1..Len(quant) /\ Len(quant) \in Nat
    BY <1>2, TxnFacts, RowFacts DEF Placed
  <2>3. QED
    BY <2>1, <2>2
<1>5. quant[t.row].qty \in Nat /\ quant[t.row].res \in Nat
  BY <1>2, <1>4, RowFacts
<1>6. n \in Nat \ {0}
  <2>1. t.doc \in Task
    BY <1>1 DEF DocsInv, AboutIn, Task
  <2>2. move[t.doc].n \in Nat /\ Available(t.row) \in Nat
    BY <1>5, <2>1, TaskFacts DEF Available
  <2>3. Min({move[t.doc].n, Available(t.row)}) \in Nat
    BY <2>2, LeastIsIn
  <2>4. QED
    BY <1>3, <2>3, Given
<1>7. quant[t.row].qty - n >= quant[t.row].res
  <2>1. Available(t.row) = IF quant[t.row].qty > quant[t.row].res
                           THEN quant[t.row].qty - quant[t.row].res ELSE 0
    BY DEF Available
  <2>2. QED
    BY <1>3, <1>5, <1>6, <2>1
<1>8. PICK u : u = Settled(t, n)
  OBVIOUS
<1>9. txn' = [txn EXCEPT ![c] = u]
  BY <1>2, <1>3, <1>8 DEF Settled
<1>10. /\ u \in TxnRec /\ u.pc = "identity" /\ u.n = n /\ u.puts = <<Put(PickFace, "AVAILABLE", n)>>
       /\ u.op = t.op /\ u.row = t.row /\ u.into = t.into /\ u.key = t.key /\ u.doc = t.doc
       /\ u.saw = t.saw /\ u.st = t.st
  BY <1>2, <1>6, <1>8, SettledFields
<1>11. Shaped(u)
  <2>1. Len(u.into) = 0 /\ Len(u.puts) = 1 /\ u.puts # <<>> /\ u.puts[1].n = n
    BY <1>4, <1>6, <1>10, PutFacts, MoveConstants DEF QuantStatus
  <2>2. Goals(u) = 1 /\ Goal(u, 1).n = u.n
    BY <1>10, <2>1 DEF Goals, Goal
  <2>3. u.op \notin {"idle", "adjust", "evaluate", "count", "rfcount", "approve"} \cup Arrivals
    BY <1>1, <1>10 DEF Arrivals
  <2>4. u.n > 0 /\ u.row # 0 /\ None # "identity"
    BY <1>4, <1>6, <1>10 DEF None
  <2>5. /\ u.op = "replenish" /\ u.pc = "identity" /\ u \in TxnRec /\ u.n > 0 /\ u.row # 0
        /\ u.op \in Transfers /\ u.op \notin Arrivals
    BY <1>1, <1>10, <2>3, <2>4 DEF Transfers
  <2>6. u.pc # None /\ u.pc \notin {None, "source"}
    BY <2>4, <2>5 DEF None
  <2>7. QED
    BY <2>1, <2>2, <2>5, <2>6 DEF Shaped
<1>12. Covered(u, quant)
  BY <1>1, <1>7, <1>10 DEF Covered
<1>13. QED
  BY <1>1, <1>4, <1>9, <1>10, <1>11, <1>12, SourceStep

(* A step that leaves the stock and the requests alone.                     *)
LEMMA AsideStep ==
  ASSUME StockInv, BooksInv, UNCHANGED <<quant, ledger, keys, applied, shipped, drift, txn>>
  PROVE  StockInv' /\ BooksInv'
<1>1. StockInv'
  BY DEF StockInv, Shaped, Good, Placed, Covered, Apart, RowsGood
<1>2. QED
  BY <1>1, BooksStay

(* Both ways of moving goods for a task.                                    *)
LEMMA MoveCommits ==
  ASSUME StockInv, BooksInv, DocsInv, NEW c \in Client, CommitPutaway(c) \/ CommitReplenish(c)
  PROVE  StockInv' /\ BooksInv'
<1> DEFINE t == txn[c]
           p == t.into[1]
<1>1. Shaped(t)
  BY DEF StockInv, Good
<1>2. CASE CommitPutaway(c)
  <2>1. /\ t.op = "putaway" /\ t.pc = "commit" /\ drift' = drift
        /\ CommitStock(c, Written(c, "identity"), <<Move("PUTAWAY", quant[t.row].loc, p.loc, p.n, 0)>>)
    BY <1>2 DEF CommitPutaway, Src
  <2>2. t.op \in Transfers /\ t.op # "replenish"
    BY <2>1 DEF Transfers
  <2>3. p.n = t.n
    BY <1>1, <2>1, <2>2, AtCommit
  <2>4. PICK M : M = <<Move("PUTAWAY", quant[t.row].loc, p.loc, p.n, 0)>>
    OBVIOUS
  <2>5. PICK to : to = p.loc
    OBVIOUS
  <2>6. PICK n : n = p.n
    OBVIOUS
  <2>7. PICK type \in Transfer : type = "PUTAWAY"
    BY DEF Transfer
  <2>8. M = <<Move(type, quant[txn[c].row].loc, to, n, 0)>>
        /\ to = txn[c].into[1].loc /\ n = txn[c].n
    BY <2>3, <2>4, <2>5, <2>6, <2>7
  <2>9. CommitStock(c, Written(c, "identity"), M) /\ HowMade(txn[c]) = "identity"
    BY <2>1, <2>2, <2>4 DEF HowMade
  <2>10. QED
    BY <2>1, <2>2, <2>8, <2>9, TransferStep
<1>3. CASE CommitReplenish(c)
  <2>1. /\ t.op = "replenish" /\ t.pc = "commit" /\ drift' = drift
        /\ CommitStock(c, Written(c, "search"), <<Move("MOVE", quant[t.row].loc, PickFace, t.n, 0)>>)
    BY <1>3 DEF CommitReplenish, Src
  <2>2. t.op \in Transfers
    BY <2>1 DEF Transfers
  <2>3. PickFace = p.loc
    <3>1. Len(t.into) = 1 \/ Len(t.into) = 2
      BY <1>1, <2>1, <2>2, AtCommit
    <3>2. Goal(t, 1) = p
      BY <3>1 DEF Goal
    <3>3. Goal(t, 1).loc = PickFace
      BY <2>1 DEF DocsInv, AboutIn
    <3>4. QED
      BY <3>2, <3>3
  <2>4. PICK M : M = <<Move("MOVE", quant[t.row].loc, PickFace, t.n, 0)>>
    OBVIOUS
  <2>5. PICK to : to = p.loc
    OBVIOUS
  <2>6. PICK n : n = t.n
    OBVIOUS
  <2>7. PICK type \in Transfer : type = "MOVE"
    BY DEF Transfer
  <2>8. M = <<Move(type, quant[txn[c].row].loc, to, n, 0)>>
        /\ to = txn[c].into[1].loc /\ n = txn[c].n
    BY <2>3, <2>4, <2>5, <2>6, <2>7
  <2>9. CommitStock(c, Written(c, "search"), M) /\ HowMade(txn[c]) = "search"
    BY <2>1, <2>4 DEF HowMade
  <2>10. QED
    BY <2>1, <2>2, <2>8, <2>9, TransferStep
<1>4. QED
  BY <1>2, <1>3

(* Every step of putaway and replenishment keeps the stock in order,        *)
LEMMA MoveStepStock ==
  ASSUME StockInv, BooksInv, DocsInv, NEW c \in Client, MoveStep(c)
  PROVE  StockInv' /\ BooksInv'
<1>1. CASE CreatePutaway(c) \/ CompleteByScanner(c)
  <2>1. UNCHANGED <<quant, ledger, keys, applied, shipped, drift, txn>>
    BY <1>1 DEF CreatePutaway, CompleteByScanner
  <2>2. QED
    BY <2>1, AsideStep
<1>2. CASE BeginPutaway(c)
  BY <1>2, PutawayBegins
<1>3. CASE DecrementPutaway(c)
  <2>1. LockSource(c, TRUE) /\ txn[c].op = "putaway"
        /\ quant[txn[c].row].qty - txn[c].n >= quant[txn[c].row].res
    BY <1>3 DEF DecrementPutaway, LockSource, Src
  <2>2. QED
    BY <2>1, LockStep
<1>4. CASE CommitPutaway(c) \/ CommitReplenish(c)
  BY <1>4, MoveCommits
<1>5. CASE BeginEvaluate(c)
  BY <1>5, EvaluateBegins
<1>6. CASE CommitEvaluate(c)
  <2>1. txn' = [txn EXCEPT ![c] = Idle] /\ UNCHANGED <<quant, ledger, keys, applied, shipped, drift>>
    BY <1>6 DEF CommitEvaluate
  <2>2. QED
    BY <2>1, RollbackStep
<1>7. CASE BeginReplenish(c)
  BY <1>7, ReplenishBegins
<1>8. CASE LockReplenish(c)
  BY <1>8, ReplenishLocks
<1>9. CASE FindDestination(c)
  BY <1>9, AddedStep DEF FindDestination
<1>10. QED
  BY <1>1, <1>2, <1>3, <1>4, <1>5, <1>6, <1>7, <1>8, <1>9 DEF MoveStep

(* every step of a count does,                                              *)
LEMMA CountStepStock ==
  ASSUME StockInv, BooksInv, DocsInv, NEW c \in Client, CountStep(c)
  PROVE  StockInv' /\ BooksInv'
<1>1. CASE ReleasePlan(c)
  <2>1. UNCHANGED <<quant, ledger, keys, applied, shipped, drift, txn>>
    BY <1>1 DEF ReleasePlan
  <2>2. QED
    BY <2>1, AsideStep
<1>2. CASE BeginSubmit(c) \/ BeginApprove(c)
  BY <1>2, CountBegins DEF DocsInv
<1>3. CASE CommitSubmit(c) \/ SubmitCycleCountFromRf(c)
  <2>1. txn' = [txn EXCEPT ![c] = Idle] /\ UNCHANGED <<quant, ledger, keys, applied, shipped, drift>>
    BY <1>3 DEF CommitSubmit, SubmitCycleCountFromRf, Submit
  <2>2. QED
    BY <2>1, RollbackStep
<1>4. CASE LockCounted(c)
  BY <1>4, LockCountedStep
<1>5. CASE CommitApprove(c)
  BY <1>5, CommitApproveStep
<1>6. QED
  BY <1>1, <1>2, <1>3, <1>4, <1>5 DEF CountStep

(* and every step of the inventory.                                         *)
LEMMA InventoryStepStock ==
  ASSUME StockInv, BooksInv, NEW c \in Client, InventoryStep(c)
  PROVE  StockInv' /\ BooksInv'
BY InventoryBegins, InventoryLocks, InventoryCommits, CommitAdjustStep DEF InventoryStep

-----------------------------------------------------------------------------
(* The receipt.  What is good and what is damaged are two targets of        *)
(* different status, and one of them may be missing.                        *)
Pieces2(puts, n) ==
  \/ Len(puts) = 1 /\ n = puts[1].n
  \/ Len(puts) = 2 /\ n = puts[1].n + puts[2].n /\ ~ Same(puts[1], puts[2])

(* Two sequences of one element each, one after the other.                  *)
LEMMA OneAndOne ==
  ASSUME NEW s \in Seq(PutSet), NEW u \in Seq(PutSet), Len(s) = 1, Len(u) = 1,
         NEW w, w = s \o u
  PROVE  w \in Seq(PutSet) /\ Len(w) = 2 /\ w[1] = s[1] /\ w[2] = u[1]
<1>1. /\ w \in Seq(PutSet) /\ Len(w) = Len(s) + Len(u)
      /\ \A i \in 1..(Len(s) + Len(u)) : w[i] = IF i <= Len(s) THEN s[i] ELSE u[i - Len(s)]
  BY ConcatProperties
<1>2. QED
  BY <1>1

(* One of the two may be empty.                                             *)
LEMMA OneAndNone ==
  ASSUME NEW S, NEW s \in Seq(S), NEW u, u = <<>>
  PROVE  s \o u = s /\ u \o s = s
BY ConcatEmptySeq

(* A target that exists is a sequence of one.                               *)
LEMMA TargetExists ==
  ASSUME NEW st \in QuantStatus, NEW n \in Nat, n > 0
  PROVE  /\ Some(st, n) \in Seq(PutSet) /\ Len(Some(st, n)) = 1
         /\ Some(st, n)[1].n = n /\ Some(st, n)[1].st = st
<1>1. Put(Dock, st, n) \in PutSet /\ Put(Dock, st, n).n = n /\ Put(Dock, st, n).st = st
  BY PutFacts, InboundConstants
<1>2. PICK a : a = Put(Dock, st, n)
  OBVIOUS
<1>3. Some(st, n) = <<a>>
  BY <1>2 DEF Some
<1>4. <<a>> \in Seq(PutSet) /\ Len(<<a>>) = 1 /\ <<a>>[1] = a
  BY <1>1, <1>2
<1>5. QED
  BY <1>1, <1>2, <1>3, <1>4

(* What a receipt puts down adds up to what was counted.                    *)
LEMMA ReceiptTargets ==
  ASSUME NEW cond \in {"QUARANTINE", "AVAILABLE"}, NEW good \in Nat, NEW damaged \in Nat,
         good + damaged > 0, NEW puts, puts = Some(cond, good) \o Some("DAMAGED", damaged)
  PROVE  puts \in Seq(PutSet) /\ Pieces2(puts, good + damaged)
<1> DEFINE a == Some(cond, good)
           b == Some("DAMAGED", damaged)
<1>1. cond \in QuantStatus /\ "DAMAGED" \in QuantStatus /\ cond # "DAMAGED"
  BY DEF QuantStatus
<1>2. /\ good > 0 => a \in Seq(PutSet) /\ Len(a) = 1 /\ a[1].n = good /\ a[1].st = cond
      /\ good = 0 => a = <<>>
  BY <1>1, TargetExists DEF Some
<1>3. /\ damaged > 0 => b \in Seq(PutSet) /\ Len(b) = 1 /\ b[1].n = damaged /\ b[1].st = "DAMAGED"
      /\ damaged = 0 => b = <<>>
  BY <1>1, TargetExists DEF Some
<1>4. puts = a \o b
  OBVIOUS
<1> HIDE DEF a, b
<1>5. CASE good > 0 /\ damaged > 0
  <2>1. puts \in Seq(PutSet) /\ Len(puts) = 2 /\ puts[1] = a[1] /\ puts[2] = b[1]
    <3>1. a \in Seq(PutSet) /\ b \in Seq(PutSet) /\ Len(a) = 1 /\ Len(b) = 1
      BY <1>2, <1>3, <1>5
    <3>2. QED
      BY <1>4, <3>1, OneAndOne
  <2>2. ~ Same(puts[1], puts[2])
    BY <1>1, <1>2, <1>3, <1>5, <2>1 DEF Same
  <2>3. QED
    BY <2>1, <2>2, <1>2, <1>3, <1>5 DEF Pieces2
<1>6. CASE good > 0 /\ damaged = 0
  <2>1. puts = a
    BY <1>2, <1>3, <1>4, <1>6, OneAndNone
  <2>2. good + damaged = puts[1].n
    <3>1. good + damaged = good /\ a[1].n = good
      BY <1>2, <1>6
    <3>2. QED
      BY <2>1, <3>1
  <2>3. QED
    BY <2>1, <2>2, <1>2, <1>6 DEF Pieces2
<1>7. CASE good = 0 /\ damaged > 0
  <2>1. puts = b
    BY <1>2, <1>3, <1>4, <1>7, OneAndNone
  <2>2. good + damaged = puts[1].n
    <3>1. good + damaged = damaged /\ b[1].n = damaged
      BY <1>3, <1>7
    <3>2. QED
      BY <2>1, <3>1
  <2>3. QED
    BY <2>1, <2>2, <1>3, <1>7 DEF Pieces2
<1>8. QED
  BY <1>5, <1>6, <1>7

(* A receipt as it begins: targets that add up to what was counted, and     *)
(* RECEIVED only said when it completes the shipment.                       *)
LEMMA ReceiptBegins ==
  ASSUME StockInv, DocsInv, NEW c \in Client, BeginInboundReceive(c)
  PROVE  \E i \in Line, puts \in Seq(PutSet), n \in Nat, st \in InboundStatus, k \in Key \cup {NoKey} :
           /\ Begin(c, Arriving("inbound", puts, k, i, n, st))
           /\ Pieces2(puts, n)
           /\ st = "RECEIVED" => Completes(received, i, n)
<1>1. PICK i \in Line, good, damaged \in Amount \cup {0}, held, over, complete \in BOOLEAN,
           k \in Key \cup {NoKey} :
    LET next  == received[i] + good + damaged
        cond  == IF held /\ good > 0 THEN "QUARANTINE" ELSE "AVAILABLE"
        wrong == next > Expected[i] \/ damaged > 0 \/ cond = "QUARANTINE"
                 \/ (complete /\ next < Expected[i])
    IN /\ shipment \notin {"CANCELLED", "CLOSED"}
       /\ good + damaged > 0
       /\ over \/ next <= Expected[i]
       /\ Begin(c, [Request("inbound", "identity", 0, 0,
                            Some(cond, good) \o Some("DAMAGED", damaged), k, i, good + damaged)
                    EXCEPT !.st = IF wrong THEN "EXCEPTION" ELSE ReceiveStatus(i, next)])
       /\ UNCHANGED <<inboundVars, move>>
  BY DEF BeginInboundReceive
<1> DEFINE next  == received[i] + good + damaged
           cond  == IF held /\ good > 0 THEN "QUARANTINE" ELSE "AVAILABLE"
           wrong == next > Expected[i] \/ damaged > 0 \/ cond = "QUARANTINE"
                    \/ (complete /\ next < Expected[i])
           puts  == Some(cond, good) \o Some("DAMAGED", damaged)
           st    == IF wrong THEN "EXCEPTION" ELSE ReceiveStatus(i, next)
           n     == good + damaged
<1>2. /\ n > 0
      /\ Begin(c, [Request("inbound", "identity", 0, 0, puts, k, i, n) EXCEPT !.st = st])
  BY <1>1
<1>3. good \in Nat /\ damaged \in Nat /\ n \in Nat
  BY Given
<1>4. cond \in {"QUARANTINE", "AVAILABLE"}
  OBVIOUS
<1>5. /\ st \in InboundStatus
      /\ st = "RECEIVED" => \A j \in Line : (IF j = i THEN next ELSE received[j]) >= Expected[j]
  BY DEF InboundStatus, ReceiveStatus
<1>6. received \in [Line -> Nat]
  BY DEF DocsInv, InboundTypeOK
<1>7. st = "RECEIVED" => Completes(received, i, n)
  <2> SUFFICES ASSUME st = "RECEIVED", NEW j \in Line
               PROVE  received[j] + (IF j = i THEN n ELSE 0) >= Expected[j]
    BY DEF Completes
  <2>1. (IF j = i THEN next ELSE received[j]) >= Expected[j]
    BY <1>5
  <2>2. received[j] \in Nat /\ Expected[j] \in Nat
    BY <1>6, InboundConstants DEF Line
  <2>3. QED
    BY <1>3, <2>1, <2>2
<1> HIDE DEF cond, st, wrong, next
<1>8. puts \in Seq(PutSet) /\ Pieces2(puts, n)
  BY <1>2, <1>3, <1>4, ReceiptTargets
<1> HIDE DEF puts, n
<1>9. [Request("inbound", "identity", 0, 0, puts, k, i, n) EXCEPT !.st = st]
        = Arriving("inbound", puts, k, i, n, st)
  BY DEF Request, Arriving
<1>10. Begin(c, Arriving("inbound", puts, k, i, n, st))
  BY <1>2, <1>9
<1>11. QED
  BY <1>3, <1>5, <1>7, <1>8, <1>10

(* Every target of a sequence of targets is one.                            *)
LEMMA TargetIn ==
  ASSUME NEW s \in Seq(PutSet)
  PROVE  \A j \in DOMAIN s : s[j] \in PutSet /\ s[j].loc \in Loc /\ s[j].n \in Nat
<1>1. \A j \in DOMAIN s : s[j] \in PutSet
  OBVIOUS
<1>2. \A p \in PutSet : p.loc \in Loc /\ p.n \in Nat
  BY DEF PutSet
<1>3. QED
  BY <1>1, <1>2

(* The movements of a receipt bring what it has put somewhere.              *)
ReceiptMoves(into) ==
  [j \in DOMAIN into |-> Move("RECEIVE", None, into[j].loc, into[j].n, into[j].n)]

(* What the movements of a receipt say of a location is what it put there.  *)
LEMMA ReceiptDelta ==
  ASSUME NEW t, t.into \in Seq(PutSet), Len(t.into) = 1 \/ Len(t.into) = 2, NEW l,
         NEW M, M = ReceiptMoves(t.into)
  PROVE  Deltas(M, l) = Brought(t, l) /\ M # <<>>
<1> DEFINE f == [i \in DOMAIN M |-> ApplyDelta(M[i], l)]
<1>0. PICK s : s = t.into
  OBVIOUS
<1>1. DOMAIN M = DOMAIN t.into /\ DOMAIN t.into = 1..Len(t.into)
  BY LenProperties DEF ReceiptMoves
<1>2. IsFiniteSet(DOMAIN M)
  BY <1>1, FS_Interval
<1>3. Deltas(M, l) = SumOf(f, DOMAIN M)
  BY <1>2, DeltaSum
<1>4. \A j \in DOMAIN t.into : t.into[j] \in PutSet /\ t.into[j].loc \in Loc /\ t.into[j].n \in Nat
  BY <1>0, TargetIn
<1>5. ASSUME NEW j \in DOMAIN t.into
      PROVE  f[j] = At(l, t.into[j].loc, t.into[j].n) /\ f[j] \in Int
  <2>1. PICK b \in Loc : b = t.into[j].loc
    BY <1>4
  <2>2. PICK n \in Int : n = t.into[j].n
    BY <1>4
  <2>3. M[j] = Move("RECEIVE", None, b, n, n)
    BY <2>1, <2>2 DEF ReceiptMoves
  <2>4. ApplyDelta(Move("RECEIVE", None, b, n, n), l) = At(l, b, n) /\ At(l, b, n) \in Int
    BY InwardDelta, AtInt
  <2>5. QED
    BY <1>1, <2>1, <2>2, <2>3, <2>4
<1> HIDE DEF f
<1>6. CASE Len(t.into) = 1
  <2>1. DOMAIN M = {1} /\ 1 \in DOMAIN t.into
    BY <1>1, <1>6
  <2>2. SumOf(f, {1}) = f[1]
    BY <1>5, <2>1, SumOfOne
  <2>3. M # <<>>
    BY <2>1
  <2>4. QED
    BY <1>3, <1>5, <1>6, <2>1, <2>2, <2>3 DEF Brought
<1>7. CASE Len(t.into) = 2
  <2>1. DOMAIN M = {1, 2} /\ 1 \in DOMAIN t.into /\ 2 \in DOMAIN t.into
    BY <1>1, <1>7
  <2>2. SumOf(f, {1, 2}) = f[1] + f[2]
    BY <1>5, <2>1, SumOfTwo
  <2>3. M # <<>>
    BY <2>1
  <2>4. QED
    BY <1>3, <1>5, <1>7, <2>1, <2>2, <2>3 DEF Brought
<1>8. QED
  BY <1>6, <1>7

(* What a receipt has put somewhere, as its pieces are counted.             *)
LEMMA ReceiptPieces ==
  ASSUME NEW s \in Seq(PutSet), Len(s) = 1 \/ Len(s) = 2
  PROVE  Pieces(s) = IF Len(s) = 1 THEN s[1].n ELSE s[1].n + s[2].n
<1> DEFINE f == [j \in DOMAIN s |-> s[j].n]
<1>1. DOMAIN s = 1..Len(s)
  BY LenProperties
<1>2. IsFiniteSet(DOMAIN s)
  BY <1>1, FS_Interval
<1>3. Pieces(s) = SumOf(f, DOMAIN s)
  BY <1>2, PiecesSum
<1>4. \A j \in DOMAIN s : f[j] = s[j].n /\ f[j] \in Int
  BY TargetIn
<1> HIDE DEF f
<1>5. CASE Len(s) = 1
  <2>1. DOMAIN s = {1} /\ 1 \in DOMAIN s
    BY <1>1, <1>5
  <2>2. SumOf(f, {1}) = f[1]
    BY <1>4, <2>1, SumOfOne
  <2>3. QED
    BY <1>3, <1>4, <1>5, <2>1, <2>2
<1>6. CASE Len(s) = 2
  <2>1. DOMAIN s = {1, 2} /\ 1 \in DOMAIN s /\ 2 \in DOMAIN s
    BY <1>1, <1>6
  <2>2. SumOf(f, {1, 2}) = f[1] + f[2]
    BY <1>4, <2>1, SumOfTwo
  <2>3. QED
    BY <1>3, <1>4, <1>6, <2>1, <2>2
<1>7. QED
  BY <1>5, <1>6

(* The receipt is written.                                                  *)
LEMMA ReceiptCommits ==
  ASSUME StockInv, BooksInv, NEW c \in Client, CommitInboundReceive(c)
  PROVE  StockInv' /\ BooksInv'
<1> DEFINE t == txn[c]
<1>1. PICK M : M = ReceiptMoves(t.into)
  OBVIOUS
<1>2. /\ t.op = "inbound" /\ t.pc = "commit" /\ drift' = drift
      /\ CommitStock(c, Written(c, "identity"), M)
  BY <1>1 DEF CommitInboundReceive, ReceiptMoves
<1>3. Shaped(t)
  BY DEF StockInv, Good
<1>4. t.op \in Arrivals /\ HowMade(t) = "identity"
  BY <1>2 DEF Arrivals, HowMade
<1>5. (Len(t.into) = 1 \/ Len(t.into) = 2) /\ t.row = 0 /\ t.into \in Seq(PutSet)
  BY <1>2, <1>3, <1>4, AtCommit, TxnFacts
<1>6. \A l : Deltas(M, l) = Brought(t, l) /\ M # <<>>
  BY <1>1, <1>5, ReceiptDelta
<1>7. ASSUME NEW l \in Loc PROVE Deltas(M, l) = Brought(t, l) - Sent(t, quant, l)
  <2>1. Sent(t, quant, l) = 0
    BY <1>5 DEF Sent
  <2>2. Brought(t, l) \in Int
    <3>1. \A i \in 1..Len(t.into) : t.into[i] \in PutSet /\ t.into[i].n \in Int
      <4>1. PICK s : s = t.into
        OBVIOUS
      <4>2. DOMAIN s = 1..Len(s) /\ \A i \in DOMAIN s : s[i] \in PutSet /\ s[i].n \in Nat
        BY <1>5, <4>1, TargetIn
      <4>3. QED
        BY <4>1, <4>2
    <3>2. QED
      BY <1>5, <3>1 DEF Brought, At
  <2>3. PICK x \in Int : x = Brought(t, l)
    BY <2>2
  <2>4. x = x - 0
    OBVIOUS
  <2>5. QED
    BY <1>6, <2>1, <2>3, <2>4
<1>8. QED
  BY <1>2, <1>4, <1>6, <1>7, WrittenStep

(* Every step of the inbound shipment keeps the stock in order.             *)
LEMMA InboundStepStock ==
  ASSUME StockInv, BooksInv, DocsInv, NEW c \in Client, InboundStep(c)
  PROVE  StockInv' /\ BooksInv'
<1>1. CASE BeginInboundReceive(c)
  <2>1. PICK i \in Line, puts \in Seq(PutSet), n \in Nat, st \in InboundStatus, k \in Key \cup {NoKey} :
           Begin(c, Arriving("inbound", puts, k, i, n, st)) /\ Pieces2(puts, n)
    BY <1>1, ReceiptBegins
  <2>2. PICK op \in Arrivals : op = "inbound"
    BY DEF Arrivals
  <2>3. PICK doc \in Int : doc = i
    BY InboundConstants, LenProperties DEF Line
  <2>4. \/ Len(puts) = 1
        \/ op = "inbound" /\ Len(puts) = 2 /\ ~ Same(puts[1], puts[2])
    BY <2>1, <2>2 DEF Pieces2
  <2>5. Begin(c, Arriving(op, puts, k, doc, n, st)) /\ st \in InboundStatus \cup {None}
    BY <2>1, <2>2, <2>3
  <2>6. QED
    BY <2>4, <2>5, BeginsArrival
<1>2. CASE CommitInboundReceive(c)
  BY <1>2, ReceiptCommits
<1>3. CASE \E s \in EditStatus : UpdateShipment(s)
  <2>1. UNCHANGED <<quant, ledger, keys, applied, shipped, drift, txn>>
    BY <1>3 DEF UpdateShipment
  <2>2. QED
    BY <2>1, AsideStep
<1>4. QED
  BY <1>1, <1>2, <1>3 DEF InboundStep

-----------------------------------------------------------------------------
(* The documents.  A request stays about what it was about when there are   *)
(* more rows and tasks and more has been received.                          *)
LEMMA AboutGrows ==
  ASSUME NEW t, NEW rows, NEW tasks, NEW counts, NEW rcv \in [Line -> Nat],
         AboutIn(t, rows, tasks, counts, rcv), t.saw \in Nat,
         NEW more, rows \subseteq more, NEW jobs, tasks \subseteq jobs,
         NEW had \in [Line -> Nat], \A j \in Line : had[j] >= rcv[j]
  PROVE  AboutIn(t, more, jobs, counts, had)
<1>1. ASSUME Completes(rcv, t.doc, t.saw) PROVE Completes(had, t.doc, t.saw)
  <2> SUFFICES ASSUME NEW j \in Line PROVE had[j] + (IF j = t.doc THEN t.saw ELSE 0) >= Expected[j]
    BY DEF Completes
  <2>1. rcv[j] + (IF j = t.doc THEN t.saw ELSE 0) >= Expected[j]
    BY <1>1 DEF Completes
  <2>2. had[j] >= rcv[j] /\ had[j] \in Nat /\ rcv[j] \in Nat /\ Expected[j] \in Nat
    BY InboundConstants DEF Line
  <2>3. QED
    BY <2>1, <2>2
<1>2. QED
  BY <1>1 DEF AboutIn

(* A step of one request leaves what the others are about: rows and tasks   *)
(* are never removed, and what was received only grows.                     *)
LEMMA RequestsStay ==
  ASSUME StockInv, DocsInv, NEW c \in Client, NEW u, txn' = [txn EXCEPT ![c] = u],
         AboutIn(u, Row', DOMAIN move', DOMAIN count', received'),
         Row \subseteq Row', DOMAIN move \subseteq DOMAIN move', DOMAIN count' = DOMAIN count,
         received' \in [Line -> Nat], \A j \in Line : received'[j] >= received[j]
  PROVE  \A d \in Client : AboutIn(txn'[d], Row', DOMAIN move', DOMAIN count', received')
<1> TAKE d \in Client
<1>1. received \in [Line -> Nat] /\ AboutIn(txn[d], Row, DOMAIN move, DOMAIN count, received)
  BY DEF DocsInv, InboundTypeOK
<1>2. txn[d].saw \in Nat
  BY TxnFacts DEF StockInv, Good
<1>3. txn'[d] = IF d = c THEN u ELSE txn[d]
  BY DEF StockInv
<1>4. CASE d = c
  BY <1>3, <1>4
<1>5. CASE d # c
  <2>1. AboutIn(txn[d], Row', DOMAIN move', DOMAIN count, received')
    BY <1>1, <1>2, AboutGrows
  <2>2. QED
    BY <1>3, <1>5, <2>1
<1>6. QED
  BY <1>4, <1>5

(* A step that changes no document.                                         *)
LEMMA DocsFixed ==
  ASSUME StockInv, DocsInv, NEW c \in Client, NEW u, txn' = [txn EXCEPT ![c] = u],
         AboutIn(u, Row, DOMAIN move, DOMAIN count, received), u.saw \in Nat,
         Row \subseteq Row', UNCHANGED <<move, inboundVars, countVars>>
  PROVE  DocsInv'
<1>1. /\ move' = move /\ shipment' = shipment /\ received' = received /\ got' = got
      /\ plan' = plan /\ count' = count
  BY DEF inboundVars, countVars
<1>2. received \in [Line -> Nat]
  BY DEF DocsInv, InboundTypeOK
<1>3. \A j \in Line : received[j] >= received[j]
  BY <1>2
<1>4. AboutIn(u, Row', DOMAIN move, DOMAIN count, received)
  BY <1>2, <1>3, AboutGrows
<1>5. \A d \in Client : AboutIn(txn'[d], Row', DOMAIN move', DOMAIN count', received')
  BY <1>1, <1>2, <1>3, <1>4, RequestsStay
<1>6. MoveTypeOK' /\ InboundTypeOK' /\ CountTypeOK'
  BY <1>1 DEF DocsInv, MoveTypeOK, InboundTypeOK, CountTypeOK
<1>7. /\ \A m \in DOMAIN move' : move'[m].row \in Row'
      /\ \A r \in DOMAIN count' : count'[r].st # "NONE" => r \in Row'
      /\ received' = got'
  BY <1>1 DEF DocsInv
<1>8. QED
  BY <1>5, <1>6, <1>7 DEF DocsInv

(* The request has gone on with what it is about.                           *)
SameRequest(t, u) ==
  /\ u.op = t.op /\ u.doc = t.doc /\ u.saw = t.saw /\ u.st = t.st
  /\ t.op = "evaluate" => u.n = t.n
  /\ Goals(u) = Goals(t)
  /\ \A i \in 1..Goals(t) : /\ Goal(u, i).loc = Goal(t, i).loc
                            /\ t.op # "replenish" => Goal(u, i).n = Goal(t, i).n

(* The same request at another statement is about the same documents.       *)
LEMMA SameAbout ==
  ASSUME NEW t, Shaped(t), NEW u, SameRequest(t, u), NEW rows, NEW tasks, NEW counts, NEW rcv,
         AboutIn(t, rows, tasks, counts, rcv)
  PROVE  AboutIn(u, rows, tasks, counts, rcv) /\ u.saw \in Nat
<1>1. u.saw \in Nat /\ t.saw \in Nat
  BY TxnFacts DEF SameRequest
<1>2. CASE t.op = "replenish"
  <2>1. Goals(t) = 1
    BY <1>2 DEF Shaped, Transfers
  <2>2. Goal(u, 1).loc = Goal(t, 1).loc
    BY <2>1 DEF SameRequest
  <2>3. QED
    BY <1>1, <1>2, <2>2 DEF AboutIn, SameRequest
<1>3. CASE t.op = "inbound"
  <2>1. Goals(t) = 1 => Goal(u, 1).n = Goal(t, 1).n
    BY <1>3 DEF SameRequest
  <2>2. Goals(t) = 2 => Goal(u, 1).n = Goal(t, 1).n /\ Goal(u, 2).n = Goal(t, 2).n
    BY <1>3 DEF SameRequest
  <2>3. QED
    BY <1>1, <1>3, <2>1, <2>2 DEF AboutIn, SameRequest
<1>4. CASE t.op \notin {"replenish", "inbound"}
  BY <1>1, <1>4 DEF AboutIn, SameRequest
<1>5. QED
  BY <1>2, <1>3, <1>4

(* LockSource and AddTo leave the request about what it is.                 *)
LEMMA SourceDocs ==
  ASSUME StockInv, DocsInv, NEW c \in Client, LockSource(c, TRUE),
         UNCHANGED <<move, inboundVars, countVars>>
  PROVE  DocsInv'
<1> DEFINE t == txn[c]
           u == [t EXCEPT !.pc = IF t.puts = <<>> THEN "commit" ELSE "identity"]
<1>1. txn' = [txn EXCEPT ![c] = u] /\ quant' = quant
  BY DEF LockSource
<1>2. Shaped(t) /\ t \in TxnRec
  BY DEF StockInv, Good, Shaped
<1>3. /\ u.op = t.op /\ u.n = t.n /\ u.puts = t.puts /\ u.into = t.into
      /\ u.doc = t.doc /\ u.saw = t.saw /\ u.st = t.st
  BY <1>2 DEF TxnRec
<1> HIDE DEF u
<1>4. Goals(u) = Goals(t) /\ \A i : Goal(u, i) = Goal(t, i)
  BY <1>3 DEF Goals, Goal
<1>5. SameRequest(t, u)
  BY <1>3, <1>4 DEF SameRequest
<1>6. AboutIn(t, Row, DOMAIN move, DOMAIN count, received)
  BY DEF DocsInv
<1>7. AboutIn(u, Row, DOMAIN move, DOMAIN count, received) /\ u.saw \in Nat
  BY <1>2, <1>5, <1>6, SameAbout
<1>8. Row \subseteq Row'
  BY <1>1 DEF Row
<1>9. QED
  BY <1>1, <1>7, <1>8, DocsFixed

(* Adding a target changes no document.                                     *)
LEMMA AddedDocs ==
  ASSUME StockInv, DocsInv, NEW c \in Client, AddTo(c, Head(txn[c].puts)),
         UNCHANGED <<move, inboundVars, countVars>>
  PROVE  DocsInv'
<1>1. PICK t \in TxnRec : t = txn[c]
  BY DEF StockInv
<1>2. Shaped(t) /\ t.pc = "identity" /\ quant' = quant /\ quant \in Seq(QuantRow)
  BY <1>1, AddToHas DEF StockInv, Good, RowsGood
<1>3. t.puts # <<>> /\ t.into \in Seq(PutSet) /\ t.puts \in Seq(PutSet)
  BY <1>2, TxnFacts DEF Shaped
<1>4. PICK p \in PutSet : p = Head(t.puts)
  BY <1>3, HeadTailProperties
<1>5. PICK r \in Found(p) : txn' = [txn EXCEPT ![c] = WithTarget(t, p, r)]
  BY <1>1, <1>4, AddToHas
<1>6. r \in Nat
  <2>1. DOMAIN quant = 1..Len(quant) /\ Len(quant) \in Nat
    BY <1>2, RowFacts
  <2>2. CASE FindRow(p) = {}
    BY <2>2, <1>5 DEF Found
  <2>3. CASE FindRow(p) # {}
    <3>1. r \in DOMAIN quant
      BY <2>3, <1>5 DEF Found, FindRow, Row
    <3>2. QED
      BY <2>1, <3>1
  <2>4. QED
    BY <2>2, <2>3
<1>7. PICK u : WithTarget(t, p, r) = u
  OBVIOUS
<1>8. /\ u.into = Append(t.into, Located(p, r)) /\ u.puts = Tail(t.puts)
      /\ u.op = t.op /\ u.n = t.n /\ u.doc = t.doc /\ u.saw = t.saw /\ u.st = t.st
  BY <1>3, <1>6, <1>7, WithTargetFields
<1>9. PICK q \in PutSet : q = Located(p, r)
  BY <1>6, TargetWith DEF Located
<1>10. Same(q, Head(t.puts)) /\ q.n = Head(t.puts).n
  BY <1>4, <1>6, <1>9, TargetWith DEF Located
<1>11. u.into = Append(t.into, q)
  BY <1>8, <1>9
<1>12. /\ Goals(u) = Goals(t)
       /\ \A i \in 1..Goals(t) : Same(Goal(u, i), Goal(t, i)) /\ Goal(u, i).n = Goal(t, i).n
  BY <1>3, <1>8, <1>10, <1>11, GoalsStay
<1>13. SameRequest(t, u)
  BY <1>8, <1>12 DEF SameRequest, Same
<1>14. AboutIn(t, Row, DOMAIN move, DOMAIN count, received)
  BY <1>1 DEF DocsInv
<1>15. AboutIn(u, Row, DOMAIN move, DOMAIN count, received) /\ u.saw \in Nat
  BY <1>2, <1>13, <1>14, SameAbout
<1>16. Row \subseteq Row'
  BY <1>2 DEF Row
<1>17. txn' = [txn EXCEPT ![c] = u]
  BY <1>5, <1>7
<1>18. QED
  BY <1>15, <1>16, <1>17, DocsFixed

(* A commit keeps every row there is.                                       *)
LEMMA WrittenKeeps ==
  ASSUME StockInv, NEW c \in Client, txn[c].op \in Transfers \cup Arrivals,
         txn[c].pc = "commit", NEW by, by = HowMade(txn[c])
  PROVE  Written(c, by) \in Seq(QuantRow) /\ Row \subseteq DOMAIN Written(c, by)
<1> DEFINE t == txn[c]
<1>1. RowsGood(quant) /\ Good(t, quant) /\ Shaped(t)
  BY DEF StockInv, Good
<1>2. Written(c, by) = Filled(TakenFrom(quant, t.row, t.n), t.into, by)
  BY DEF Written, Filled, FoldLeft, MapThenFoldSet
<1>3. Written(c, by) = NewRows(t, quant)
  BY <1>2 DEF NewRows
<1>4. Len(t.into) = 1 \/ Len(t.into) = 2
  BY <1>1, AtCommit
<1>5. Effect(t, quant, Written(c, by))
  BY <1>1, <1>3, <1>4, OneTarget, TwoTargets
<1>6. QED
  BY <1>5 DEF Effect, Row

(* Somebody idle is about nothing.                                          *)
LEMMA IdleAbout ==
  ASSUME NEW rows, NEW tasks, NEW counts, NEW rcv
  PROVE  AboutIn(Idle, rows, tasks, counts, rcv) /\ Idle.saw \in Nat
BY DEF AboutIn, Idle

(* A request about no document begins.                                      *)
LEMMA PlainDocs ==
  ASSUME StockInv, DocsInv, NEW c \in Client, NEW u, Begin(c, u),
         u.op \in {"receive", "move", "adjust", "adjustNew", "block", "unblock"}, u.saw \in Nat,
         UNCHANGED <<move, inboundVars, countVars>>
  PROVE  DocsInv'
<1>1. txn' = [txn EXCEPT ![c] = u] /\ Row \subseteq Row'
  BY DEF Begin, Row
<1>2. AboutIn(u, Row, DOMAIN move, DOMAIN count, received)
  BY DEF AboutIn
<1>3. QED
  BY <1>1, <1>2, DocsFixed

(* A transaction that ends without touching a document.                     *)
LEMMA DoneDocs ==
  ASSUME StockInv, DocsInv, NEW c \in Client, txn' = [txn EXCEPT ![c] = Idle],
         Row \subseteq Row', UNCHANGED <<move, inboundVars, countVars>>
  PROVE  DocsInv'
<1>1. AboutIn(Idle, Row, DOMAIN move, DOMAIN count, received) /\ Idle.saw \in Nat
  BY IdleAbout
<1>2. QED
  BY <1>1, DocsFixed

(* The operations of the inventory are about no document.                   *)
LEMMA InventoryDocs ==
  ASSUME StockInv, DocsInv, NEW c \in Client, InventoryStep(c),
         UNCHANGED <<move, inboundVars, countVars>>
  PROVE  DocsInv'
<1>1. CASE BeginReceive(c)
  <2>1. PICK l \in Loc, n \in Amount, k \in Key \cup {NoKey} :
          Begin(c, Request("receive", "identity", 0, 0, <<Put(l, "AVAILABLE", n)>>, k, 0, 0))
    BY <1>1 DEF BeginReceive
  <2>2. QED
    BY <2>1, PlainDocs DEF Request
<1>2. CASE BeginMove(c)
  <2>1. PICK r \in Row, l \in Loc, n \in Amount, k \in Key \cup {NoKey} :
          Begin(c, Request("move", "source", r, n, <<Put(l, quant[r].st, n)>>, k, 0, 0))
    BY <1>2 DEF BeginMove
  <2>2. QED
    BY <2>1, PlainDocs DEF Request
<1>3. CASE BeginAdjust(c)
  <2>1. PICK r \in Row, n \in Amount \cup {0}, sign \in {-1, 0, 1}, k \in Key \cup {NoKey} :
          Begin(c, Request("adjust", "source", r, 0, <<>>, k, sign, n))
    BY <1>3 DEF BeginAdjust
  <2>2. n \in Nat
    BY Given
  <2>3. QED
    BY <2>1, <2>2, PlainDocs DEF Request
<1>4. CASE BeginAdjustNew(c)
  <2>1. PICK l \in Loc, n \in Amount :
          Begin(c, Request("adjustNew", "identity", 0, 0, <<Put(l, "AVAILABLE", n)>>, NoKey, 0, 0))
    BY <1>4 DEF BeginAdjustNew
  <2>2. QED
    BY <2>1, PlainDocs DEF Request
<1>5. CASE BeginBlock(c) \/ BeginUnblock(c)
  <2>1. \E op \in {"block", "unblock"} : \E r, s, n :
          Begin(c, Request(op, "source", r, n, <<Put(quant[r].loc, s, n)>>, NoKey, 0, 0))
    BY <1>5 DEF BeginBlock, BeginUnblock, BeginTransfer
  <2>2. QED
    BY <2>1, PlainDocs DEF Request
<1>6. CASE DecrementQuant(c) \/ LockAdjusted(c)
  <2>1. LockSource(c, TRUE)
    BY <1>6 DEF DecrementQuant, LockAdjusted, LockSource
  <2>2. QED
    BY <2>1, SourceDocs
<1>7. CASE LockIdentity(c)
  BY <1>7, AddedDocs DEF LockIdentity
<1>8. CASE Rollback(c)
  <2>1. txn' = [txn EXCEPT ![c] = Idle] /\ Row \subseteq Row'
    BY <1>8 DEF Rollback, Row
  <2>2. QED
    BY <2>1, DoneDocs
<1>9. CASE CommitReceive(c) \/ CommitMove(c) \/ CommitTransfer(c) \/ CommitAdjustNew(c)
  <2>1. /\ txn[c].op \in {"receive", "move", "block", "unblock", "adjustNew"}
        /\ txn[c].pc = "commit" /\ quant' = Written(c, "identity")
        /\ txn' = [txn EXCEPT ![c] = Idle]
    BY <1>9 DEF CommitReceive, CommitMove, CommitTransfer, CommitAdjustNew, CommitAs, CommitStock
  <2>2. txn[c].op \in Transfers \cup Arrivals /\ "identity" = HowMade(txn[c])
    BY <2>1 DEF Transfers, Arrivals, HowMade
  <2>3. Row \subseteq Row'
    BY <2>1, <2>2, WrittenKeeps DEF Row
  <2>4. QED
    BY <2>1, <2>3, DoneDocs
<1>10. CASE CommitAdjust(c)
  <2>1. txn' = [txn EXCEPT ![c] = Idle] /\ quant' = [quant EXCEPT ![txn[c].row].qty = NextQuantity(c)]
    BY <1>10 DEF CommitAdjust, CommitStock
  <2>2. Row \subseteq Row'
    BY <2>1 DEF Row
  <2>3. QED
    BY <2>1, <2>2, DoneDocs
<1>11. QED
  BY <1>1, <1>2, <1>3, <1>4, <1>5, <1>6, <1>7, <1>8, <1>9, <1>10 DEF InventoryStep

(* The requests when none of them goes on, or one is done.                  *)
LEMMA RequestsKept ==
  ASSUME StockInv, DocsInv, NEW c \in Client, txn' = txn \/ txn' = [txn EXCEPT ![c] = Idle],
         Row \subseteq Row', DOMAIN move \subseteq DOMAIN move', DOMAIN count' = DOMAIN count,
         received' \in [Line -> Nat], \A j \in Line : received'[j] >= received[j]
  PROVE  \A d \in Client : AboutIn(txn'[d], Row', DOMAIN move', DOMAIN count', received')
<1>1. CASE txn' = txn
  <2> TAKE d \in Client
  <2>1. received \in [Line -> Nat] /\ AboutIn(txn[d], Row, DOMAIN move, DOMAIN count, received)
    BY DEF DocsInv, InboundTypeOK
  <2>2. txn[d].saw \in Nat
    BY TxnFacts DEF StockInv, Good
  <2>3. AboutIn(txn[d], Row', DOMAIN move', DOMAIN count, received')
    BY <2>1, <2>2, AboutGrows
  <2>4. QED
    BY <1>1, <2>3
<1>2. CASE txn' = [txn EXCEPT ![c] = Idle]
  BY <1>2, IdleAbout, RequestsStay
<1>3. QED
  BY <1>1, <1>2

(* A step that makes or changes a task.                                     *)
LEMMA TaskStep ==
  ASSUME StockInv, DocsInv, NEW c \in Client, txn' = txn \/ txn' = [txn EXCEPT ![c] = Idle],
         Row \subseteq Row', move' \in Seq(MoveRec), DOMAIN move \subseteq DOMAIN move',
         \A m \in DOMAIN move' : move'[m].row \in Row',
         UNCHANGED <<inboundVars, countVars>>
  PROVE  DocsInv'
<1>1. shipment' = shipment /\ received' = received /\ got' = got /\ plan' = plan /\ count' = count
  BY DEF inboundVars, countVars
<1>2. received \in [Line -> Nat]
  BY DEF DocsInv, InboundTypeOK
<1>3. \A j \in Line : received[j] >= received[j]
  BY <1>2
<1>4. \A d \in Client : AboutIn(txn'[d], Row', DOMAIN move', DOMAIN count', received')
  BY <1>1, <1>2, <1>3, RequestsKept
<1>5. MoveTypeOK' /\ InboundTypeOK' /\ CountTypeOK'
  BY <1>1 DEF DocsInv, MoveTypeOK, InboundTypeOK, CountTypeOK
<1>6. QED
  BY <1>1, <1>4, <1>5 DEF DocsInv

(* A new task is about a row that is there.                                 *)
LEMMA NewTask ==
  ASSUME MoveTypeOK, NEW kind \in {"putaway", "replenish"}, NEW r \in Nat, NEW l \in Loc, NEW n \in Nat,
         NEW rows, r \in rows, \A m \in DOMAIN move : move[m].row \in rows,
         NEW new, new = NewMove(kind, r, l, n)
  PROVE  /\ new \in Seq(MoveRec) /\ DOMAIN move \subseteq DOMAIN new
         /\ \A m \in DOMAIN new : new[m].row \in rows
<1> DEFINE e == [kind |-> kind, st |-> "OPEN", row |-> r, to |-> l, n |-> n, times |-> 0]
<1>1. e \in MoveRec /\ e.row = r
  BY DEF MoveRec
<1>2. new = Append(move, e) /\ move \in Seq(MoveRec)
  BY DEF NewMove, MoveTypeOK
<1> HIDE DEF e
<1>3. /\ new \in Seq(MoveRec) /\ Len(new) = Len(move) + 1 /\ new[Len(move) + 1] = e
      /\ \A m \in 1..Len(move) : new[m] = move[m]
  BY <1>1, <1>2, AppendProperties
<1>4. DOMAIN move = 1..Len(move) /\ DOMAIN new = 1..Len(new) /\ Len(move) \in Nat
  BY <1>2, <1>3, LenProperties
<1>5. QED
  BY <1>1, <1>3, <1>4

(* A task that changes keeps its row.                                       *)
LEMMA SameTasks ==
  ASSUME MoveTypeOK, NEW i \in DOMAIN move, NEW x \in MoveRec, x.row = move[i].row,
         NEW rows, \A m \in DOMAIN move : move[m].row \in rows,
         NEW new, new = [move EXCEPT ![i] = x]
  PROVE  /\ new \in Seq(MoveRec) /\ DOMAIN move \subseteq DOMAIN new
         /\ \A m \in DOMAIN new : new[m].row \in rows
<1>1. new \in Seq(MoveRec) /\ DOMAIN new = DOMAIN move
  BY ExceptSeq DEF MoveTypeOK
<1>2. \A m \in DOMAIN move : new[m] = IF m = i THEN x ELSE move[m]
  OBVIOUS
<1>3. QED
  BY <1>1, <1>2

(* A task that is confirmed keeps its row.                                  *)
LEMMA ConfirmedTasks ==
  ASSUME MoveTypeOK, NEW i \in DOMAIN move,
         NEW rows, \A m \in DOMAIN move : move[m].row \in rows,
         NEW new, new = Confirmed(i)
  PROVE  /\ new \in Seq(MoveRec) /\ DOMAIN move \subseteq DOMAIN new
         /\ \A m \in DOMAIN new : new[m].row \in rows
<1>1. PICK y : y = move[i]
  OBVIOUS
<1>2. move[i] \in MoveRec
  <2>1. move \in [1..Len(move) -> MoveRec] /\ DOMAIN move = 1..Len(move)
    BY LenProperties DEF MoveTypeOK
  <2>2. QED
    BY <2>1
<1>3. y \in MoveRec /\ y.times \in Nat
  BY <1>1, <1>2 DEF MoveRec
<1>4. PICK n \in Nat : n = y.times + 1
  BY <1>3
<1>5. PICK x : x = [y EXCEPT !.st = "DONE", !.times = n]
  OBVIOUS
<1>6. x \in MoveRec /\ x.row = y.row
  BY <1>3, <1>5 DEF MoveRec
<1>7. new = [move EXCEPT ![i] = x]
  <2>1. new = [move EXCEPT ![i] = [move[i] EXCEPT !.st = "DONE", !.times = move[i].times + 1]]
    BY DEF Confirmed
  <2>2. QED
    BY <2>1, <1>1, <1>4, <1>5
<1>8. QED
  BY <1>1, <1>6, <1>7, SameTasks

(* Tasks that are created or completed in one statement.                    *)
LEMMA MoveFirstDocs ==
  ASSUME StockInv, DocsInv, NEW c \in Client, UNCHANGED <<inboundVars, countVars>>,
         CreatePutaway(c) \/ CompleteByScanner(c) \/ CommitEvaluate(c)
  PROVE  DocsInv'
<1>1. MoveTypeOK /\ \A m \in DOMAIN move : move[m].row \in Row
  BY DEF DocsInv
<1>2. quant' = quant /\ Row' = Row /\ quant \in Seq(QuantRow)
  BY DEF CreatePutaway, CompleteByScanner, CommitEvaluate, Row, StockInv, RowsGood
<1>3. CASE CreatePutaway(c)
  <2>1. PICK r \in Row, l \in Loc, n \in Amount : move' = NewMove("putaway", r, l, n)
    BY <1>3 DEF CreatePutaway
  <2>2. r \in Nat /\ n \in Nat
    BY <2>1, Given
  <2>3. /\ move' \in Seq(MoveRec) /\ DOMAIN move \subseteq DOMAIN move'
        /\ \A m \in DOMAIN move' : move'[m].row \in Row
    <3>1. PICK kind \in {"putaway", "replenish"} : kind = "putaway"
      OBVIOUS
    <3>2. PICK r2 \in Nat : r2 = r
      BY <2>2
    <3>3. PICK n2 \in Nat : n2 = n
      BY <2>2
    <3>4. PICK rows : rows = Row
      OBVIOUS
    <3>5. PICK new : new = move'
      OBVIOUS
    <3>6. new = NewMove(kind, r2, l, n2) /\ r2 \in rows /\ \A m \in DOMAIN move : move[m].row \in rows
      BY <1>1, <2>1, <3>1, <3>2, <3>3, <3>4, <3>5
    <3>7. QED
      BY <1>1, <3>4, <3>5, <3>6, NewTask
  <2>4. txn' = txn
    BY <1>3 DEF CreatePutaway
  <2>5. QED
    BY <1>2, <2>3, <2>4, TaskStep
<1>4. CASE CommitEvaluate(c)
  <2>1. /\ txn[c].op = "evaluate" /\ move' = NewMove("replenish", txn[c].doc, PickFace, txn[c].n)
        /\ txn' = [txn EXCEPT ![c] = Idle]
    BY <1>4 DEF CommitEvaluate
  <2>2. txn[c].doc \in Row /\ txn[c].n \in Nat /\ PickFace \in Loc
    BY <2>1, MoveConstants DEF DocsInv, AboutIn
  <2>3. txn[c].doc \in Nat
    BY <2>2, Given
  <2>4. /\ move' \in Seq(MoveRec) /\ DOMAIN move \subseteq DOMAIN move'
        /\ \A m \in DOMAIN move' : move'[m].row \in Row
    BY <1>1, <2>1, <2>2, <2>3, NewTask
  <2>5. QED
    BY <1>2, <2>1, <2>4, TaskStep
<1>5. CASE CompleteByScanner(c)
  <2>1. PICK i \in DOMAIN move : move' = [move EXCEPT ![i].st = "DONE"]
    BY <1>5 DEF CompleteByScanner, Task
  <2>2. PICK x : x = [move[i] EXCEPT !.st = "DONE"]
    OBVIOUS
  <2>3. move[i] \in MoveRec
    BY <1>1, LenProperties DEF MoveTypeOK
  <2>4. x \in MoveRec /\ x.row = move[i].row
    BY <2>2, <2>3 DEF MoveRec
  <2>5. move' = [move EXCEPT ![i] = x]
    BY <2>1, <2>2
  <2>6. /\ move' \in Seq(MoveRec) /\ DOMAIN move \subseteq DOMAIN move'
        /\ \A m \in DOMAIN move' : move'[m].row \in Row
    BY <1>1, <2>4, <2>5, SameTasks
  <2>7. txn' = txn
    BY <1>5 DEF CompleteByScanner
  <2>8. QED
    BY <1>2, <2>6, <2>7, TaskStep
<1>6. QED
  BY <1>3, <1>4, <1>5

(* A task that is begun is about itself.                                    *)
LEMMA BegunDocs ==
  ASSUME StockInv, DocsInv, NEW c \in Client, NEW u, Begin(c, u), u.saw \in Nat,
         AboutIn(u, Row, DOMAIN move, DOMAIN count, received),
         UNCHANGED <<move, inboundVars, countVars>>
  PROVE  DocsInv'
<1>1. txn' = [txn EXCEPT ![c] = u] /\ Row \subseteq Row'
  BY DEF Begin, Row
<1>2. QED
  BY <1>1, DocsFixed

(* A request that begins on a task.                                         *)
LEMMA MoveBeginsDocs ==
  ASSUME StockInv, DocsInv, NEW c \in Client, UNCHANGED <<inboundVars, countVars>>,
         BeginPutaway(c) \/ BeginEvaluate(c) \/ BeginReplenish(c)
  PROVE  DocsInv'
<1>1. move' = move
  BY DEF BeginPutaway, BeginEvaluate, BeginReplenish
<1>2. CASE BeginPutaway(c)
  <2>1. PICK i, r, l, k, n :
          i \in Task /\ Begin(c, Request("putaway", "source", r, n, <<Put(l, quant[r].st, n)>>, k, i, 0))
    BY <1>2, Zenon DEF BeginPutaway
  <2>2. PICK u : u = Request("putaway", "source", r, n, <<Put(l, quant[r].st, n)>>, k, i, 0)
    OBVIOUS
  <2>3. u.op = "putaway" /\ u.doc = i /\ u.saw = 0
    BY <2>2 DEF Request
  <2>4. AboutIn(u, Row, DOMAIN move, DOMAIN count, received) /\ u.saw \in Nat
    BY <2>1, <2>3 DEF AboutIn, Task
  <2>5. QED
    BY <1>1, <2>1, <2>2, <2>4, BegunDocs
<1>3. CASE BeginReplenish(c)
  <2>1. PICK i \in Task :
          Begin(c, Request("replenish", "source", move[i].row, 0,
                           <<Put(PickFace, "AVAILABLE", 1)>>, NoKey, i, 0))
    BY <1>3 DEF BeginReplenish
  <2>2. PICK p : p = Put(PickFace, "AVAILABLE", 1)
    OBVIOUS
  <2>3. p.loc = PickFace
    BY <2>2 DEF Put
  <2>4. PICK u : u = Request("replenish", "source", move[i].row, 0, <<p>>, NoKey, i, 0)
    OBVIOUS
  <2>5. u.op = "replenish" /\ u.doc = i /\ u.saw = 0 /\ u.into = <<>> /\ u.puts = <<p>>
    BY <2>4 DEF Request
  <2>6. Goal(u, 1) = p
    <3>1. Len(u.into) = 0
      BY <2>5
    <3>2. QED
      BY <3>1, <2>5 DEF Goal
  <2>7. AboutIn(u, Row, DOMAIN move, DOMAIN count, received) /\ u.saw \in Nat
    BY <2>3, <2>5, <2>6 DEF AboutIn, Task
  <2>8. QED
    BY <1>1, <2>1, <2>2, <2>4, <2>7, BegunDocs
<1>4. CASE BeginEvaluate(c)
  <2>1. /\ Required > 0 /\ SourceQuant # 0
        /\ Begin(c, Request("evaluate", "commit", 0, Required, <<>>, NoKey, SourceQuant, 0))
    BY <1>4 DEF BeginEvaluate
  <2>2. Required \in Nat /\ SourceQuant \in Row
    BY <2>1, RequiredIsNatural, SourceIsRow DEF StockInv, RowsGood
  <2>3. PICK u : u = Request("evaluate", "commit", 0, Required, <<>>, NoKey, SourceQuant, 0)
    OBVIOUS
  <2>4. u.op = "evaluate" /\ u.doc = SourceQuant /\ u.n = Required /\ u.saw = 0
    BY <2>3 DEF Request
  <2>5. AboutIn(u, Row, DOMAIN move, DOMAIN count, received) /\ u.saw \in Nat
    BY <2>2, <2>4 DEF AboutIn
  <2>6. QED
    BY <1>1, <2>1, <2>3, <2>5, BegunDocs
<1>5. QED
  BY <1>2, <1>3, <1>4

(* Settling how much is replenished leaves the tasks alone.                 *)
LEMMA SettledDocs ==
  ASSUME StockInv, DocsInv, NEW c \in Client, UNCHANGED <<inboundVars, countVars>>, LockReplenish(c)
  PROVE  DocsInv'
<1> DEFINE t == txn[c]
<1>1. /\ t.op = "replenish" /\ t.pc = "source" /\ quant' = quant /\ move' = move
  BY DEF LockReplenish
<1>2. t \in TxnRec /\ txn \in [Client -> TxnRec] /\ Shaped(t)
  BY DEF StockInv, Good, Shaped
<1>3. PICK n : txn' = [txn EXCEPT ![c].pc = "identity", ![c].n = n,
                                  ![c].puts = <<Put(PickFace, "AVAILABLE", n)>>]
  BY DEF LockReplenish
<1>4. PICK u : u = Settled(t, n)
  OBVIOUS
<1>5. txn' = [txn EXCEPT ![c] = u]
  BY <1>2, <1>3, <1>4 DEF Settled
<1>6. /\ u.op = "replenish" /\ u.doc = t.doc /\ u.saw = t.saw /\ u.into = t.into
      /\ u.puts = <<Put(PickFace, "AVAILABLE", n)>>
  BY <1>1, <1>2, <1>4 DEF Settled, TxnRec
<1>7. t.into = <<>> /\ t.saw \in Nat
  BY <1>1, <1>2, TxnFacts DEF Shaped
<1>8. Goal(u, 1).loc = PickFace
  <2>1. Len(u.into) = 0 /\ u.puts[1].loc = PickFace
    BY <1>6, <1>7 DEF Put
  <2>2. QED
    BY <2>1 DEF Goal
<1>9. AboutIn(t, Row, DOMAIN move, DOMAIN count, received)
  BY DEF DocsInv
<1>10. AboutIn(u, Row, DOMAIN move, DOMAIN count, received) /\ u.saw \in Nat
  BY <1>1, <1>6, <1>7, <1>8, <1>9 DEF AboutIn
<1>11. Row \subseteq Row'
  BY <1>1 DEF Row
<1>12. QED
  BY <1>1, <1>5, <1>10, <1>11, DocsFixed

(* A putaway or a replenishment confirms its task.                          *)
LEMMA MoveCommitsDocs ==
  ASSUME StockInv, DocsInv, NEW c \in Client, UNCHANGED <<inboundVars, countVars>>,
         CommitPutaway(c) \/ CommitReplenish(c)
  PROVE  DocsInv'
<1>1. PICK by : /\ txn[c].op \in {"putaway", "replenish"} /\ by = HowMade(txn[c])
                /\ txn[c].pc = "commit" /\ quant' = Written(c, by)
                /\ txn' = [txn EXCEPT ![c] = Idle] /\ move' = Confirmed(txn[c].doc)
  BY DEF CommitPutaway, CommitReplenish, CommitStock, HowMade
<1>2. txn[c].op \in Transfers \cup Arrivals
  BY <1>1 DEF Transfers
<1>3. Row \subseteq Row'
  BY <1>1, <1>2, WrittenKeeps DEF Row
<1>4. txn[c].doc \in DOMAIN move /\ MoveTypeOK /\ \A m \in DOMAIN move : move[m].row \in Row
  BY <1>1 DEF DocsInv, AboutIn
<1>5. /\ move' \in Seq(MoveRec) /\ DOMAIN move \subseteq DOMAIN move'
      /\ \A m \in DOMAIN move' : move'[m].row \in Row
  <2>1. PICK i \in DOMAIN move : i = txn[c].doc
    BY <1>4
  <2>2. PICK rows : rows = Row
    OBVIOUS
  <2>3. PICK new : new = move'
    OBVIOUS
  <2>4. new = Confirmed(i) /\ MoveTypeOK /\ \A m \in DOMAIN move : move[m].row \in rows
    BY <1>1, <1>4, <2>1, <2>2, <2>3
  <2>5. /\ new \in Seq(MoveRec) /\ DOMAIN move \subseteq DOMAIN new
        /\ \A m \in DOMAIN new : new[m].row \in rows
    BY <2>4, ConfirmedTasks
  <2>6. QED
    BY <2>2, <2>3, <2>5
<1>6. \A m \in DOMAIN move' : move'[m].row \in Row'
  BY <1>3, <1>5
<1>7. QED
  BY <1>1, <1>3, <1>5, <1>6, TaskStep

(* Every step of putaway and replenishment keeps the documents in order.    *)
LEMMA MoveStepDocs ==
  ASSUME StockInv, DocsInv, NEW c \in Client, UNCHANGED <<inboundVars, countVars>>, MoveStep(c)
  PROVE  DocsInv'
<1>1. CASE CreatePutaway(c) \/ CompleteByScanner(c) \/ CommitEvaluate(c)
  BY <1>1, MoveFirstDocs
<1>2. CASE BeginPutaway(c) \/ BeginEvaluate(c) \/ BeginReplenish(c)
  BY <1>2, MoveBeginsDocs
<1>3. CASE DecrementPutaway(c)
  <2>1. LockSource(c, TRUE) /\ move' = move
    BY <1>3 DEF DecrementPutaway, LockSource
  <2>2. QED
    BY <2>1, SourceDocs
<1>4. CASE FindDestination(c)
  <2>1. AddTo(c, Head(txn[c].puts)) /\ move' = move
    BY <1>4 DEF FindDestination
  <2>2. QED
    BY <2>1, AddedDocs
<1>5. CASE LockReplenish(c)
  BY <1>5, SettledDocs
<1>6. CASE CommitPutaway(c) \/ CommitReplenish(c)
  BY <1>6, MoveCommitsDocs
<1>7. QED
  BY <1>1, <1>2, <1>3, <1>4, <1>5, <1>6 DEF MoveStep

(* A step that changes a count.                                             *)
CountRec == [st : CountStatus, expected : Nat, counted : Nat]

(* A step that only changes the count.                                      *)
LEMMA CountStepOf ==
  ASSUME StockInv, DocsInv, NEW c \in Client, txn' = txn \/ txn' = [txn EXCEPT ![c] = Idle],
         Row \subseteq Row', CountTypeOK',
         \A r \in DOMAIN count' : count'[r].st # "NONE" => r \in Row',
         UNCHANGED <<move, inboundVars>>
  PROVE  DocsInv'
<1>1. shipment' = shipment /\ received' = received /\ got' = got /\ move' = move
  BY DEF inboundVars
<1>2. received \in [Line -> Nat]
  BY DEF DocsInv, InboundTypeOK
<1>3. \A j \in Line : received[j] >= received[j]
  BY <1>2
<1>4. DOMAIN count' = DOMAIN count
  BY DEF DocsInv, CountTypeOK
<1>5. \A d \in Client : AboutIn(txn'[d], Row', DOMAIN move', DOMAIN count', received')
  BY <1>1, <1>2, <1>3, <1>4, RequestsKept
<1>6. MoveTypeOK' /\ InboundTypeOK'
  BY <1>1 DEF DocsInv, MoveTypeOK, InboundTypeOK
<1>7. \A m \in DOMAIN move' : move'[m].row \in Row'
  BY <1>1 DEF DocsInv
<1>8. QED
  BY <1>1, <1>5, <1>6, <1>7 DEF DocsInv

(* One line of a count with another record.                                 *)
LEMMA CountWith ==
  ASSUME CountTypeOK, NEW i \in DOMAIN count, NEW x \in CountRec, NEW rows, i \in rows,
         \A r \in DOMAIN count : count[r].st # "NONE" => r \in rows,
         NEW new, new = [count EXCEPT ![i] = x]
  PROVE  /\ new \in [1..NumRows -> CountRec]
         /\ \A r \in DOMAIN new : new[r].st # "NONE" => r \in rows
<1>1. count \in [1..NumRows -> CountRec]
  BY DEF CountTypeOK, CountRec
<1>2. QED
  BY <1>1

(* Every step of a count keeps the documents in order.                      *)
LEMMA CountStepDocs ==
  ASSUME StockInv, DocsInv, NEW c \in Client, CountStep(c)
  PROVE  DocsInv'
<1>1. /\ CountTypeOK /\ count \in [1..NumRows -> CountRec] /\ DOMAIN count = 1..NumRows
      /\ NumRows \in Nat /\ \A r \in DOMAIN count : count[r].st # "NONE" => r \in Row
  BY StockConstants DEF DocsInv, CountTypeOK, CountRec
<1>2. UNCHANGED <<move, inboundVars>>
  BY DEF CountStep
<1>3. \A r \in DOMAIN count : /\ count[r] \in CountRec /\ count[r].counted \in Nat
                              /\ count[r].expected \in Nat /\ count[r].st \in CountStatus
  BY <1>1 DEF CountRec
<1>4. quant \in Seq(QuantRow)
  BY DEF StockInv, RowsGood
<1>5. CASE ReleasePlan(c)
  <2>1. plan' = "RELEASED" /\ count' = Tasks /\ txn' = txn /\ quant' = quant
    BY <1>5 DEF ReleasePlan
  <2>2. \A r \in InScope : r \in Row /\ quant[r].qty \in Nat
    BY <1>4, RowFacts DEF InScope, Row
  <2>3. Tasks \in [1..NumRows -> CountRec]
    BY <2>2 DEF Tasks, CountRec, CountStatus
  <2>4. \A r \in DOMAIN Tasks : Tasks[r].st # "NONE" => r \in Row
    BY <2>2 DEF Tasks
  <2>5. CountTypeOK'
    BY <2>1, <2>3 DEF CountTypeOK, CountRec
  <2>6. Row \subseteq Row' /\ \A r \in DOMAIN count' : count'[r].st # "NONE" => r \in Row'
    BY <2>1, <2>4 DEF Row
  <2>7. QED
    BY <1>2, <2>1, <2>5, <2>6, CountStepOf
<1>6. CASE BeginSubmit(c)
  <2>1. PICK op \in {"count", "rfcount"}, r \in DOMAIN count, n \in Counted :
          /\ count[r].st = "OPEN" /\ UNCHANGED countVars
          /\ Begin(c, Request(op, "commit", 0, 0, <<>>, NoKey, r, n))
    BY <1>6 DEF BeginSubmit
  <2>2. PICK u : u = Request(op, "commit", 0, 0, <<>>, NoKey, r, n)
    OBVIOUS
  <2>3. u.op \in {"count", "rfcount"} /\ u.doc = r /\ u.saw = n
    BY <2>2 DEF Request
  <2>4. n \in Nat /\ r \in Row
    BY <1>1, <2>1, CountConstants
  <2>5. AboutIn(u, Row, DOMAIN move, DOMAIN count, received) /\ u.saw \in Nat
    BY <2>3, <2>4 DEF AboutIn
  <2>6. QED
    BY <1>2, <2>1, <2>2, <2>5, BegunDocs
<1>7. CASE BeginApprove(c)
  <2>1. PICK r \in DOMAIN count :
          /\ count[r].st = "SUBMITTED" /\ UNCHANGED countVars
          /\ Begin(c, Request("approve", IF Variance(r) = 0 THEN "commit" ELSE "source",
                        IF Variance(r) = 0 THEN 0 ELSE r, Variance(r), <<>>, NoKey, r,
                        count[r].counted))
    BY <1>7 DEF BeginApprove
  <2>2. PICK u : u = Request("approve", IF Variance(r) = 0 THEN "commit" ELSE "source",
                        IF Variance(r) = 0 THEN 0 ELSE r, Variance(r), <<>>, NoKey, r,
                        count[r].counted)
    OBVIOUS
  <2>3. u.op = "approve" /\ u.doc = r /\ u.saw = count[r].counted
    BY <2>2 DEF Request
  <2>4. r \in Row /\ count[r].counted \in Nat
    BY <1>1, <1>3, <2>1
  <2>5. AboutIn(u, Row, DOMAIN move, DOMAIN count, received) /\ u.saw \in Nat
    BY <2>3, <2>4 DEF AboutIn
  <2>6. QED
    BY <1>2, <2>1, <2>2, <2>5, BegunDocs
<1>8. CASE LockCounted(c)
  <2>1. LockSource(c, TRUE) /\ UNCHANGED countVars
    BY <1>8 DEF LockCounted, LockSource
  <2>2. QED
    BY <1>2, <2>1, SourceDocs
<1>9. CASE CommitSubmit(c) \/ SubmitCycleCountFromRf(c)
  <2>1. /\ txn[c].op \in {"count", "rfcount"} /\ txn' = [txn EXCEPT ![c] = Idle] /\ quant' = quant
        /\ count' = [count EXCEPT ![txn[c].doc].st = "SUBMITTED", ![txn[c].doc].counted = txn[c].saw]
        /\ plan' \in {"COUNTING", "RECONCILING"}
    BY <1>9 DEF CommitSubmit, SubmitCycleCountFromRf, Submit
  <2>2. txn[c].doc \in DOMAIN count /\ txn[c].doc \in Row /\ txn[c].saw \in Nat
    BY <2>1, TxnFacts DEF DocsInv, AboutIn, StockInv, Good
  <2>3. PICK i : i = txn[c].doc
    OBVIOUS
  <2>4. PICK n \in Nat : n = txn[c].saw
    BY <2>2
  <2>5. PICK y : y = count[i]
    OBVIOUS
  <2>6. PICK x : x = [y EXCEPT !.st = "SUBMITTED", !.counted = n]
    OBVIOUS
  <2>7. y \in CountRec /\ i \in DOMAIN count /\ i \in Row
    BY <1>3, <2>2, <2>3, <2>5
  <2>8. x \in CountRec
    BY <2>6, <2>7 DEF CountRec, CountStatus
  <2>9. count' = [count EXCEPT ![i] = x]
    <3>1. count' = [count EXCEPT ![i] = [count[i] EXCEPT !.st = "SUBMITTED", !.counted = n]]
      BY <2>1, <2>3, <2>4
    <3>2. QED
      BY <3>1, <2>5, <2>6
  <2>10. /\ count' \in [1..NumRows -> CountRec]
         /\ \A r \in DOMAIN count' : count'[r].st # "NONE" => r \in Row
    BY <1>1, <2>7, <2>8, <2>9, CountWith
  <2>11. CountTypeOK' /\ Row \subseteq Row'
    BY <2>1, <2>10 DEF CountTypeOK, CountRec, Row
  <2>12. \A r \in DOMAIN count' : count'[r].st # "NONE" => r \in Row'
    BY <2>10, <2>11
  <2>13. QED
    BY <1>2, <2>1, <2>11, <2>12, CountStepOf
<1>10. CASE CommitApprove(c)
  <2>1. /\ txn[c].op = "approve" /\ txn' = [txn EXCEPT ![c] = Idle]
        /\ count' = [count EXCEPT ![txn[c].doc].st = "APPROVED"]
        /\ plan' = "APPROVED" \/ plan' = plan
        /\ quant' = quant \/ quant' = [quant EXCEPT ![txn[c].doc].qty = txn[c].saw]
    BY <1>10 DEF CommitApprove, CommitStock
  <2>2. txn[c].doc \in DOMAIN count /\ txn[c].doc \in Row
    BY <2>1 DEF DocsInv, AboutIn
  <2>3. PICK i : i = txn[c].doc
    OBVIOUS
  <2>4. PICK x : x = [count[i] EXCEPT !.st = "APPROVED"]
    OBVIOUS
  <2>5. count[i] \in CountRec /\ i \in DOMAIN count /\ i \in Row
    BY <1>3, <2>2, <2>3
  <2>6. x \in CountRec
    BY <2>4, <2>5 DEF CountRec, CountStatus
  <2>7. count' = [count EXCEPT ![i] = x]
    BY <2>1, <2>3, <2>4
  <2>8. /\ count' \in [1..NumRows -> CountRec]
        /\ \A r \in DOMAIN count' : count'[r].st # "NONE" => r \in Row
    BY <1>1, <2>5, <2>6, <2>7, CountWith
  <2>9. CountTypeOK' /\ Row \subseteq Row'
    BY <1>1, <2>1, <2>8 DEF CountTypeOK, CountRec, Row
  <2>10. \A r \in DOMAIN count' : count'[r].st # "NONE" => r \in Row'
    BY <2>8, <2>9
  <2>11. QED
    BY <1>2, <2>1, <2>9, <2>10, CountStepOf
<1>11. QED
  BY <1>5, <1>6, <1>7, <1>8, <1>9, <1>10 DEF CountStep

(* The receipt is begun and committed.                                      *)
LEMMA ReceiptBeginsDocs ==
  ASSUME StockInv, DocsInv, NEW c \in Client, BeginInboundReceive(c), UNCHANGED countVars
  PROVE  DocsInv'
<1>1. PICK i \in Line, puts \in Seq(PutSet), n \in Nat, st \in InboundStatus, k \in Key \cup {NoKey} :
        /\ Begin(c, Arriving("inbound", puts, k, i, n, st))
        /\ Pieces2(puts, n)
        /\ st = "RECEIVED" => Completes(received, i, n)
  BY ReceiptBegins
<1>2. PICK u : u = Arriving("inbound", puts, k, i, n, st)
  OBVIOUS
<1>3. /\ u.op = "inbound" /\ u.doc = i /\ u.saw = n /\ u.st = st /\ u.into = <<>> /\ u.puts = puts
  BY <1>2 DEF Arriving, Request
<1>4. Len(u.into) = 0
  BY <1>3
<1>5. Goals(u) = Len(puts) /\ \A j \in {1, 2} : Goal(u, j) = puts[j]
  BY <1>3, <1>4, LenProperties DEF Goals, Goal
<1>6. \/ Goals(u) = 1 /\ u.saw = Goal(u, 1).n
      \/ Goals(u) = 2 /\ u.saw = Goal(u, 1).n + Goal(u, 2).n
  BY <1>1, <1>3, <1>5 DEF Pieces2
<1>7. AboutIn(u, Row, DOMAIN move, DOMAIN count, received) /\ u.saw \in Nat
  BY <1>1, <1>3, <1>6 DEF AboutIn
<1>8. UNCHANGED <<move, inboundVars, countVars>>
  BY DEF BeginInboundReceive
<1>9. QED
  BY <1>1, <1>2, <1>7, <1>8, BegunDocs

(* A receipt adds to its line what it wrote to the stock, and what it says  *)
(* of the shipment still holds.                                             *)
LEMMA ReceiptCommitsDocs ==
  ASSUME StockInv, DocsInv, NEW c \in Client, CommitInboundReceive(c), UNCHANGED countVars
  PROVE  DocsInv'
<1>1. PICK t : t = txn[c]
  OBVIOUS
<1>2. PICK rows : rows = Written(c, "identity")
  OBVIOUS
<1>3. /\ t.op = "inbound" /\ t.pc = "commit" /\ quant' = rows /\ txn' = [txn EXCEPT ![c] = Idle]
      /\ received' = [received EXCEPT ![t.doc] = @ + t.saw]
      /\ got' = [got EXCEPT ![t.doc] = @ + Pieces(t.into)]
      /\ shipment' = t.st
  BY <1>1, <1>2 DEF CommitInboundReceive, CommitStock, Pieces
<1>4. \/ move' = move
      \/ \E l \in Loc : \E S : /\ S \subseteq DOMAIN rows /\ S # {}
                               /\ move' = NewMove("putaway", Min(S), l, t.into[1].n)
  <2> DEFINE good == {r \in DOMAIN rows : t.into[1].st = "AVAILABLE" /\ rows[r].st = "AVAILABLE"
                                          /\ rows[r].loc = Dock}
  <2>1. \/ move' = move
        \/ good # {} /\ \E l \in Loc \ {Dock} : move' = NewMove("putaway", Min(good), l, t.into[1].n)
    BY <1>1, <1>2 DEF CommitInboundReceive
  <2>2. good \subseteq DOMAIN rows
    OBVIOUS
  <2> HIDE DEF good
  <2>3. CASE move' = move
    BY <2>3
  <2>4. CASE move' # move
    <3>1. PICK l \in Loc \ {Dock} : move' = NewMove("putaway", Min(good), l, t.into[1].n)
      BY <2>1, <2>4
    <3>2. good # {}
      BY <2>1, <2>4
    <3>3. l \in Loc
      BY <3>1
    <3>4. \E S : /\ S \subseteq DOMAIN rows /\ S # {}
                 /\ move' = NewMove("putaway", Min(S), l, t.into[1].n)
      BY <2>2, <3>1, <3>2
    <3>5. QED
      BY <3>3, <3>4
  <2>5. QED
    BY <2>3, <2>4
<1>5. Shaped(t) /\ t.op \in Transfers \cup Arrivals /\ "identity" = HowMade(t)
  BY <1>1, <1>3 DEF StockInv, Good, Arrivals, HowMade
<1>6. rows \in Seq(QuantRow) /\ Row \subseteq DOMAIN rows /\ DOMAIN rows = Row'
  BY <1>1, <1>2, <1>3, <1>5, WrittenKeeps DEF Row
<1>7. /\ Len(t.into) = 1 \/ Len(t.into) = 2
      /\ t.into \in Seq(PutSet) /\ t.puts = <<>> /\ t.saw \in Nat
      /\ \A i \in DOMAIN t.into : t.into[i] \in PutSet
      /\ DOMAIN t.into = 1..Len(t.into)
  BY <1>3, <1>5, AtCommit, TxnFacts DEF Shaped
<1>8. AboutIn(t, Row, DOMAIN move, DOMAIN count, received)
  BY <1>1 DEF DocsInv
<1>9. Pieces(t.into) = t.saw
  <2>1. Goals(t) = Len(t.into) /\ \A i \in 1..Len(t.into) : Goal(t, i) = t.into[i]
    <3>1. Len(t.puts) = 0
      BY <1>7
    <3>2. QED
      BY <3>1, <1>7 DEF Goals, Goal
  <2>2. \/ Goals(t) = 1 /\ t.saw = Goal(t, 1).n
        \/ Goals(t) = 2 /\ t.saw = Goal(t, 1).n + Goal(t, 2).n
    BY <1>3, <1>8 DEF AboutIn
  <2>3. Pieces(t.into) = IF Len(t.into) = 1 THEN t.into[1].n ELSE t.into[1].n + t.into[2].n
    BY <1>7, ReceiptPieces
  <2>4. CASE Len(t.into) = 1
    <3>1. Goals(t) = 1 /\ Goal(t, 1) = t.into[1]
      BY <2>1, <2>4
    <3>2. QED
      BY <2>2, <2>3, <2>4, <3>1
  <2>5. CASE Len(t.into) = 2
    <3>1. Goals(t) = 2 /\ Goal(t, 1) = t.into[1] /\ Goal(t, 2) = t.into[2]
      BY <2>1, <2>5
    <3>2. QED
      BY <2>2, <2>3, <2>5, <3>1
  <2>6. QED
    BY <1>7, <2>4, <2>5
<1>10. PICK n \in Nat : n = t.saw
  BY <1>7
<1>11. PICK i \in Line : i = t.doc
  BY <1>3, <1>8 DEF AboutIn
<1>12. /\ received \in [Line -> Nat] /\ got = received
       /\ MoveTypeOK /\ \A m \in DOMAIN move : move[m].row \in Row
  BY DEF DocsInv, InboundTypeOK
<1>13. PICK x \in Nat : x = received[i] + n
  BY <1>12
<1>14. received' = [received EXCEPT ![i] = x] /\ got' = received'
  BY <1>3, <1>9, <1>10, <1>11, <1>12, <1>13
<1>15. /\ received' \in [Line -> Nat]
       /\ \A j \in Line : received'[j] = IF j = i THEN x ELSE received[j]
  BY <1>12, <1>14
<1>16. \A j \in Line : received'[j] >= received[j]
  BY <1>12, <1>13, <1>15
<1>17. \A m \in DOMAIN move : move[m].row \in Row'
  BY <1>6, <1>12
<1>18. /\ move' \in Seq(MoveRec) /\ DOMAIN move \subseteq DOMAIN move'
       /\ \A m \in DOMAIN move' : move'[m].row \in Row'
  <2>1. CASE move' = move
    BY <2>1, <1>12, <1>17 DEF MoveTypeOK
  <2>2. CASE move' # move
    <3>0. PICK l \in Loc : \E S : /\ S \subseteq DOMAIN rows /\ S # {}
                                 /\ move' = NewMove("putaway", Min(S), l, t.into[1].n)
      BY <1>4, <2>2
    <3>1. PICK S : /\ S \subseteq DOMAIN rows /\ S # {}
                   /\ move' = NewMove("putaway", Min(S), l, t.into[1].n)
      BY <3>0
    <3>2. DOMAIN rows \subseteq Nat
      BY <1>6, RowFacts
    <3>3. PICK r \in Nat : r = Min(S)
      BY <3>1, <3>2, LeastIsIn
    <3>4. r \in Row'
      BY <1>6, <3>1, <3>2, <3>3, LeastIsIn
    <3>5. PICK m \in Nat : m = t.into[1].n
      BY <1>7 DEF PutSet
    <3>6. PICK kind \in {"putaway", "replenish"} : kind = "putaway"
      OBVIOUS
    <3>7. PICK here : here = Row'
      OBVIOUS
    <3>8. move' = NewMove(kind, r, l, m) /\ r \in here /\ \A d \in DOMAIN move : move[d].row \in here
      BY <1>17, <3>1, <3>3, <3>4, <3>5, <3>6, <3>7
    <3>9. /\ move' \in Seq(MoveRec) /\ DOMAIN move \subseteq DOMAIN move'
          /\ \A d \in DOMAIN move' : move'[d].row \in here
      BY <1>12, <3>8, NewTask
    <3>10. QED
      BY <3>7, <3>9
  <2>3. QED
    BY <2>1, <2>2
<1>19. plan' = plan /\ count' = count /\ DOMAIN count' = DOMAIN count
  BY DEF countVars
<1>20. Row \subseteq Row'
  BY <1>6
<1>21. \A d \in Client : AboutIn(txn'[d], Row', DOMAIN move', DOMAIN count', received')
  BY <1>3, <1>15, <1>16, <1>18, <1>19, <1>20, RequestsKept
<1>22. MoveTypeOK' /\ CountTypeOK'
  BY <1>18, <1>19 DEF DocsInv, MoveTypeOK, CountTypeOK
<1>23. InboundTypeOK'
  BY <1>3, <1>8, <1>14, <1>15 DEF InboundTypeOK, AboutIn
<1>24. \A r \in DOMAIN count' : count'[r].st # "NONE" => r \in Row'
  BY <1>19, <1>20 DEF DocsInv
<1>25. QED
  BY <1>14, <1>18, <1>21, <1>22, <1>23, <1>24 DEF DocsInv

(* An edit of the shipment sets its status and nothing else.                *)
LEMMA UpdateDocs ==
  ASSUME StockInv, DocsInv, NEW c \in Client, NEW s \in EditStatus, UpdateShipment(s), UNCHANGED countVars
  PROVE  DocsInv'
<1>1. /\ shipment' = s /\ txn' = txn /\ move' = move /\ received' = received /\ got' = got
      /\ plan' = plan /\ count' = count /\ Row' = Row
  BY DEF UpdateShipment, countVars, Row
<1>2. s \in InboundStatus
  BY InboundConstants
<1>3. MoveTypeOK' /\ InboundTypeOK' /\ CountTypeOK'
  BY <1>1, <1>2 DEF DocsInv, MoveTypeOK, InboundTypeOK, CountTypeOK
<1>4. QED
  BY <1>1, <1>3 DEF DocsInv

(* Every step of the inbound shipment keeps the documents in order.         *)
LEMMA InboundStepDocs ==
  ASSUME StockInv, DocsInv, NEW c \in Client, InboundStep(c), UNCHANGED countVars
  PROVE  DocsInv'
BY ReceiptBeginsDocs, ReceiptCommitsDocs, UpdateDocs DEF InboundStep

-----------------------------------------------------------------------------
(* The beginning.                                                           *)
LEMMA StorageStarts ==
  ASSUME StorageInit
  PROVE  StorageInv /\ ReceivedMeansComplete
<1>1. /\ quant = Start /\ ledger = [l \in Loc |-> Unreserved(l)] /\ keys = [k \in {} |-> None]
      /\ applied = [k \in Key |-> 0] /\ shipped = [l \in Loc |-> 0] /\ drift = [l \in Loc |-> 0]
      /\ txn = [c \in Client |-> Idle] /\ move = <<>>
      /\ shipment = "CREATED" /\ received = [i \in Line |-> 0] /\ got = [i \in Line |-> 0]
  BY DEF StorageInit, StockInit, MoveInit, InboundInit
<1>2. RowsGood(quant) /\ quant \in Seq(QuantRow)
  BY <1>1, StockConstants DEF RowsGood, Same
<1>3. StockInv
  <2>1. \A c \in Client : txn[c] = Idle
    BY <1>1
  <2>2. Good(Idle, quant) /\ Apart(Idle, Idle)
    BY <1>2, ApartFacts
  <2>3. Idle \in TxnRec
    BY <2>2 DEF Good, Shaped
  <2>4. txn \in [Client -> TxnRec]
    BY <1>1, <2>3
  <2>5. QED
    BY <1>2, <2>1, <2>2, <2>4 DEF StockInv
<1>4. BooksInv
  <2>1. \A l \in Loc : Unreserved(l) \in Int
    <3>1. \A l : Unreserved(l) = UnreservedIn(quant, l)
      BY DEF Unreserved, UnreservedIn, Row, MapThenSumSet, MapThenFoldSet
    <3>2. \A l : UnreservedIn(quant, l) = Spare(quant, l)
      BY <1>2, UnreservedIsSpare
    <3>3. \A l : Spare(quant, l) \in Int
      BY <1>2, RowFacts, SumInt DEF Spare
    <3>4. QED
      BY <3>1, <3>2, <3>3
  <2>2. ASSUME NEW l \in Loc PROVE ledger[l] + shipped[l] + drift[l] = Unreserved(l)
    <3>1. PICK x \in Int : x = Unreserved(l)
      BY <2>1
    <3>2. ledger[l] = x /\ shipped[l] = 0 /\ drift[l] = 0 /\ x + 0 + 0 = x
      BY <1>1, <3>1
    <3>3. QED
      BY <3>1, <3>2
  <2>3. LedgerExplainsStock
    BY <2>2 DEF LedgerExplainsStock
  <2>4. DOMAIN keys = {}
    BY <1>1
  <2>5. QED
    BY <1>1, <2>1, <2>3, <2>4 DEF BooksInv
<1>5. CountTypeOK /\ \A r \in DOMAIN count : count[r].st # "NONE" => r \in Row
  <2>1. CASE plan = "DRAFT" /\ count = [r \in 1..NumRows |-> [st |-> "NONE", expected |-> 0, counted |-> 0]]
    BY <2>1 DEF CountTypeOK, CountStatus
  <2>2. CASE plan = "RELEASED" /\ count = Tasks
    <3>1. \A r \in InScope : r \in Row /\ quant[r].qty \in Nat
      BY <1>2, RowFacts DEF InScope, Row
    <3>2. Tasks \in [1..NumRows -> CountRec] /\ \A r \in DOMAIN Tasks : Tasks[r].st # "NONE" => r \in Row
      BY <3>1 DEF Tasks, CountRec, CountStatus
    <3>3. QED
      BY <2>2, <3>2 DEF CountTypeOK, CountRec
  <2>3. QED
    BY <2>1, <2>2 DEF StorageInit, CountInit
<1>6. MoveTypeOK /\ DOMAIN move = {}
  BY <1>1 DEF MoveTypeOK
<1>7. InboundTypeOK /\ received = got
  BY <1>1 DEF InboundTypeOK, InboundStatus
<1>8. \A c \in Client : AboutIn(txn[c], Row, DOMAIN move, DOMAIN count, received)
  BY <1>1, IdleAbout
<1>9. DocsInv
  BY <1>5, <1>6, <1>7, <1>8 DEF DocsInv
<1>10. ReceivedMeansComplete
  BY <1>1 DEF ReceivedMeansComplete
<1>11. QED
  BY <1>3, <1>4, <1>9, <1>10 DEF StorageInv

(* Every step.                                                              *)
LEMMA StorageSteps ==
  ASSUME StorageInv, [StorageNext]_storageVars
  PROVE  StorageInv'
<1>1. StockInv /\ BooksInv /\ DocsInv
  BY DEF StorageInv
<1>2. CASE OrderSide /\ UNCHANGED <<freeze, move, inboundVars, countVars>>
  <2>1. StockInv' /\ BooksInv'
    BY <1>1, <1>2, OrderSideStep
  <2>2. /\ move' = move /\ shipment' = shipment /\ received' = received /\ got' = got
        /\ plan' = plan /\ count' = count
    BY <1>2 DEF inboundVars, countVars
  <2>3. txn' = txn /\ Row' = Row
    BY <1>1, <1>2 DEF OrderSide, ReserveStockQuant, ReleaseStockQuant, PickStockQuant, OrderStep,
                      StockInv, RowsGood, Row
  <2>4. MoveTypeOK' /\ InboundTypeOK' /\ CountTypeOK'
    BY <1>1, <2>2 DEF DocsInv, MoveTypeOK, InboundTypeOK, CountTypeOK
  <2>5. DocsInv'
    BY <1>1, <2>2, <2>3, <2>4 DEF DocsInv
  <2>6. QED
    BY <2>1, <2>5 DEF StorageInv
<1>3. ASSUME NEW c \in Client, InventoryStep(c), UNCHANGED <<freeze, move, inboundVars, countVars>>
      PROVE  StorageInv'
  BY <1>1, <1>3, InventoryStepStock, InventoryDocs DEF StorageInv
<1>4. ASSUME NEW c \in Client, MoveStep(c), UNCHANGED <<inboundVars, countVars>>
      PROVE  StorageInv'
  BY <1>1, <1>4, MoveStepStock, MoveStepDocs DEF StorageInv
<1>5. ASSUME NEW c \in Client, InboundStep(c), UNCHANGED countVars
      PROVE  StorageInv'
  BY <1>1, <1>5, InboundStepStock, InboundStepDocs DEF StorageInv
<1>6. ASSUME NEW c \in Client, CountStep(c)
      PROVE  StorageInv'
  BY <1>1, <1>6, CountStepStock, CountStepDocs DEF StorageInv
<1>7. CASE UNCHANGED storageVars
  <2>1. /\ UNCHANGED <<quant, ledger, keys, applied, shipped, drift, txn, move>>
        /\ shipment' = shipment /\ received' = received /\ got' = got
        /\ plan' = plan /\ count' = count
    BY <1>7 DEF storageVars, stockVars, inboundVars, countVars
  <2>2. StockInv' /\ BooksInv'
    BY <1>1, <2>1, AsideStep
  <2>3. MoveTypeOK' /\ InboundTypeOK' /\ CountTypeOK' /\ Row' = Row
    BY <1>1, <2>1 DEF DocsInv, MoveTypeOK, InboundTypeOK, CountTypeOK, Row
  <2>4. DocsInv'
    BY <1>1, <2>1, <2>3 DEF DocsInv
  <2>5. QED
    BY <2>2, <2>4 DEF StorageInv
<1>8. QED
  BY <1>2, <1>3, <1>4, <1>5, <1>6, <1>7 DEF StorageNext

(* The status of the shipment, when no edit says RECEIVED.                  *)
LEMMA ReceivedSteps ==
  ASSUME StorageInv, ReceivedMeansComplete, "RECEIVED" \notin EditStatus,
         [StorageNext]_storageVars
  PROVE  ReceivedMeansComplete'
<1>1. DocsInv
  BY DEF StorageInv
<1>2. CASE shipment' = shipment /\ received' = received
  BY <1>2 DEF ReceivedMeansComplete
<1>3. ASSUME NEW c \in Client, CommitInboundReceive(c)
      PROVE  ReceivedMeansComplete'
  <2>1. PICK t : t = txn[c]
    OBVIOUS
  <2>2. /\ t.op = "inbound" /\ received' = [received EXCEPT ![t.doc] = @ + t.saw] /\ shipment' = t.st
    BY <1>3, <2>1 DEF CommitInboundReceive
  <2>3. AboutIn(t, Row, DOMAIN move, DOMAIN count, received) /\ received \in [Line -> Nat]
    BY <1>1, <2>1 DEF DocsInv, InboundTypeOK
  <2>4. t.doc \in Line /\ (t.st = "RECEIVED" => Completes(received, t.doc, t.saw))
    BY <2>2, <2>3 DEF AboutIn
  <2>5. ASSUME shipment' = "RECEIVED", NEW j \in Line PROVE received'[j] >= Expected[j]
    <3>1. received[j] + (IF j = t.doc THEN t.saw ELSE 0) >= Expected[j]
      BY <2>2, <2>4, <2>5 DEF Completes
    <3>2. received'[j] = IF j = t.doc THEN received[j] + t.saw ELSE received[j]
      BY <2>2, <2>3
    <3>3. received[j] \in Nat
      BY <2>3
    <3>4. QED
      BY <3>1, <3>2, <3>3
  <2>6. QED
    BY <2>5 DEF ReceivedMeansComplete
<1>4. ASSUME NEW s \in EditStatus, UpdateShipment(s)
      PROVE  ReceivedMeansComplete'
  BY <1>4 DEF UpdateShipment, ReceivedMeansComplete
<1>5. ASSUME NEW c \in Client, InboundStep(c)
      PROVE  ReceivedMeansComplete'
  <2>1. CASE BeginInboundReceive(c)
    BY <1>2, <2>1 DEF BeginInboundReceive, inboundVars
  <2>2. QED
    BY <1>3, <1>4, <1>5, <2>1 DEF InboundStep
<1>6. CASE UNCHANGED inboundVars
  BY <1>2, <1>6 DEF inboundVars
<1>7. QED
  BY <1>5, <1>6 DEF StorageNext, CountStep, storageVars

-----------------------------------------------------------------------------
(* The invariant of the stock tables, of their books and of the documents.  *)
THEOREM StorageInvariant == StorageSpec => []StorageInv
<1>1. StorageInit => StorageInv
  BY StorageStarts
<1>2. StorageInv /\ [StorageNext]_storageVars => StorageInv'
  BY StorageSteps
<1>3. QED
  BY <1>1, <1>2, PTL DEF StorageSpec

(* Every column keeps its type (the schema of the stock tables, the tasks,  *)
(* the shipment and the counts).                                            *)
THEOREM StorageTypes == StorageSpec => []StorageTypeOK
<1>1. ASSUME StorageInv PROVE StorageTypeOK
  <2>1. StockInv /\ BooksInv /\ DocsInv
    BY <1>1 DEF StorageInv
  <2>2. quant \in Seq(QuantRow)
    BY <2>1 DEF StockInv, RowsGood
  <2>3. ASSUME NEW c \in Client
        PROVE  /\ txn[c].pc \in {None, "source", "identity", "commit"}
               /\ txn[c].row \in 0..Len(quant)
               /\ \A i \in DOMAIN txn[c].into : txn[c].into[i] \in PutSet
    <3>1. Shaped(txn[c]) /\ txn[c].row <= Len(quant) /\ Len(quant) \in Nat
      BY <2>1, <2>2, RowFacts DEF StockInv, Good, Placed
    <3>2. QED
      BY <3>1, TxnFacts
  <2>4. StockTypeOK
    BY <2>1, <2>2, <2>3 DEF StockTypeOK, BooksInv
  <2>5. QED
    BY <2>1, <2>4 DEF StorageTypeOK, DocsInv
<1>2. QED
  BY <1>1, StorageInvariant, PTL

(* What is promised is on the shelf, whatever receipts, moves, blocks,      *)
(* putaways, replenishments, counts and orders do at once.                  *)
THEOREM PromisedIsOnHand == StorageSpec => []ReservedWithinOnHand
<1>1. StorageInv => ReservedWithinOnHand
  BY DEF StorageInv, StockInv, RowsGood, ReservedWithinOnHand, Row
<1>2. QED
  BY <1>1, StorageInvariant, PTL

(* lockStockQuantIdentity does what it is for: two requests never make two  *)
(* rows of one identity, but for the search of the replenishment, which     *)
(* does not take that lock.                                                 *)
THEOREM OneIdentityOneRow == StorageSpec => []OneRowPerIdentity
<1>1. StorageInv => OneRowPerIdentity
  BY DEF StorageInv, StockInv, RowsGood, OneRowPerIdentity, Row, Same
<1>2. QED
  BY <1>1, StorageInvariant, PTL

(* An idempotency key is applied once, although it is looked up before the  *)
(* transaction that inserts it.                                             *)
THEOREM KeyOnce == StorageSpec => []KeyUsedOnce
<1>1. ASSUME StorageInv PROVE KeyUsedOnce
  <2>1. \A k \in Key : applied[k] = IF k \in DOMAIN keys THEN 1 ELSE 0
    BY <1>1 DEF StorageInv, BooksInv
  <2>2. QED
    BY <2>1 DEF KeyUsedOnce
<1>2. QED
  BY <1>1, StorageInvariant, PTL

(* The ledger of movements adds up to the unreserved stock of each location *)
(* (rebuildStockBalancesFromMovements), but for the picks it deducts twice  *)
(* and what a stale count wrote beside it.                                  *)
THEOREM LedgerBalances == StorageSpec => []LedgerExplainsStock
<1>1. StorageInv => LedgerExplainsStock
  BY DEF StorageInv, BooksInv
<1>2. QED
  BY <1>1, StorageInvariant, PTL

(* Receipts of one line at once are all counted, as many pieces as lie on   *)
(* the dock (InboundService.receive increments received_quantity).          *)
THEOREM EveryReceiptCounts == StorageSpec => []ReceiptsCounted
<1>1. StorageInv => ReceiptsCounted
  BY DEF StorageInv, DocsInv, ReceiptsCounted
<1>2. QED
  BY <1>1, StorageInvariant, PTL

(* A shipment that says RECEIVED is complete, as long as no edit of the     *)
(* shipment sets that status itself (InboundService.update takes any).      *)
THEOREM ReceivedIsComplete ==
  ASSUME "RECEIVED" \notin EditStatus
  PROVE  StorageSpec => []ReceivedMeansComplete
<1>1. StorageInit => StorageInv /\ ReceivedMeansComplete
  BY StorageStarts
<1>2. StorageInv /\ ReceivedMeansComplete /\ [StorageNext]_storageVars
        => (StorageInv /\ ReceivedMeansComplete)'
  BY StorageSteps, ReceivedSteps
<1>3. QED
  BY <1>1, <1>2, PTL DEF StorageSpec
=============================================================================
