---------------------------- MODULE LedgerProofs ----------------------------
(* The books of the desk, for any number of requests, orders, lines and     *)
(* quants: what is reserved is what the active reservations hold, what left *)
(* the shelves is what the lines were credited, no line is promised more    *)
(* than was ordered, and the transactions amount to ReservationLedger.      *)
EXTENDS DeskProofs, SumLemmas

(* Parts (of a plan, of what is made, of a reservation) are counted by the  *)
(* set of parts they are in.                                                *)
AtQuant(q) == {p \in Part : p.quant = q}
ForLine(l) == {p \in Part : p.line = l}

Pieces(P, s) == SumOf([i \in 1..Len(s) |-> IF s[i] \in P THEN s[i].qty ELSE 0], 1..Len(s))

PartOf(r) == [line |-> resv[r].line, quant |-> resv[r].quant, qty |-> resv[r].qty]

Worth(P) == [r \in Resv |-> IF Active(r) /\ PartOf(r) \in P THEN resv[r].qty ELSE 0]
Held(P) == SumOf(Worth(P), Resv)

(* The rows: a reservation is for a quant and, if for a line, for the order *)
(* of the line; a task is of a reservation and its line; the metadata of an *)
(* order and its column agree as far as the ledger can tell.                *)
RowsSound ==
  /\ \A r \in Resv : resv[r].status # "NONE" =>
       /\ resv[r].quant \in Quant
       /\ resv[r].line # 0 => resv[r].order = OrderOf[resv[r].line]
  /\ \A k \in Task : task[k].status # "NONE" =>
       /\ task[k].resv \in Resv
       /\ resv[task[k].resv].status # "NONE"
       /\ task[k].line = resv[task[k].resv].line
  /\ {k \in Task : task[k].status # "NONE"} = 1..TaskCount
  /\ \A o \in Order : /\ fulfil[o] = "UNSET" => status[o] \in {"CREATED", "ALLOCATED"}
                      /\ fulfil[o] = "SHIPPED" => status[o] = "SHIPPED"

(* The part of a plan, or of what is made, of transaction t.                *)
PartFor(t, p) == p.quant \in Quant /\ (p.line # 0 => p.line \in LinesOf(t.order))

(* How far t has got with its plan.                                         *)
Planned(t) ==
  /\ \A i \in 1..Len(t.plan) : PartFor(t, t.plan[i])
  /\ \A i \in 1..Len(t.made) : PartFor(t, t.made[i])
  /\ \/ t.made = <<>>
     \/ t.op = "reserve" /\ t.pc \in {"quant", "commit"}
     \/ t.op = "allocate" /\ t.pc # "order"
  /\ t.op = "reserve" => /\ t.pc \in {"order", "plan"} => Len(t.plan) = 1
                         /\ \A i \in 1..Len(t.plan) : t.plan[i].line = t.line
                         /\ \A i \in 1..Len(t.made) : t.made[i].line = t.line
  /\ t.op = "allocate" => /\ t.pc # "quant" => t.plan = <<>>
                          /\ \A i \in 1..Len(t.plan) : t.plan[i].line < t.line
                          /\ \A i \in 1..Len(t.made) : t.made[i].line < t.line

(* reserve and release have locked their order, if they have one.           *)
HasOrder(own, c, t) ==
  t.op \in {"reserve", "release"} /\ t.order # 0 /\ t.pc # "order"
    => own[<<"order", t.order>>] = c

(* What t has read of the order under its lock is still so.                 *)
Seen(t) ==
  /\ t.op \in {"reserve", "allocate"} /\ t.order # 0 /\ t.pc # "order"
       => /\ status[t.order] \notin Closed
          /\ \A l \in LinesOf(t.order) : t.saw[l] = picked[l]
  /\ t.op = "confirmPick" /\ t.pc # "order" => Effective(t.order) = "PICKING"
  /\ t.op = "releasePicking" /\ t.pc # "order" => Effective(t.order) = "ALLOCATED"

(* The rows that t is about.                                                *)
About(t) ==
  /\ t.op \in {"task", "confirmPick"} => t.task \in Task /\ task[t.task].status # "NONE"
  /\ t.op = "task" => t.target # "NONE"
  /\ t.op = "releasePicking" => \A i \in 1..Len(t.tasks) : resv[t.tasks[i]].status # "NONE"
  /\ t.op = "release" => resv[t.resv].status # "NONE" /\ t.order = resv[t.resv].order
  /\ t.op = "confirmPick" => t.qty \in 1..Ordered[t.line]
  /\ t.op = "confirmPick" /\ t.pc # "order" =>
       /\ t.resv \in Resv /\ resv[t.resv].status # "NONE"
       /\ t.plan[1].quant = resv[t.resv].quant
  /\ t.op = "confirmPick" /\ ~LineOverride =>
       /\ task[t.task].line = t.line
       /\ t.pc # "order" => resv[t.resv].line = t.line
  /\ t.op \in {"release", "confirmPick"} /\ t.pc \in {"quant", "commit"} => t.qty <= resv[t.resv].qty
  /\ t.op = "release" /\ t.pc \in {"quant", "commit"} =>
       t.qty = resv[t.resv].qty /\ t.plan[1] = PartOf(t.resv)

(* The stock that t has changed: the parts it made, less the part it takes. *)
TakenAt(t, q) == IF t.op \in {"release", "confirmPick"} /\ t.pc = "commit" /\ t.plan[1].quant = q
                 THEN t.qty ELSE 0
Booked(t, x, y) ==
  \A q \in Quant : /\ x[q] = IF t.op = "confirmPick" THEN -TakenAt(t, q) ELSE 0
                   /\ y[q] = Pieces(AtQuant(q), t.made) - TakenAt(t, q)

(* The lines can take what t has planned and made for them.                 *)
Within(t) ==
  (\/ t.op = "reserve" /\ t.pc \in {"quant", "commit"}
   \/ t.op = "allocate" /\ t.pc # "order")
    => \A l \in LinesOf(t.order) :
         picked[l] + Held(ForLine(l)) + Pieces(ForLine(l), t.plan) + Pieces(ForLine(l), t.made)
           <= Ordered[l]

Kept(own, c, t, x, y) ==
  Planned(t) /\ HasOrder(own, c, t) /\ Seen(t) /\ About(t) /\ Booked(t, x, y)

(* The three sums: of each quant, of the shelves, and of each line.         *)
StockBooked == \A q \in Quant : reserved[q] = Held(AtQuant(q))
PicksBooked == SumOf([q \in Quant |-> OnHand[q] - quantity[q]], Quant) = SumOf(picked, Line)
LinesBooked == \A l \in Line : picked[l] + Held(ForLine(l)) <= Ordered[l]

Books ==
  /\ RowsSound
  /\ \A c \in Client : Kept(owner, c, txn[c], dQty[c], dRes[c])
  /\ StockBooked
  /\ PicksBooked
  /\ ~LineOverride => LinesBooked /\ \A c \in Client : Within(txn[c])
-----------------------------------------------------------------------------
(* The set of the reservations is finite, and their parts are parts.        *)
LEMMA ResvFacts ==
  ASSUME TypeOK
  PROVE  /\ IsFiniteSet(Resv) /\ IsFiniteSet(Quant) /\ IsFiniteSet(Line)
         /\ \A r \in Resv : resv[r] \in ResvRow /\ resv[r].qty \in Nat /\ PartOf(r) \in Part
<1>1. IsFiniteSet(Resv) /\ IsFiniteSet(Quant) /\ IsFiniteSet(Line)
  BY FS_Interval, OrderStockConstants DEF Resv, Quant, Line
<1>2. ASSUME NEW r \in Resv PROVE resv[r] \in ResvRow /\ resv[r].qty \in Nat /\ PartOf(r) \in Part
  BY DEF TypeOK, ResvRow, PartOf, Part
<1>3. QED
  BY <1>1, <1>2

(* The total of a set of reservations, as a sum of a function.              *)
LEMMA TotalIsSum ==
  ASSUME TypeOK, NEW R, R \subseteq Resv
  PROVE  Total(R) = SumOf([r \in Resv |-> resv[r].qty], R)
<1> DEFINE f == [r \in Resv |-> resv[r].qty]
           Rec(g) == g = [s \in SUBSET R |-> IF s = {} THEN 0
                                             ELSE resv[First(s)].qty + g[s \ {First(s)}]]
<1>1. IsFiniteSet(R)
  BY ResvFacts, FS_Subset
<1>2. \A s \in SUBSET R : s # {} => First(s) \in Resv
  BY DEF First
<1>3. \A g : Rec(g) <=> Sums(g, f, R)
  BY <1>2 DEF Sums
<1>4. Total(R) = (CHOOSE g : Rec(g))[R]
  BY DEF Total, MapThenSumSet, MapThenFoldSet, First
<1>5. \E g : Rec(g)
  BY <1>1, <1>3, TableExists
<1> HIDE DEF Rec, f
<1>6. Sums(CHOOSE g : Rec(g), f, R)
  BY <1>3, <1>5
<1>7. (CHOOSE g : Rec(g))[R] = Table(f, R)[R]
  BY <1>1, <1>6, TableExists, TablesAgree
<1>8. QED
  BY <1>1, <1>4, <1>7, SumIsTable DEF f

(* What the active reservations of a quant, or of a line, hold.             *)
LEMMA TotalIsHeld ==
  ASSUME TypeOK
  PROVE  /\ \A q \in Quant : Total({r \in Resv : Active(r) /\ resv[r].quant = q}) = Held(AtQuant(q))
         /\ \A l \in Line : Total(ActiveOf(l)) = Held(ForLine(l))
<1> DEFINE f == [r \in Resv |-> resv[r].qty]
<1>1. ASSUME NEW P, NEW R, R = {r \in Resv : Active(r) /\ PartOf(r) \in P}
      PROVE  Total(R) = Held(P)
  <2>1. Total(R) = SumOf(f, R)
    BY <1>1, TotalIsSum
  <2>2. \A r \in R : f[r] \in Int /\ Worth(P)[r] = f[r]
    BY <1>1, ResvFacts DEF Worth
  <2>3. \A r \in Resv \ R : Worth(P)[r] = 0
    BY <1>1 DEF Worth
  <2>4. R \subseteq Resv
    BY <1>1
  <2> HIDE DEF f
  <2>5. QED
    BY <2>1, <2>2, <2>3, <2>4, ResvFacts, SumWithin DEF Held
<1>2. ASSUME NEW q \in Quant
      PROVE  {r \in Resv : Active(r) /\ resv[r].quant = q}
               = {r \in Resv : Active(r) /\ PartOf(r) \in AtQuant(q)}
  BY ResvFacts DEF AtQuant, PartOf
<1>3. ASSUME NEW l \in Line
      PROVE  ActiveOf(l) = {r \in Resv : Active(r) /\ PartOf(r) \in ForLine(l)}
  BY ResvFacts DEF ForLine, PartOf, ActiveOf
<1>4. QED
  BY <1>1, <1>2, <1>3

(* What is worth something is worth a natural number.                       *)
LEMMA HeldIsNat ==
  ASSUME TypeOK, NEW P
  PROVE  Held(P) \in Nat /\ \A r \in Resv : Worth(P)[r] \in Nat
<1>1. \A r \in Resv : Worth(P)[r] \in Nat
  BY ResvFacts DEF Worth
<1>2. QED
  BY <1>1, ResvFacts, SumNat DEF Held

(* So it is after a step.                                                   *)
LEMMA HeldStaysNat ==
  ASSUME TypeOK', NEW P
  PROVE  Held(P)' \in Nat /\ \A r \in Resv : Worth(P)'[r] \in Nat
<1>1. \A r \in Resv : resv'[r].qty \in Nat
  BY DEF TypeOK, ResvRow
<1>2. \A r \in Resv : Worth(P)'[r] \in Nat
  BY <1>1 DEF Worth
<1> DEFINE f == Worth(P)'
<1>3. IsFiniteSet(Resv)
  BY FS_Interval, OrderStockConstants DEF Resv
<1>4. Held(P)' = SumOf(f, Resv)
  BY DEF Held
<1> HIDE DEF f
<1>5. SumOf(f, Resv) \in Nat
  BY <1>2, <1>3, SumNat DEF f
<1>6. QED
  BY <1>2, <1>4, <1>5

-----------------------------------------------------------------------------
(* The pieces of a sequence of parts.                                       *)
LEMMA PiecesAreNat ==
  ASSUME NEW P, NEW s \in Seq(Part)
  PROVE  /\ Pieces(P, s) \in Nat
         /\ \A i \in 1..Len(s) : s[i] \in P => s[i].qty <= Pieces(P, s)
<1> DEFINE f == [i \in 1..Len(s) |-> IF s[i] \in P THEN s[i].qty ELSE 0]
<1>1. Len(s) \in Nat /\ \A i \in 1..Len(s) : s[i].qty \in Nat
  <2>1. Len(s) \in Nat /\ \A i \in 1..Len(s) : s[i] \in Part
    OBVIOUS
  <2>2. QED
    BY <2>1 DEF Part
<1>2. IsFiniteSet(1..Len(s))
  BY <1>1, FS_Interval
<1>3. \A i \in 1..Len(s) : f[i] \in Nat
  BY <1>1
<1>4. SumOf(f, 1..Len(s)) \in Nat /\ \A i \in 1..Len(s) : f[i] <= SumOf(f, 1..Len(s))
  <2> HIDE DEF f
  <2>1. QED
    BY <1>2, <1>3, SumNat
<1>5. QED
  BY <1>4 DEF Pieces

(* Nothing made holds nothing.                                             *)
LEMMA PiecesOfNone == ASSUME NEW P PROVE Pieces(P, <<>>) = 0
<1>1. 1..Len(<<>>) = {}
  OBVIOUS
<1>2. QED
  BY <1>1, SumEmpty DEF Pieces

(* None of the parts is one of P.                                           *)
LEMMA PiecesElsewhere ==
  ASSUME NEW P, NEW s \in Seq(Part), \A i \in 1..Len(s) : s[i] \notin P
  PROVE  Pieces(P, s) = 0
<1> DEFINE f == [i \in 1..Len(s) |-> IF s[i] \in P THEN s[i].qty ELSE 0]
<1>1. IsFiniteSet(1..Len(s))
  BY FS_Interval
<1>2. \A i \in 1..Len(s) : f[i] = 0
  OBVIOUS
<1> HIDE DEF f
<1>3. SumOf(f, 1..Len(s)) = 0
  BY <1>1, <1>2, SumZero
<1>4. QED
  BY <1>3 DEF Pieces, f

(* One more part.                                                           *)
LEMMA PiecesAppend ==
  ASSUME NEW P, NEW s \in Seq(Part), NEW p \in Part
  PROVE  Pieces(P, Append(s, p)) = Pieces(P, s) + IF p \in P THEN p.qty ELSE 0
<1> DEFINE n == Len(s)
           t == Append(s, p)
           f == [i \in 1..Len(s) |-> IF s[i] \in P THEN s[i].qty ELSE 0]
           g == [i \in 1..Len(t) |-> IF t[i] \in P THEN t[i].qty ELSE 0]
<1>1. /\ n \in Nat /\ t \in Seq(Part) /\ Len(t) = n + 1 /\ t[n + 1] = p
      /\ \A i \in 1..n : t[i] = s[i]
  OBVIOUS
<1>2. \A i \in 1..(n + 1) : t[i].qty \in Nat
  <2>1. \A i \in 1..(n + 1) : t[i] \in Part
    BY <1>1
  <2>2. QED
    BY <2>1 DEF Part
<1>3. /\ \A i \in 1..(n + 1) : g[i] \in Nat
      /\ g[n + 1] = IF p \in P THEN p.qty ELSE 0
      /\ \A i \in 1..n : g[i] = f[i]
  <2> HIDE DEF t
  <2>1. \A i \in 1..(n + 1) : g[i] = IF t[i] \in P THEN t[i].qty ELSE 0
    BY <1>1
  <2>2. n + 1 \in 1..(n + 1) /\ \A i \in 1..n : i \in 1..(n + 1)
    BY <1>1
  <2> HIDE DEF g
  <2>3. QED
    BY <1>1, <1>2, <2>1, <2>2
<1> HIDE DEF f, g
<1>4. IsFiniteSet(1..(n + 1)) /\ n + 1 \in 1..(n + 1) /\ (1..(n + 1)) \ {n + 1} = 1..n
      /\ IsFiniteSet(1..n)
  <2> HIDE DEF n
  <2>1. n + 1 \in Int /\ 1 \in Int
    BY <1>1
  <2>2. IsFiniteSet(1..(n + 1)) /\ IsFiniteSet(1..n)
    BY <1>1, <2>1, FS_Interval
  <2>3. n + 1 \in 1..(n + 1) /\ (1..(n + 1)) \ {n + 1} = 1..n
    BY <1>1
  <2>4. QED
    BY <2>2, <2>3
<1>5. SumOf(g, 1..(n + 1)) = g[n + 1] + SumOf(g, 1..n)
  BY <1>3, <1>4, SumAdd
<1>6. SumOf(g, 1..n) = SumOf(f, 1..n)
  BY <1>3, <1>4, SumSame
<1>7. SumOf(f, 1..n) \in Nat /\ g[n + 1] \in Nat
  BY <1>3, <1>4, PiecesAreNat DEF Pieces, f
<1>8. Pieces(P, s) = SumOf(f, 1..n) /\ Pieces(P, t) = SumOf(g, 1..(n + 1))
  BY <1>1 DEF Pieces, f, g
<1> HIDE DEF n, t
<1>9. Pieces(P, t) = Pieces(P, s) + g[n + 1]
  BY <1>5, <1>6, <1>7, <1>8
<1>10. QED
  BY <1>3, <1>9 DEF t

(* One part.                                                                *)
LEMMA PiecesOne ==
  ASSUME NEW P, NEW p \in Part
  PROVE  Pieces(P, <<p>>) = IF p \in P THEN p.qty ELSE 0
<1> DEFINE none == <<>>
<1>1. none \in Seq(Part) /\ Append(none, p) = <<p>> /\ p.qty \in Nat
  BY DEF Part
<1>2. Pieces(P, none) = 0
  BY PiecesOfNone
<1> HIDE DEF none
<1>3. Pieces(P, Append(none, p)) = Pieces(P, none) + IF p \in P THEN p.qty ELSE 0
  BY <1>1, PiecesAppend
<1>4. QED
  BY <1>1, <1>2, <1>3

(* The first part and the rest.                                             *)
LEMMA PiecesTail ==
  ASSUME NEW P, NEW s \in Seq(Part), s # <<>>
  PROVE  Pieces(P, s) = Pieces(P, Tail(s)) + IF Head(s) \in P THEN Head(s).qty ELSE 0
<1> DEFINE n == Len(s)
           t == Tail(s)
           f == [i \in 1..Len(s) |-> IF s[i] \in P THEN s[i].qty ELSE 0]
           g == [i \in 1..Len(t) |-> IF t[i] \in P THEN t[i].qty ELSE 0]
           D == 1..(n - 1)
           at == [i \in D |-> i + 1]
<1>1. /\ n \in Nat /\ n >= 1 /\ t \in Seq(Part) /\ Len(t) = n - 1 /\ s[1] = Head(s)
      /\ \A i \in D : t[i] = s[i + 1]
  OBVIOUS
<1>2. \A i \in 1..n : f[i] \in Nat
  <2>1. \A i \in 1..n : s[i] \in Part
    OBVIOUS
  <2>2. QED
    BY <2>1 DEF Part
<1>3. 1 \in 1..n /\ f[1] = IF Head(s) \in P THEN Head(s).qty ELSE 0
  BY <1>1
<1>4. \A i \in D : g[i] = f[at[i]] /\ g[i] \in Int
  <2> TAKE i \in D
  <2>1. at[i] = i + 1 /\ i + 1 \in 1..n /\ i \in 1..Len(t)
    BY <1>1
  <2>2. g[i] = IF t[i] \in P THEN t[i].qty ELSE 0
    BY <2>1
  <2>3. f[i + 1] = IF s[i + 1] \in P THEN s[i + 1].qty ELSE 0
    BY <2>1
  <2>4. t[i] = s[i + 1]
    BY <1>1
  <2>5. f[i + 1] \in Nat
    BY <1>2, <2>1
  <2> HIDE DEF f, g, t, at
  <2>6. QED
    BY <2>1, <2>2, <2>3, <2>4, <2>5
<1>5. Pieces(P, s) = SumOf(f, 1..n) /\ Pieces(P, t) = SumOf(g, D)
  BY <1>1 DEF Pieces
<1>6. IsFiniteSet(1..n) /\ IsFiniteSet(D)
  BY <1>1, FS_Interval
<1>7. /\ at \in [D -> 1..n] /\ \A i, j \in D : at[i] = at[j] => i = j
      /\ {at[i] : i \in D} = (1..n) \ {1}
  <2>1. at \in [D -> 1..n] /\ \A i, j \in D : at[i] = at[j] => i = j
    BY <1>1
  <2>2. \A x \in (1..n) \ {1} : x - 1 \in D /\ at[x - 1] = x
    BY <1>1
  <2>3. \A i \in D : at[i] \in (1..n) \ {1}
    BY <1>1
  <2> HIDE DEF at, D, n
  <2>4. QED
    BY <2>1, <2>2, <2>3
<1> HIDE DEF f, g, D, at, n, t
<1> DEFINE N == 1..n
<1>9. \A i \in N : f[i] \in Int
  BY <1>2
<1>10. 1 \in N /\ IsFiniteSet(N) /\ {at[i] : i \in D} = N \ {1} /\ at \in [D -> N]
  BY <1>3, <1>6, <1>7
<1>8. SumOf(g, D) = SumOf(f, N \ {1})
  <2> DEFINE M == N \ {1}
  <2>1. at \in [D -> M]
    BY <1>10
  <2>2. \A y \in M : \E i \in D : at[i] = y
    BY <1>10
  <2> HIDE DEF M
  <2>3. QED
    BY <1>4, <1>6, <1>7, <2>1, <2>2, SumRenamed DEF M
<1>11. SumOf(f, N) = f[1] + SumOf(f, N \ {1})
  <2> HIDE DEF N
  <2>1. QED
    BY <1>9, <1>10, SumAdd
<1>12. Pieces(P, s) = f[1] + Pieces(P, t)
  BY <1>5, <1>8, <1>10, <1>11
<1>13. Pieces(P, t) \in Nat
  BY <1>1, PiecesAreNat
<1>14. QED
  BY <1>2, <1>3, <1>12, <1>13 DEF t

-----------------------------------------------------------------------------
(* Inserted reservations add the pieces they were made of.                  *)
LEMMA HeldInsert ==
  ASSUME IInv, Numbered, NEW c \in Client, InsertResv(NewReservations(c)), NEW P
  PROVE  Held(P)' = Held(P) + Pieces(P, txn[c].made)
<1> DEFINE n == ResvCount
           s == txn[c].made
           k == Len(s)
           f == Worth(P)
           g == Worth(P)'
           h == [i \in 1..Len(s) |-> IF s[i] \in P THEN s[i].qty ELSE 0]
           at == [i \in 1..k |-> n + i]
           A == 1..n
           B == {at[i] : i \in 1..k}
<1>1. TypeOK /\ s \in Seq(Part) /\ k \in Nat /\ n \in Nat
  <2>1. s \in Seq(Part)
    BY TxnIsTyped DEF Txn
  <2>2. QED
    BY <2>1, CountsAreNatural DEF IInv
<1>2. n + k <= NumResv /\ NumResv \in Nat /\ Len(NewReservations(c)) = k
  <2>1. Len(NewReservations(c)) = k
    BY <1>1 DEF NewReservations
  <2>2. QED
    BY <2>1, OrderStockConstants DEF InsertResv
<1>3. \A r \in Resv : resv'[r] = IF r - n \in 1..k THEN NewReservations(c)[r - n] ELSE resv[r]
  BY <1>2 DEF InsertResv
<1>4. \A r \in Resv : resv[r].status # "NONE" <=> r <= n
  <2>1. {r \in Resv : resv[r].status # "NONE"} = 1..n
    BY DEF Numbered
  <2> HIDE DEF n
  <2>2. \A r \in Resv : r \in 1..n <=> r <= n
    BY <1>1, <1>2 DEF Resv
  <2>3. QED
    BY <2>1, <2>2
<1> HIDE DEF n, k
<1>5. A \subseteq Resv /\ B \subseteq Resv /\ A \cap B = {} /\ at \in [1..k -> Resv]
  BY <1>1, <1>2 DEF Resv
<1>6. \A i \in 1..k : /\ s[i] \in Part /\ at[i] \in Resv /\ at[i] - n = i
                     /\ resv'[at[i]] = NewReservations(c)[i]
  <2> TAKE i \in 1..k
  <2>1. s[i] \in Part
    BY <1>1 DEF k
  <2>2. at[i] \in Resv /\ at[i] - n = i
    BY <1>1, <1>2 DEF Resv
  <2>3. resv'[at[i]] = NewReservations(c)[i]
    BY <1>3, <2>2
  <2>4. QED
    BY <2>1, <2>2, <2>3
<1>7. \A i \in 1..k : g[at[i]] = h[i] /\ h[i] \in Nat
  <2> TAKE i \in 1..k
  <2>1. NewReservations(c)[i] = [status |-> "ACTIVE", order |-> txn[c].order, line |-> s[i].line,
                                 quant |-> s[i].quant, qty |-> s[i].qty]
    BY DEF NewReservations, k
  <2>2. /\ resv'[at[i]].status = "ACTIVE" /\ resv'[at[i]].line = s[i].line
        /\ resv'[at[i]].quant = s[i].quant /\ resv'[at[i]].qty = s[i].qty
    BY <1>6, <2>1
  <2>3. [line |-> s[i].line, quant |-> s[i].quant, qty |-> s[i].qty] = s[i] /\ s[i].qty \in Nat
    BY <1>6 DEF Part
  <2>4. g[at[i]] = IF s[i] \in P THEN s[i].qty ELSE 0
    BY <1>6, <2>2, <2>3 DEF Worth, Active, PartOf
  <2>5. h[i] = IF s[i] \in P THEN s[i].qty ELSE 0
    BY DEF k
  <2>6. QED
    BY <2>3, <2>4, <2>5
<1>8. \A r \in A : g[r] = f[r] /\ f[r] \in Int
  <2> TAKE r \in A
  <2>1. r \in Resv /\ r - n \notin 1..k
    BY <1>1, <1>5
  <2>2. resv'[r] = resv[r]
    BY <1>3, <2>1
  <2>3. g[r] = f[r]
    BY <2>1, <2>2 DEF Worth, Active, PartOf
  <2>4. QED
    BY <1>1, <2>1, <2>3, HeldIsNat
<1>9. \A r \in Resv \ A : f[r] = 0
  <2> TAKE r \in Resv \ A
  <2>1. ~ (r <= n)
    BY <1>1, <1>2 DEF Resv
  <2>2. QED
    BY <1>4, <2>1 DEF Worth, Active
<1>10. \A r \in Resv \ (A \cup B) : g[r] = 0
  <2> TAKE r \in Resv \ (A \cup B)
  <2>1. r - n \notin 1..k
    <3> SUFFICES ASSUME r - n \in 1..k PROVE FALSE
      OBVIOUS
    <3>1. r = at[r - n]
      BY <1>1, <1>2 DEF Resv
    <3>2. QED
      BY <3>1
  <2>2. resv'[r] = resv[r] /\ resv[r].status = "NONE"
    <3>1. ~ (r <= n)
      BY <1>1, <1>2 DEF Resv
    <3>2. QED
      BY <1>3, <1>4, <2>1, <3>1
  <2>3. QED
    BY <2>2 DEF Worth, Active
<1> HIDE DEF f, g, h, at
<1>11. \A r \in B : g[r] \in Int
  BY <1>7
<1>12. IsFiniteSet(Resv) /\ IsFiniteSet(A) /\ IsFiniteSet(B) /\ IsFiniteSet(1..k)
  <2>1. IsFiniteSet(Resv) /\ IsFiniteSet(1..k)
    BY <1>1, ResvFacts, FS_Interval
  <2> HIDE DEF A, B
  <2>2. QED
    BY <1>5, <2>1, FS_Subset
<1>13. SumOf(f, Resv) = SumOf(f, A)
  <2> HIDE DEF A
  <2>1. QED
    BY <1>5, <1>8, <1>9, <1>12, SumWithin
<1>14. SumOf(g, Resv) = SumOf(g, A \cup B)
  <2> HIDE DEF A, B
  <2>1. \A r \in A \cup B : g[r] \in Int
    BY <1>8, <1>11
  <2>2. A \cup B \subseteq Resv
    BY <1>5
  <2>3. QED
    BY <1>10, <1>12, <2>1, <2>2, SumWithin
<1>15. SumOf(g, A \cup B) = SumOf(g, A) + SumOf(g, B)
  <2> HIDE DEF A, B
  <2>1. \A r \in A \cup B : g[r] \in Int
    BY <1>8, <1>11
  <2>2. QED
    BY <1>5, <1>12, <2>1, SumJoin
<1>16. SumOf(g, A) = SumOf(f, A)
  <2> HIDE DEF A
  <2>1. QED
    BY <1>8, <1>12, SumSame
<1>17. SumOf(h, 1..k) = SumOf(g, B)
  <2> DEFINE D == 1..k
  <2>1. \A i, j \in D : at[i] = at[j] => i = j
    BY <1>1 DEF at
  <2>2. \A i \in D : h[i] = g[at[i]] /\ h[i] \in Int
    BY <1>7
  <2>3. at \in [D -> Resv] /\ IsFiniteSet(D)
    BY <1>5, <1>12
  <2> HIDE DEF D
  <2>4. B = {at[i] : i \in D}
    BY DEF D
  <2>5. at \in [D -> B] /\ \A y \in B : \E i \in D : at[i] = y
    BY <2>3, <2>4
  <2> HIDE DEF B
  <2>6. SumOf(h, D) = SumOf(g, B)
    BY <2>1, <2>2, <2>3, <2>5, SumRenamed
  <2>7. QED
    BY <2>6 DEF D
<1>18. Held(P)' = SumOf(g, Resv) /\ Held(P) = SumOf(f, Resv) /\ Pieces(P, s) = SumOf(h, 1..k)
  BY DEF Held, Pieces, f, g, h, k
<1>19. QED
  BY <1>13, <1>14, <1>15, <1>16, <1>17, <1>18

(* An edited reservation counts for what it is worth now.                   *)
LEMMA HeldEdit ==
  ASSUME TypeOK, TypeOK', NEW r \in Resv, \A k \in Resv \ {r} : resv'[k] = resv[k], NEW P
  PROVE  Held(P)' = Held(P) + Worth(P)'[r] - Worth(P)[r]
<1> DEFINE f == Worth(P)
           g == Worth(P)'
<1>1. \A k \in Resv : f[k] \in Int
  BY HeldIsNat
<1>2. \A k \in Resv : g[k] \in Int
  <2>1. \A k \in Resv : resv'[k].qty \in Nat
    BY DEF TypeOK, ResvRow
  <2>2. QED
    BY <2>1 DEF Worth
<1>3. \A k \in Resv \ {r} : f[k] = g[k]
  BY DEF Worth, Active, PartOf
<1>4. Held(P)' = SumOf(g, Resv) /\ Held(P) = SumOf(f, Resv)
  BY DEF Held
<1> HIDE DEF f, g
<1>5. SumOf(g, Resv) = SumOf(f, Resv) + g[r] - f[r]
  BY <1>1, <1>2, <1>3, ResvFacts, SumUpdate
<1>6. QED
  BY <1>4, <1>5 DEF f, g

(* Nothing changes while the reservations do not.                           *)
LEMMA HeldSame ==
  ASSUME resv' = resv, NEW P PROVE Held(P)' = Held(P)
BY DEF Held, Worth, Active, PartOf

-----------------------------------------------------------------------------
(* What the rows of a reservation or a task keep, whoever writes them.      *)
Persist ==
  /\ \A r \in Resv : resv[r].status # "NONE" =>
       /\ resv'[r].status # "NONE" /\ resv'[r].quant = resv[r].quant
       /\ resv'[r].line = resv[r].line /\ resv'[r].order = resv[r].order
  /\ \A k \in Task : task[k].status # "NONE" =>
       task'[k].status # "NONE" /\ task'[k].resv = task[k].resv /\ task'[k].line = task[k].line

(* Transaction d is left alone, and so are the rows it has locked.          *)
Spared(d) ==
  /\ txn'[d] = txn[d] /\ dQty'[d] = dQty[d] /\ dRes'[d] = dRes[d]
  /\ \A x \in Row : owner[x] = d => owner'[x] = d
  /\ \A r \in Resv : owner[<<"resv", r>>] = d /\ resv[r].status # "NONE" => resv'[r] = resv[r]
  /\ \A o \in Order : owner[<<"order", o>>] = d =>
       /\ status'[o] = status[o] /\ fulfil'[o] = fulfil[o]
       /\ \A l \in LinesOf(o) : picked'[l] = picked[l]

(* A transaction t that is left alone keeps its part of the books.          *)
LEMMA SparedKept ==
  ASSUME IInv, Settled, NEW d \in Client, Persist, Spared(d), RowsSound,
         NEW t, t = txn[d], NEW x, NEW y, Kept(owner, d, t, x, y)
  PROVE  Kept(owner, d, t, x, y)'
<1>1. t \in Txn /\ Ready(t) /\ Holds(owner, d, t)
  BY TxnIsTyped DEF Settled
<1>2. /\ \A r \in Resv : <<"resv", r>> \in Row
      /\ \A o \in Order : <<"order", o>> \in Row
  BY DEF Row
<1>3. t.order \in Order \cup {0} /\ t.resv \in Resv \cup {0} /\ t.task \in Task \cup {0}
  BY <1>1 DEF Txn
<1>4. Planned(t)' /\ Booked(t, x, y)'
  BY DEF Kept, Planned, PartFor, LinesOf, Booked, TakenAt, Pieces, AtQuant
<1>5. HasOrder(owner, d, t)'
  BY <1>1, <1>2, <1>3 DEF Kept, HasOrder, Spared
<1>6. Seen(t)'
  <2>1. ASSUME t.op \in OnOrder \cup {"reserve"}, t.order # 0, t.pc # "order"
        PROVE  /\ t.order \in Order /\ status'[t.order] = status[t.order]
               /\ fulfil'[t.order] = fulfil[t.order]
               /\ \A l \in LinesOf(t.order) : picked'[l] = picked[l]
    <3>1. owner[<<"order", t.order>>] = d /\ t.order \in Order
      BY <1>1, <1>3, <2>1 DEF Kept, HasOrder, Holds
    <3>2. QED
      BY <3>1 DEF Spared
  <2>2. t.op \in OnOrder => t.order # 0
    BY <1>1, OrderStockConstants DEF Holds, Order
  <2>3. QED
    BY <2>1, <2>2 DEF Kept, Seen, LinesOf, Effective, OnOrder
<1>7. About(t)'
  <2>1. ASSUME t.op \in {"release", "confirmPick"}, t.pc \in {"quant", "commit"}
        PROVE  resv'[t.resv] = resv[t.resv]
    <3>1. t.resv \in Resv /\ resv[t.resv].status # "NONE" /\ t.resv # 0
      BY <1>1, <2>1 DEF Kept, About, Ready, Resv
    <3>2. owner[<<"resv", t.resv>>] = d
      BY <1>1, <2>1, <3>1 DEF Holds
    <3>3. QED
      BY <3>1, <3>2 DEF Spared
  <2>2. t.op = "release" => t.resv \in Resv
    BY <1>1 DEF Ready
  <2>3. t.op = "releasePicking" => \A i \in 1..Len(t.tasks) : t.tasks[i] \in Resv
    <3>1. t.tasks \in Seq(Resv)
      BY <1>1 DEF Txn
    <3>2. QED
      BY <3>1
  <2>4. t.op = "confirmPick" => t.task \in Task
    BY <1>1 DEF Ready
  <2>5. About(t)
    BY DEF Kept
  <2>6. t.op \in {"task", "confirmPick"} => t.task \in Task /\ task'[t.task].status # "NONE"
    BY <2>5 DEF About, Persist
  <2>7. t.op = "task" => t.target # "NONE"
    BY <2>5 DEF About
  <2>8. t.op = "releasePicking" => \A i \in 1..Len(t.tasks) : resv'[t.tasks[i]].status # "NONE"
    BY <2>3, <2>5 DEF About, Persist
  <2>9. t.op = "release" => resv'[t.resv].status # "NONE" /\ t.order = resv'[t.resv].order
    BY <2>2, <2>5 DEF About, Persist
  <2>10. t.op = "confirmPick" => t.qty \in 1..Ordered[t.line]
    BY <2>5 DEF About
  <2>11. t.op = "confirmPick" /\ t.pc # "order" =>
           /\ t.resv \in Resv /\ resv'[t.resv].status # "NONE"
           /\ t.plan[1].quant = resv'[t.resv].quant
    BY <2>5 DEF About, Persist
  <2>12. t.op = "confirmPick" /\ ~LineOverride =>
           /\ task'[t.task].line = t.line
           /\ t.pc # "order" => resv'[t.resv].line = t.line
    BY <2>5 DEF About, Persist
  <2>13. t.op \in {"release", "confirmPick"} /\ t.pc \in {"quant", "commit"}
           => t.qty <= resv'[t.resv].qty
    BY <2>1, <2>5 DEF About
  <2>14. t.op = "release" /\ t.pc \in {"quant", "commit"} =>
           t.qty = resv'[t.resv].qty /\ t.plan[1] = PartOf(t.resv)'
    BY <2>1, <2>5 DEF About, PartOf
  <2>15. QED
    BY <2>6, <2>7, <2>8, <2>9, <2>10, <2>11, <2>12, <2>13, <2>14 DEF About
<1>8. QED
  BY <1>4, <1>5, <1>6, <1>7 DEF Kept

(* The lines of its order can still take what it has planned and made.      *)
LEMMA SparedWithin ==
  ASSUME IInv, IInv', Settled, NEW d \in Client, Spared(d), NEW t, t = txn[d],
         HasOrder(owner, d, t), Within(t),
         \A l \in Line : owner[<<"order", OrderOf[l]>>] = d => Held(ForLine(l))' <= Held(ForLine(l))
  PROVE  Within(t)'
<1>1. t \in Txn /\ Holds(owner, d, t)
  BY TxnIsTyped DEF Settled
<1>2. t.plan \in Seq(Part) /\ t.made \in Seq(Part)
  BY <1>1 DEF Txn
<1>3. ASSUME \/ t.op = "reserve" /\ t.pc \in {"quant", "commit"}
             \/ t.op = "allocate" /\ t.pc # "order",
             NEW l \in LinesOf(t.order)
      PROVE  picked'[l] + Held(ForLine(l))' + Pieces(ForLine(l), t.plan)
                + Pieces(ForLine(l), t.made) <= Ordered[l]
  <2>4. l \in Line /\ OrderOf[l] = t.order /\ t.order \in Order /\ t.order # 0
    BY OrderStockConstants DEF LinesOf, Order
  <2>5. owner[<<"order", t.order>>] = d
    BY <1>1, <1>3, <2>4 DEF HasOrder, Holds, OnOrder
  <2>6. picked'[l] = picked[l] /\ Held(ForLine(l))' <= Held(ForLine(l))
    BY <1>3, <2>4, <2>5 DEF Spared
  <2> DEFINE P == ForLine(l)
  <2> HIDE DEF P
  <2>7. /\ picked[l] \in Nat /\ Ordered[l] \in Nat /\ Held(P) \in Nat /\ Held(P)' \in Nat
        /\ Pieces(P, t.plan) \in Nat /\ Pieces(P, t.made) \in Nat
    BY <1>2, <2>4, HeldIsNat, HeldStaysNat, PiecesAreNat, OrderStockConstants DEF IInv, TypeOK
  <2>8. picked[l] + Held(P) + Pieces(P, t.plan) + Pieces(P, t.made) <= Ordered[l]
    BY <1>3 DEF Within, P
  <2>9. picked'[l] = picked[l] /\ Held(P)' <= Held(P)
    BY <2>6 DEF P
  <2>10. picked'[l] + Held(P)' + Pieces(P, t.plan) + Pieces(P, t.made) <= Ordered[l]
    BY <2>7, <2>8, <2>9
  <2>11. QED
    BY <2>10 DEF P
<1>4. QED
  BY <1>3 DEF Within, LinesOf, Pieces, ForLine

(* The books after a step of c: what it leaves to the others, what it keeps *)
(* itself, and the sums.                                                    *)
LEMMA BooksAfter ==
  ASSUME IInv, IInv', Settled, Books, NEW c \in Client, Persist, RowsSound',
         \A d \in Client \ {c} : Spared(d),
         NEW u, NEW x, NEW y, txn'[c] = u, dQty'[c] = x, dRes'[c] = y, Kept(owner, c, u, x, y)',
         StockBooked', PicksBooked',
         ~LineOverride =>
           /\ LinesBooked' /\ Within(u)'
           /\ \A d \in Client \ {c} : \A l \in Line :
                owner[<<"order", OrderOf[l]>>] = d => Held(ForLine(l))' <= Held(ForLine(l))
  PROVE  Books'
<1>1. ASSUME NEW d \in Client, d # c PROVE Kept(owner, d, txn[d], dQty[d], dRes[d])'
  <2>1. PICK t : t = txn[d]
    OBVIOUS
  <2>2. PICK v : v = dQty[d]
    OBVIOUS
  <2>3. PICK w : w = dRes[d]
    OBVIOUS
  <2>4. Spared(d) /\ RowsSound /\ Kept(owner, d, t, v, w)
    BY <1>1, <2>1, <2>2, <2>3 DEF Books
  <2>5. Kept(owner, d, t, v, w)'
    BY <2>1, <2>4, SparedKept
  <2>6. txn'[d] = t /\ dQty'[d] = v /\ dRes'[d] = w
    BY <2>1, <2>2, <2>3, <2>4 DEF Spared
  <2>7. QED
    BY <2>5, <2>6
<1>2. Kept(owner, c, txn[c], dQty[c], dRes[c])'
  OBVIOUS
<1>3. ASSUME ~LineOverride, NEW d \in Client, d # c PROVE Within(txn[d])'
  <2>1. PICK t : t = txn[d]
    OBVIOUS
  <2>2. Spared(d) /\ Within(t) /\ HasOrder(owner, d, t)
    BY <1>3, <2>1 DEF Books, Kept
  <2>3. Within(t)'
    BY <1>3, <2>1, <2>2, SparedWithin
  <2>4. txn'[d] = t
    BY <2>1, <2>2 DEF Spared
  <2>5. QED
    BY <2>3, <2>4
<1>4. ~LineOverride => Within(txn[c])'
  OBVIOUS
<1>5. QED
  BY <1>1, <1>2, <1>3, <1>4 DEF Books

(* A step of c that changes no data.                                        *)
LEMMA LocalBooks ==
  ASSUME IInv, IInv', Settled, Books, NEW c \in Client, UNCHANGED data,
         NEW u, txn' = [txn EXCEPT ![c] = u],
         NEW x, dQty' = [dQty EXCEPT ![c] = x], NEW y, dRes' = [dRes EXCEPT ![c] = y],
         owner' = owner \/ (\E row : Acquire(c, row)) \/ owner' = Unlocked(c),
         Planned(u), HasOrder(owner', c, u), Seen(u), About(u), Booked(u, x, y),
         ~LineOverride => Within(u)
  PROVE  Books'
<1>1. /\ quantity' = quantity /\ reserved' = reserved /\ resv' = resv /\ task' = task
      /\ status' = status /\ fulfil' = fulfil /\ picked' = picked
  BY DEF data
<1>2. /\ txn'[c] = u /\ dQty'[c] = x /\ dRes'[c] = y
      /\ \A d \in Client \ {c} : txn'[d] = txn[d] /\ dQty'[d] = dQty[d] /\ dRes'[d] = dRes[d]
  BY DEF IInv, TypeOK
<1>3. \A d \in Client \ {c} : \A r \in Row : owner[r] = d => owner'[r] = d
  BY LocksKept, LocksFreed
<1>4. Persist /\ \A d \in Client \ {c} : Spared(d)
  BY <1>1, <1>2, <1>3 DEF Persist, Spared
<1>5. RowsSound'
  BY <1>1 DEF Books, RowsSound, TaskCount
<1>6. \A P : Held(P)' = Held(P)
  BY <1>1 DEF Held, Worth, Active, PartOf
<1>7. Planned(u)' /\ HasOrder(owner, c, u)' /\ Seen(u)' /\ About(u)' /\ Booked(u, x, y)'
  <2>1. Planned(u)' /\ Booked(u, x, y)'
    BY DEF Planned, PartFor, LinesOf, Booked, TakenAt, Pieces, AtQuant
  <2>2. HasOrder(owner, c, u)'
    BY DEF HasOrder
  <2>3. Seen(u)'
    BY <1>1 DEF Seen, LinesOf, Effective
  <2>4. About(u)'
    BY <1>1 DEF About, PartOf
  <2>5. QED
    BY <2>1, <2>2, <2>3, <2>4
<1>8. Kept(owner, c, u, x, y)'
  BY <1>7 DEF Kept
<1>9. StockBooked' /\ PicksBooked'
  <2>1. StockBooked'
    BY <1>1 DEF Books, StockBooked, Held, Worth, Active, PartOf, AtQuant
  <2>2. PicksBooked'
    BY <1>1 DEF Books, PicksBooked
  <2>3. QED
    BY <2>1, <2>2
<1>10. ~LineOverride => LinesBooked'
  BY <1>1 DEF Books, LinesBooked, Held, Worth, Active, PartOf, ForLine
<1>11. ASSUME ~LineOverride PROVE Within(u)'
  BY <1>1, <1>11 DEF Within, LinesOf, Pieces, ForLine, Held, Worth, Active, PartOf
<1>12. \A l \in Line : Held(ForLine(l))' <= Held(ForLine(l))
  <2> TAKE l \in Line
  <2> DEFINE P == ForLine(l)
  <2>1. Held(P) \in Nat
    <3> HIDE DEF P
    <3>1. QED
      BY HeldIsNat DEF IInv
  <2>2. Held(P)' = Held(P)
    <3> HIDE DEF P
    <3>1. QED
      BY <1>1, HeldSame
  <2>3. QED
    BY <2>1, <2>2
<1>13. QED
  BY <1>2, <1>4, <1>5, <1>8, <1>9, <1>10, <1>11, <1>12, BooksAfter

(* A step of c that changes neither data nor its own updates of quants, and *)
(* is not the one that takes stock.                                         *)
LEMMA EditBooks ==
  ASSUME IInv, IInv', Settled, Books, NEW c \in Client, UNCHANGED <<data, dQty, dRes>>,
         NEW u, txn' = [txn EXCEPT ![c] = u], u.made = txn[c].made,
         txn[c].op \notin {"release", "confirmPick"} \/ txn[c].pc # "commit",
         u.op \notin {"release", "confirmPick"} \/ u.pc # "commit",
         u.op = txn[c].op \/ txn[c].op = "none",
         owner' = owner \/ (\E row : Acquire(c, row)),
         Planned(u), HasOrder(owner', c, u), Seen(u), About(u),
         ~LineOverride => Within(u)
  PROVE  Books'
<1>1. PICK x : x = dQty[c]
  OBVIOUS
<1>2. PICK y : y = dRes[c]
  OBVIOUS
<1>3. dQty' = [dQty EXCEPT ![c] = x] /\ dRes' = [dRes EXCEPT ![c] = y]
  BY <1>1, <1>2 DEF IInv, TypeOK
<1>4. Booked(txn[c], x, y)
  BY <1>1, <1>2 DEF Books, Kept
<1>5. \A q \in Quant : TakenAt(txn[c], q) = 0 /\ TakenAt(u, q) = 0
  BY DEF TakenAt
<1>6. Booked(u, x, y)
  BY <1>4, <1>5 DEF Booked
<1>7. QED
  BY <1>3, <1>6, LocalBooks

(* Nothing is on the books of a transaction that is over.                   *)
LEMMA IdleBooks ==
  ASSUME NEW c, NEW own
  PROVE  /\ Idle.op = "none" /\ Idle.made = <<>> /\ Planned(Idle) /\ HasOrder(own, c, Idle) /\ Seen(Idle)
         /\ About(Idle) /\ Booked(Idle, NoChange, NoChange) /\ Within(Idle)
<1>1. Idle.op = "none" /\ Idle.made = <<>> /\ Idle.plan = <<>>
  BY DEF Idle
<1>2. Planned(Idle)
  BY <1>1 DEF Planned
<1>3. Booked(Idle, NoChange, NoChange)
  <2>1. \A q \in Quant : TakenAt(Idle, q) = 0 /\ Pieces(AtQuant(q), Idle.made) = 0
    BY <1>1, PiecesOfNone DEF TakenAt
  <2>2. QED
    BY <1>1, <2>1 DEF Booked, NoChange
<1>4. QED
  BY <1>1, <1>2, <1>3 DEF HasOrder, Seen, About, Within

(* A rollback takes nothing to the books.                                   *)
LEMMA RollbackBooks ==
  ASSUME IInv, IInv', Settled, Books, NEW c \in Client, Rollback(c) PROVE Books'
BY IdleBooks, LocalBooks DEF Rollback

(* A request that begins has taken nothing.                                 *)
LEMMA BeginBooks ==
  ASSUME IInv, IInv', Settled, Books, NEW c \in Client, NEW request, Begin(c, request),
         request.made = <<>>, request.op \notin {"release", "confirmPick"} \/ request.pc # "commit",
         Planned(request), HasOrder(owner, c, request), Seen(request), About(request),
         ~LineOverride => Within(request)
  PROVE  Books'
<1>1. /\ txn[c] = Idle /\ txn' = [txn EXCEPT ![c] = request] /\ UNCHANGED <<data, dQty, dRes>>
      /\ owner' = owner
  BY DEF Begin
<1>2. txn[c].op = "none" /\ txn[c].made = <<>>
  BY <1>1, IdleBooks
<1>3. HasOrder(owner', c, request)
  BY <1>1
<1>4. QED
  BY <1>1, <1>2, <1>3, EditBooks

(* What is on the books of a transaction in its course.                     *)
LEMMA OnBooks ==
  ASSUME IInv, Books, NEW c \in Client
  PROVE  /\ txn[c] \in Txn /\ Ready(txn[c]) /\ txn[c].plan \in Seq(Part) /\ txn[c].made \in Seq(Part)
         /\ Planned(txn[c]) /\ HasOrder(owner, c, txn[c]) /\ Seen(txn[c]) /\ About(txn[c])
         /\ Booked(txn[c], dQty[c], dRes[c]) /\ (~LineOverride => Within(txn[c]))
<1>1. txn[c] \in Txn /\ Ready(txn[c])
  BY TxnIsTyped
<1>2. txn[c].plan \in Seq(Part) /\ txn[c].made \in Seq(Part)
  BY <1>1 DEF Txn
<1>3. QED
  BY <1>1, <1>2 DEF Books, Kept

(* An order that c had locked stays locked.                                 *)
LEMMA OrderStaysMine ==
  ASSUME IInv, NEW c \in Client, NEW o \in Order,
         \/ owner[<<"order", o>>] = c /\ (owner' = owner \/ \E row : Acquire(c, row))
         \/ Acquire(c, <<"order", o>>)
  PROVE  owner'[<<"order", o>>] = c
<1>1. <<"order", o>> \in Row
  BY DEF Row
<1>2. CASE owner[<<"order", o>>] = c /\ (owner' = owner \/ \E row : Acquire(c, row))
  BY <1>1, <1>2, LocksKept
<1>3. CASE Acquire(c, <<"order", o>>)
  BY <1>1, <1>3 DEF Acquire, IInv, TypeOK
<1>4. QED
  BY <1>2, <1>3

-----------------------------------------------------------------------------
(* reserveStockQuant moves a part from what is planned to what is made.     *)
LEMMA ReserveStockQuantBooks ==
  ASSUME IInv, IInv', Settled, Books, NEW c \in Client, ReserveStockQuant(c) PROVE Books'
<1> DEFINE t == txn[c]
           p == Head(t.plan)
           pc == IF Len(t.plan) > 1 THEN "quant" ELSE IF t.op = "allocate" THEN "plan" ELSE "commit"
           u == [t EXCEPT !.plan = Tail(@), !.made = Append(@, p), !.pc = pc]
           y == [dRes[c] EXCEPT ![p.quant] = @ + p.qty]
<1>1. /\ t \in Txn /\ Ready(t) /\ t.plan \in Seq(Part) /\ t.made \in Seq(Part)
      /\ Planned(t) /\ HasOrder(owner, c, t) /\ Seen(t) /\ Booked(t, dQty[c], dRes[c])
      /\ ~LineOverride => Within(t)
  BY OnBooks
<1>2. t.op \in {"reserve", "allocate"} /\ t.pc = "quant" /\ t.plan # <<>>
  BY <1>1 DEF ReserveStockQuant, Ready
<1>3. /\ u.op = t.op /\ u.order = t.order /\ u.line = t.line /\ u.saw = t.saw /\ u.pc = pc
      /\ u.plan = Tail(t.plan) /\ u.made = Append(t.made, p)
  BY <1>1 DEF Txn
<1>4. /\ UNCHANGED data /\ txn' = [txn EXCEPT ![c] = u] /\ dQty' = [dQty EXCEPT ![c] = dQty[c]]
      /\ dRes' = [dRes EXCEPT ![c] = y] /\ Acquire(c, <<"quant", p.quant>>)
  BY DEF ReserveStockQuant, IInv, TypeOK
<1>5. /\ p \in Part /\ p = t.plan[1] /\ 1 \in 1..Len(t.plan) /\ u.plan \in Seq(Part) /\ u.made \in Seq(Part)
      /\ \A i \in 1..Len(u.plan) : i + 1 \in 1..Len(t.plan) /\ u.plan[i] = t.plan[i + 1]
      /\ \A i \in 1..Len(u.made) : \/ i \in 1..Len(t.made) /\ u.made[i] = t.made[i]
                                   \/ u.made[i] = p
      /\ ~(Len(t.plan) > 1) => u.plan = <<>>
  <2> DEFINE s == t.plan
             m == t.made
  <2>1. s \in Seq(Part) /\ s # <<>> /\ m \in Seq(Part)
    BY <1>1, <1>2
  <2> HIDE DEF s, m
  <2>2. /\ Head(s) \in Part /\ Head(s) = s[1] /\ 1 \in 1..Len(s) /\ Tail(s) \in Seq(Part)
        /\ \A i \in 1..Len(Tail(s)) : i + 1 \in 1..Len(s) /\ Tail(s)[i] = s[i + 1]
        /\ ~(Len(s) > 1) => Tail(s) = <<>>
    BY <2>1
  <2>3. /\ Append(m, Head(s)) \in Seq(Part)
        /\ \A i \in 1..Len(Append(m, Head(s))) :
             \/ i \in 1..Len(m) /\ Append(m, Head(s))[i] = m[i]
             \/ Append(m, Head(s))[i] = Head(s)
    BY <2>1, <2>2
  <2>4. QED
    BY <1>3, <2>2, <2>3 DEF s, m
<1> HIDE DEF u, p
<1>6. Planned(u)
  <2>1. pc = "plan" => t.op = "allocate"
    BY <1>2
  <2>2. pc # "quant" => u.plan = <<>>
    BY <1>5
  <2>3. PartFor(t, p)
    BY <1>1, <1>5 DEF Planned
  <2>4. \A i \in 1..Len(u.plan) : PartFor(u, u.plan[i])
    BY <1>1, <1>3, <1>5 DEF Planned, PartFor
  <2>5. \A i \in 1..Len(u.made) : PartFor(u, u.made[i])
    BY <1>1, <1>3, <1>5, <2>3 DEF Planned, PartFor
  <2>6. ASSUME t.op = "reserve"
        PROVE  /\ \A i \in 1..Len(u.plan) : u.plan[i].line = t.line
               /\ \A i \in 1..Len(u.made) : u.made[i].line = t.line
    BY <1>1, <1>5, <2>6 DEF Planned
  <2>7. ASSUME t.op = "allocate"
        PROVE  /\ \A i \in 1..Len(u.plan) : u.plan[i].line < t.line
               /\ \A i \in 1..Len(u.made) : u.made[i].line < t.line
    BY <1>1, <1>5, <2>7 DEF Planned
  <2>8. pc \in {"quant", "plan", "commit"}
    OBVIOUS
  <2> HIDE DEF pc
  <2>9. QED
    BY <1>2, <1>3, <2>1, <2>2, <2>4, <2>5, <2>6, <2>7, <2>8 DEF Planned
<1>7. HasOrder(owner', c, u)
  <2>1. t.order \in Order \cup {0}
    BY <1>1 DEF Txn
  <2>2. ASSUME u.op = "reserve", u.order # 0 PROVE owner'[<<"order", u.order>>] = c
    BY <1>1, <1>2, <1>3, <1>4, <2>1, <2>2, OrderStaysMine DEF HasOrder
  <2>3. QED
    BY <1>2, <1>3, <2>2 DEF HasOrder
<1>8. Seen(u) /\ About(u)
  BY <1>1, <1>2, <1>3 DEF Seen, About
<1>9. Booked(u, dQty[c], y)
  <2> SUFFICES ASSUME NEW q \in Quant
               PROVE  /\ dQty[c][q] = 0
                      /\ y[q] = Pieces(AtQuant(q), u.made) - TakenAt(u, q)
    BY <1>2, <1>3 DEF Booked
  <2>1. TakenAt(t, q) = 0 /\ TakenAt(u, q) = 0
    BY <1>2, <1>3 DEF TakenAt
  <2>2. dQty[c][q] = 0 /\ dRes[c][q] = Pieces(AtQuant(q), t.made) - 0
    BY <1>1, <1>2, <2>1 DEF Booked
  <2>3. Pieces(AtQuant(q), u.made) = Pieces(AtQuant(q), t.made) + IF p \in AtQuant(q) THEN p.qty ELSE 0
    BY <1>1, <1>3, <1>5, PiecesAppend
  <2>4. p \in AtQuant(q) <=> p.quant = q
    BY <1>5 DEF AtQuant
  <2>5. dRes[c] \in [Quant -> Int] /\ p.qty \in Nat
    BY <1>5 DEF IInv, TypeOK, Part
  <2>6. y[q] = dRes[c][q] + IF p.quant = q THEN p.qty ELSE 0
    BY <2>5
  <2>7. Pieces(AtQuant(q), t.made) \in Nat
    BY <1>1, PiecesAreNat
  <2> HIDE DEF y
  <2>8. QED
    BY <1>2, <1>3, <2>1, <2>2, <2>3, <2>4, <2>5, <2>6, <2>7
<1>10. ASSUME ~LineOverride PROVE Within(u)
  <2> SUFFICES ASSUME NEW l \in LinesOf(t.order)
               PROVE  picked[l] + Held(ForLine(l)) + Pieces(ForLine(l), u.plan)
                        + Pieces(ForLine(l), u.made) <= Ordered[l]
    BY <1>3 DEF Within
  <2> DEFINE P == ForLine(l)
             a == IF p \in P THEN p.qty ELSE 0
  <2>1. picked[l] + Held(P) + Pieces(P, t.plan) + Pieces(P, t.made) <= Ordered[l]
    BY <1>1, <1>2, <1>10 DEF Within
  <2> HIDE DEF P
  <2>2. Pieces(P, t.plan) = Pieces(P, u.plan) + a /\ Pieces(P, u.made) = Pieces(P, t.made) + a
    BY <1>1, <1>2, <1>3, <1>5, PiecesTail, PiecesAppend DEF p
  <2>3. /\ Pieces(P, u.plan) \in Nat /\ Pieces(P, t.made) \in Nat /\ a \in Nat
    BY <1>1, <1>5, PiecesAreNat DEF Part
  <2>4. picked[l] \in Nat /\ Held(P) \in Nat /\ Ordered[l] \in Nat
    BY HeldIsNat, OrderStockConstants DEF IInv, TypeOK, LinesOf
  <2>5. picked[l] + Held(P) + Pieces(P, u.plan) + Pieces(P, u.made) <= Ordered[l]
    <3> HIDE DEF a
    <3>1. QED
      BY <2>1, <2>2, <2>3, <2>4
  <2>6. QED
    BY <2>5 DEF P
<1> HIDE DEF t, y, pc
<1>11. QED
  BY <1>4, <1>6, <1>7, <1>8, <1>9, <1>10, LocalBooks

(* ReservationsService.create up to its commit.                             *)
LEMMA ReserveBooks ==
  ASSUME IInv, IInv', Settled, Books, NEW c \in Client,
         BeginReserve(c) \/ LockOrderToReserve(c) \/ CheckRemainingQuantity(c)
  PROVE  Books'
<1> DEFINE t == txn[c]
<1>1. /\ t \in Txn /\ Ready(t) /\ t.plan \in Seq(Part) /\ t.made \in Seq(Part)
      /\ Planned(t) /\ HasOrder(owner, c, t) /\ Seen(t)
  BY OnBooks
<1>2. CASE BeginReserve(c)
  <2> DEFINE part(x, q, n) == [line |-> x.line, quant |-> q, qty |-> n]
             request(x, q, n) ==
               [Idle EXCEPT !.op = "reserve", !.order = x.order, !.line = x.line,
                  !.pc = IF x.order = 0 THEN "quant" ELSE "order", !.plan = <<part(x, q, n)>>]
  <2>1. PICK x \in ReserveContext, q \in Quant : \E n \in 1..OnHand[q] : Begin(c, request(x, q, n))
    BY <1>2 DEF BeginReserve
  <2>2. PICK n \in 1..OnHand[q] : Begin(c, request(x, q, n))
    BY <2>1
  <2> DEFINE u == request(x, q, n)
             p == part(x, q, n)
  <2>3. /\ u.op = "reserve" /\ u.order = x.order /\ u.line = x.line /\ u.made = <<>> /\ u.plan = <<p>>
        /\ u.pc = IF x.order = 0 THEN "quant" ELSE "order"
    BY DEF Idle
  <2>4. x.order \in Order \cup {0} /\ x.line \in Line \cup {0}
        /\ (x.line # 0 => x.order = OrderOf[x.line])
    BY OrderStockConstants DEF ReserveContext
  <2>5. p \in Part /\ p.line = x.line /\ p.quant = q
    BY <2>4 DEF Part
  <2>6. Len(u.plan) = 1 /\ u.plan[1] = p /\ Len(u.made) = 0
    BY <2>3
  <2> HIDE DEF u, p
  <2>7. PartFor(u, p)
    BY <2>3, <2>4, <2>5 DEF PartFor, LinesOf
  <2>8. Planned(u)
    BY <2>3, <2>5, <2>6, <2>7 DEF Planned
  <2>9. HasOrder(owner, c, u) /\ Seen(u) /\ About(u)
    BY <2>3 DEF HasOrder, Seen, About
  <2>10. Within(u)
    <3>1. u.pc = "quant" => LinesOf(u.order) = {}
      BY <2>3, OrderStockConstants DEF LinesOf, Order
    <3>2. QED
      BY <2>3, <3>1 DEF Within
  <2>11. Begin(c, u)
    BY <2>2 DEF u
  <2>12. u.op \notin {"release", "confirmPick"}
    BY <2>3
  <2>13. QED
    BY <2>3, <2>8, <2>9, <2>10, <2>11, <2>12, BeginBooks
<1>3. CASE LockOrderToReserve(c)
  <2> DEFINE u == [t EXCEPT !.pc = IF t.line = 0 THEN "quant" ELSE "plan", !.saw = picked]
  <2>1. /\ t.op = "reserve" /\ t.pc = "order" /\ Acquire(c, <<"order", t.order>>)
        /\ UNCHANGED <<data, dQty, dRes>> /\ status[t.order] \notin Closed
        /\ txn' = [txn EXCEPT ![c] = u]
    BY <1>3 DEF LockOrderToReserve, LockOrder, IInv, TypeOK
  <2>2. /\ u.op = "reserve" /\ u.order = t.order /\ u.line = t.line /\ u.made = t.made /\ u.plan = t.plan
        /\ u.saw = picked /\ u.pc = IF t.line = 0 THEN "quant" ELSE "plan"
    BY <1>1, <2>1 DEF Txn
  <2>3. t.order \in Order \cup {0}
    BY <1>1 DEF Txn
  <2> HIDE DEF u
  <2>4. u.made = <<>> /\ Len(u.plan) = 1 /\ u.plan[1].line = t.line
    BY <1>1, <2>1, <2>2 DEF Planned
  <2>5. Planned(u)
    BY <1>1, <2>1, <2>2 DEF Planned, PartFor
  <2>6. HasOrder(owner', c, u)
    BY <2>1, <2>2, <2>3, OrderStaysMine DEF HasOrder
  <2>7. Seen(u) /\ About(u)
    BY <2>1, <2>2 DEF Seen, About
  <2>8. ASSUME ~LineOverride PROVE Within(u)
    <3> SUFFICES ASSUME NEW l \in LinesOf(t.order), t.line = 0
                 PROVE  picked[l] + Held(ForLine(l)) + Pieces(ForLine(l), u.plan)
                          + Pieces(ForLine(l), u.made) <= Ordered[l]
      BY <2>2 DEF Within
    <3>1. l # 0
      BY DEF LinesOf, Line
    <3>2. Pieces(ForLine(l), u.made) = 0
      BY <2>4, PiecesOfNone
    <3>3. Pieces(ForLine(l), u.plan) = 0
      <4>1. \A i \in 1..Len(u.plan) : u.plan[i] \notin ForLine(l)
        BY <2>4, <3>1 DEF ForLine
      <4>2. QED
        BY <1>1, <2>2, <4>1, PiecesElsewhere
    <3>4. picked[l] + Held(ForLine(l)) <= Ordered[l]
      BY <2>8 DEF Books, LinesBooked, LinesOf
    <3>5. picked[l] \in Nat /\ Held(ForLine(l)) \in Nat /\ Ordered[l] \in Nat
      BY HeldIsNat, OrderStockConstants DEF IInv, TypeOK, LinesOf
    <3>6. QED
      BY <3>2, <3>3, <3>4, <3>5
  <2>9. QED
    BY <2>1, <2>2, <2>5, <2>6, <2>7, <2>8, EditBooks
<1>4. CASE CheckRemainingQuantity(c)
  <2> DEFINE u == [t EXCEPT !.pc = "quant"]
             l == t.line
  <2>1. /\ t.op = "reserve" /\ t.pc = "plan" /\ owner' = owner /\ l # 0
        /\ UNCHANGED <<data, dQty, dRes>> /\ txn' = [txn EXCEPT ![c] = u]
        /\ t.plan[1].qty <= Ordered[l] - t.saw[l] - Total(ActiveOf(l))
    BY <1>4 DEF CheckRemainingQuantity, CheckRemaining, IInv, TypeOK
  <2>2. /\ u.op = "reserve" /\ u.order = t.order /\ u.line = t.line /\ u.made = t.made /\ u.plan = t.plan
        /\ u.saw = t.saw /\ u.pc = "quant"
    BY <1>1, <2>1 DEF Txn
  <2> HIDE DEF u
  <2>3. /\ u.made = <<>> /\ Len(t.plan) = 1 /\ t.plan[1].line = l /\ PartFor(t, t.plan[1])
    BY <1>1, <2>1, <2>2 DEF Planned
  <2>4. Planned(u) /\ HasOrder(owner', c, u) /\ Seen(u) /\ About(u)
    BY <1>1, <2>1, <2>2 DEF Planned, PartFor, HasOrder, Seen, About
  <2>5. ASSUME ~LineOverride PROVE Within(u)
    <3> DEFINE p == t.plan[1]
    <3>1. l \in LinesOf(t.order) /\ p \in Part /\ t.plan = <<p>>
      <4>1. l \in LinesOf(t.order)
        BY <2>1, <2>3 DEF PartFor
      <4> DEFINE s == t.plan
      <4>2. s \in Seq(Part) /\ Len(s) = 1
        BY <1>1, <2>3
      <4> HIDE DEF s
      <4>3. s[1] \in Part /\ s = <<s[1]>>
        BY <4>2
      <4>4. QED
        BY <4>1, <4>3 DEF s
    <3> HIDE DEF p
    <3>2. t.saw[l] = picked[l]
      <4>1. t.order # 0
        BY <3>1, OrderStockConstants DEF LinesOf, Order
      <4>2. QED
        BY <1>1, <2>1, <3>1, <4>1 DEF Seen
    <3>3. Total(ActiveOf(l)) = Held(ForLine(l))
      BY <3>1, TotalIsHeld DEF IInv, LinesOf
    <3>4. SUFFICES ASSUME NEW k \in LinesOf(t.order)
                   PROVE  picked[k] + Held(ForLine(k)) + Pieces(ForLine(k), u.plan)
                            + Pieces(ForLine(k), u.made) <= Ordered[k]
      BY <2>2 DEF Within
    <3>5. Pieces(ForLine(k), u.made) = 0
      BY <2>3, PiecesOfNone
    <3>6. Pieces(ForLine(k), u.plan) = IF k = l THEN p.qty ELSE 0
      <4>1. p \in ForLine(k) <=> k = l
        BY <2>3, <3>1 DEF ForLine, p
      <4>2. QED
        BY <2>2, <3>1, <4>1, PiecesOne
    <3>7. picked[k] + Held(ForLine(k)) <= Ordered[k]
      BY <2>5 DEF Books, LinesBooked, LinesOf
    <3>8. picked[k] \in Nat /\ Held(ForLine(k)) \in Nat /\ Ordered[k] \in Nat /\ p.qty \in Nat
      BY <3>1, HeldIsNat, OrderStockConstants DEF IInv, TypeOK, LinesOf, Part
    <3>9. k = l => p.qty <= Ordered[k] - picked[k] - Held(ForLine(k))
      BY <2>1, <3>2, <3>3 DEF p
    <3> HIDE DEF l
    <3>10. QED
      BY <3>5, <3>6, <3>7, <3>8, <3>9
  <2>6. QED
    BY <2>1, <2>2, <2>4, <2>5, EditBooks
<1>5. QED
  BY <1>2, <1>3, <1>4

(* The parts that the greedy loop has chosen for a line add up to its need. *)
LEMMA PlansAddUp ==
  ASSUME NEW c, NEW l \in Line, NEW need \in Int, NEW p \in Plans(c, l, need)
  PROVE  /\ p \in Seq(Part) /\ Pieces(ForLine(l), p) = need
         /\ \A i \in 1..Len(p) : p[i].line = l /\ p[i].quant \in Quant
<1> DEFINE candidates == {q \in Matches[l] : Available(c, q) > 0}
           F(k) == [1..k -> [line : {l}, quant : candidates, qty : 1..need]]
           D == DOMAIN p
           f == [i \in D |-> p[i].qty]
           Rec(g) == g = [s \in SUBSET D |-> IF s = {} THEN 0
                                             ELSE p[First(s)].qty + g[s \ {First(s)}]]
<1>1. p \in Seq(Part) /\ p # <<>>
  BY PlansAreParts
<1>2. D = 1..Len(p) /\ Len(p) \in Nat
  BY <1>1
<1>3. IsFiniteSet(D)
  BY <1>2, FS_Interval
<1>4. \A i \in D : p[i].line = l /\ p[i].quant \in Quant /\ p[i] \in Part /\ p[i].qty \in Nat
  <2>1. PICK k \in 1..Cardinality(candidates) : p \in F(k)
    BY DEF Plans
  <2>2. \A i \in D : p[i] \in [line : {l}, quant : candidates, qty : 1..need]
    BY <2>1
  <2>3. candidates \subseteq Quant
    BY OrderStockConstants
  <2> HIDE DEF candidates
  <2>4. QED
    BY <2>2, <2>3 DEF Part
<1>5. \A s \in SUBSET D : s # {} => First(s) \in D
  BY DEF First
<1>6. \A g : Rec(g) <=> Sums(g, f, D)
  BY <1>5 DEF Sums
<1>7. need = (CHOOSE g : Rec(g))[D]
  BY DEF Plans, MapThenSumSet, MapThenFoldSet, First
<1>8. \E g : Rec(g)
  BY <1>3, <1>6, TableExists
<1> HIDE DEF Rec, f, D
<1>9. PICK T : T = CHOOSE g : Rec(g)
  OBVIOUS
<1>10. Sums(T, f, D) /\ Sums(Table(f, D), f, D)
  BY <1>3, <1>6, <1>8, <1>9, TableExists
<1>11. need = SumOf(f, D)
  <2>1. T[D] = Table(f, D)[D]
    BY <1>3, <1>10, TablesAgree
  <2>2. QED
    BY <1>3, <1>7, <1>9, <2>1, SumIsTable
<1> DEFINE h == [i \in 1..Len(p) |-> IF p[i] \in ForLine(l) THEN p[i].qty ELSE 0]
<1>12. \A i \in D : h[i] = f[i]
  BY <1>2, <1>4 DEF f, ForLine
<1> HIDE DEF h
<1>13. SumOf(h, D) = SumOf(f, D)
  BY <1>3, <1>12, SumSame
<1>14. Pieces(ForLine(l), p) = SumOf(h, D)
  BY <1>2 DEF Pieces, h
<1>15. QED
  BY <1>1, <1>2, <1>4, <1>11, <1>13, <1>14

(* AllocationService.allocateOutboundOrder up to its commit.                *)
LEMMA AllocateBooks ==
  ASSUME IInv, IInv', Settled, Books, NEW c \in Client,
         BeginAllocate(c) \/ LockOrderToAllocate(c) \/ FindAvailableStockQuants(c) \/ NextLine(c)
  PROVE  Books'
<1> DEFINE t == txn[c]
<1>1. /\ t \in Txn /\ Ready(t) /\ t.plan \in Seq(Part) /\ t.made \in Seq(Part)
      /\ Planned(t) /\ HasOrder(owner, c, t) /\ Seen(t) /\ (~LineOverride => Within(t))
  BY OnBooks
<1>2. CASE BeginAllocate(c)
  <2>1. PICK o \in Order : Begin(c, [Idle EXCEPT !.op = "allocate", !.pc = "order", !.order = o])
    BY <1>2 DEF BeginAllocate
  <2> DEFINE u == [Idle EXCEPT !.op = "allocate", !.pc = "order", !.order = o]
  <2>2. u.op = "allocate" /\ u.pc = "order" /\ u.order = o /\ u.made = <<>> /\ u.plan = <<>>
    BY DEF Idle
  <2> HIDE DEF u
  <2>3. Planned(u) /\ HasOrder(owner, c, u) /\ Seen(u) /\ About(u) /\ Within(u)
    BY <2>2 DEF Planned, HasOrder, Seen, About, Within
  <2>4. u.op \notin {"release", "confirmPick"}
    BY <2>2
  <2>5. QED
    BY <2>1, <2>2, <2>3, <2>4, BeginBooks DEF u
<1>3. CASE LockOrderToAllocate(c)
  <2> DEFINE u == [t EXCEPT !.pc = "plan", !.line = 1, !.saw = picked]
  <2>1. /\ t.op = "allocate" /\ t.pc = "order" /\ Acquire(c, <<"order", t.order>>)
        /\ UNCHANGED <<data, dQty, dRes>> /\ status[t.order] \notin Closed
        /\ txn' = [txn EXCEPT ![c] = u]
    BY <1>3 DEF LockOrderToAllocate, LockOrder, IInv, TypeOK
  <2>2. /\ u.op = "allocate" /\ u.order = t.order /\ u.made = t.made /\ u.plan = t.plan
        /\ u.saw = picked /\ u.pc = "plan"
    BY <1>1, <2>1 DEF Txn
  <2> HIDE DEF u
  <2>3. u.made = <<>> /\ u.plan = <<>>
    BY <1>1, <2>1, <2>2 DEF Planned
  <2>4. Planned(u) /\ HasOrder(owner', c, u) /\ Seen(u) /\ About(u)
    BY <2>1, <2>2, <2>3 DEF Planned, HasOrder, Seen, About
  <2>5. ASSUME ~LineOverride PROVE Within(u)
    <3> SUFFICES ASSUME NEW l \in LinesOf(t.order)
                 PROVE  picked[l] + Held(ForLine(l)) + Pieces(ForLine(l), u.plan)
                          + Pieces(ForLine(l), u.made) <= Ordered[l]
      BY <2>2 DEF Within
    <3>1. Pieces(ForLine(l), u.made) = 0 /\ Pieces(ForLine(l), u.plan) = 0
      BY <2>3, PiecesOfNone
    <3>2. picked[l] + Held(ForLine(l)) <= Ordered[l]
      BY <2>5 DEF Books, LinesBooked, LinesOf
    <3>3. picked[l] \in Nat /\ Held(ForLine(l)) \in Nat
      BY HeldIsNat DEF IInv, TypeOK, LinesOf
    <3>4. QED
      BY <3>1, <3>2, <3>3
  <2>6. QED
    BY <2>1, <2>2, <2>4, <2>5, EditBooks
<1>4. CASE FindAvailableStockQuants(c)
  <2> DEFINE l == t.line
             need == Ordered[l] - t.saw[l] - Total(ActiveOf(l))
  <2>1. /\ t.op = "allocate" /\ t.pc = "plan" /\ owner' = owner /\ l \in LinesOf(t.order)
        /\ UNCHANGED <<data, dQty, dRes>>
    BY <1>4 DEF FindAvailableStockQuants
  <2>2. PICK p \in Plans(c, l, need) :
          txn' = [txn EXCEPT ![c].plan = p, ![c].pc = "quant", ![c].line = l + 1]
    BY <1>4 DEF FindAvailableStockQuants
  <2> DEFINE u == [t EXCEPT !.plan = p, !.pc = "quant", !.line = l + 1]
  <2>3. txn' = [txn EXCEPT ![c] = u]
    BY <2>2 DEF IInv, TypeOK
  <2>4. /\ u.op = "allocate" /\ u.order = t.order /\ u.made = t.made /\ u.plan = p
        /\ u.saw = t.saw /\ u.pc = "quant" /\ u.line = l + 1
    BY <1>1, <2>1 DEF Txn
  <2>5. l \in Line /\ l \in Nat /\ l # 0 /\ t.order \in Order /\ t.order # 0 /\ OrderOf[l] = t.order
    BY <2>1, OrderStockConstants DEF LinesOf, Line, Order
  <2>6. t.saw[l] = picked[l] /\ Total(ActiveOf(l)) = Held(ForLine(l))
    BY <1>1, <2>1, <2>5, TotalIsHeld DEF Seen, IInv
  <2>7. picked[l] \in Nat /\ Held(ForLine(l)) \in Nat /\ Ordered[l] \in Nat
    BY <2>5, HeldIsNat, OrderStockConstants DEF IInv, TypeOK
  <2>8. need \in Int /\ need = Ordered[l] - picked[l] - Held(ForLine(l))
    BY <2>6, <2>7
  <2> HIDE DEF u, need
  <2>9. /\ p \in Seq(Part) /\ Pieces(ForLine(l), p) = need
        /\ \A i \in 1..Len(p) : p[i].line = l /\ p[i].quant \in Quant
    <3>1. PICK m \in Line, n \in Int : m = l /\ n = need
      BY <2>5, <2>8
    <3>2. p \in Plans(c, m, n)
      BY <3>1
    <3>3. /\ p \in Seq(Part) /\ Pieces(ForLine(m), p) = n
          /\ \A i \in 1..Len(p) : p[i].line = m /\ p[i].quant \in Quant
      BY <3>2, PlansAddUp
    <3>4. QED
      BY <3>1, <3>3
  <2>10. Planned(u)
    <3>1. \A i \in 1..Len(u.plan) : PartFor(u, u.plan[i]) /\ u.plan[i].line < u.line
      BY <2>1, <2>4, <2>5, <2>9 DEF PartFor
    <3>2. \A i \in 1..Len(u.made) : PartFor(u, u.made[i])
      BY <1>1, <2>4 DEF Planned, PartFor
    <3>3. \A i \in 1..Len(u.made) : u.made[i].line < u.line
      <4> TAKE i \in 1..Len(u.made)
      <4>1. u.made[i] \in Part /\ u.made[i].line < l
        BY <1>1, <2>1, <2>4 DEF Planned
      <4>2. u.made[i].line \in Int
        BY <4>1 DEF Part, Line
      <4>3. QED
        BY <2>4, <2>5, <4>1, <4>2
    <3>4. QED
      BY <2>4, <3>1, <3>2, <3>3 DEF Planned
  <2>11. HasOrder(owner', c, u) /\ Seen(u) /\ About(u)
    BY <1>1, <2>1, <2>4 DEF HasOrder, Seen, About
  <2>12. ASSUME ~LineOverride PROVE Within(u)
    <3> SUFFICES ASSUME NEW k \in LinesOf(t.order)
                 PROVE  picked[k] + Held(ForLine(k)) + Pieces(ForLine(k), u.plan)
                          + Pieces(ForLine(k), u.made) <= Ordered[k]
      BY <2>4 DEF Within
    <3>1. CASE k = l
      <4>1. \A i \in 1..Len(t.made) : t.made[i] \notin ForLine(k)
        <5> SUFFICES ASSUME NEW i \in 1..Len(t.made), t.made[i] \in ForLine(k) PROVE FALSE
          OBVIOUS
        <5>1. t.made[i].line < l /\ t.made[i].line = l
          BY <1>1, <2>1, <3>1 DEF Planned, ForLine
        <5>2. QED
          BY <2>5, <5>1
      <4>2. Pieces(ForLine(k), t.made) = 0
        BY <1>1, <4>1, PiecesElsewhere
      <4>3. QED
        BY <2>4, <2>7, <2>8, <2>9, <3>1, <4>2
    <3>2. CASE k # l
      <4>1. \A i \in 1..Len(p) : p[i] \notin ForLine(k)
        BY <2>9, <3>2 DEF ForLine
      <4>2. Pieces(ForLine(k), p) = 0
        BY <2>9, <4>1, PiecesElsewhere
      <4>3. t.plan = <<>> /\ Pieces(ForLine(k), <<>>) = 0
        BY <1>1, <2>1, PiecesOfNone DEF Planned
      <4>4. picked[k] + Held(ForLine(k)) + Pieces(ForLine(k), t.plan)
              + Pieces(ForLine(k), t.made) <= Ordered[k]
        BY <1>1, <2>1, <2>12 DEF Within
      <4>5. QED
        BY <2>4, <4>2, <4>3, <4>4
    <3>3. QED
      BY <3>1, <3>2
  <2>13. QED
    BY <2>1, <2>3, <2>4, <2>10, <2>11, <2>12, EditBooks
<1>5. CASE NextLine(c)
  <2>1. PICK u \in {[t EXCEPT !.line = t.line + 1], [t EXCEPT !.pc = "commit"]} :
          txn' = [txn EXCEPT ![c] = u]
    BY <1>5 DEF NextLine, IInv, TypeOK
  <2>2. t.op = "allocate" /\ t.pc = "plan" /\ owner' = owner /\ UNCHANGED <<data, dQty, dRes>>
    BY <1>5 DEF NextLine
  <2>3. /\ u.op = "allocate" /\ u.order = t.order /\ u.made = t.made /\ u.plan = t.plan
        /\ u.saw = t.saw /\ u.pc \in {"plan", "commit"} /\ u.line \in {t.line, t.line + 1}
    BY <1>1, <2>1, <2>2 DEF Txn
  <2>4. Planned(u)
    <3>1. t.plan = <<>> /\ t.line \in Nat
      BY <1>1, <2>2 DEF Planned, Txn
    <3>2. \A i \in 1..Len(t.made) : t.made[i].line < u.line
      <4> TAKE i \in 1..Len(t.made)
      <4>1. t.made[i] \in Part /\ t.made[i].line < t.line
        BY <1>1, <2>2 DEF Planned
      <4>2. t.made[i].line \in Int
        BY <4>1 DEF Part, Line
      <4>3. QED
        BY <2>3, <3>1, <4>1, <4>2
    <3>3. QED
      BY <1>1, <2>2, <2>3, <3>1, <3>2 DEF Planned, PartFor
  <2>5. HasOrder(owner', c, u) /\ Seen(u) /\ About(u)
    BY <1>1, <2>2, <2>3 DEF HasOrder, Seen, About
  <2>6. ~LineOverride => Within(u)
    BY <1>1, <2>2, <2>3 DEF Within
  <2>7. QED
    BY <2>1, <2>2, <2>3, <2>4, <2>5, <2>6, EditBooks
<1>6. QED
  BY <1>2, <1>3, <1>4, <1>5

(* ReservationsService.release and cancel up to their commit.               *)
LEMMA ReleaseBooks ==
  ASSUME IInv, IInv', Settled, Books, NEW c \in Client,
         \/ BeginRelease(c) \/ LockOrderToRelease(c) \/ LockResvToRelease(c)
         \/ ReleaseReservedStockQuant(c)
  PROVE  Books'
<1> DEFINE t == txn[c]
<1>1. /\ t \in Txn /\ Ready(t) /\ t.plan \in Seq(Part) /\ t.made \in Seq(Part)
      /\ Planned(t) /\ HasOrder(owner, c, t) /\ About(t) /\ Booked(t, dQty[c], dRes[c])
  BY OnBooks
<1>2. t.order \in Order \cup {0}
  BY <1>1 DEF Txn
<1>3. CASE BeginRelease(c)
  <2> DEFINE request(k, target) ==
               [Idle EXCEPT !.op = "release", !.resv = k, !.order = resv[k].order,
                  !.pc = IF resv[k].order = 0 THEN "resv" ELSE "order", !.target = target]
  <2>1. PICK k \in {z \in Resv : resv[z].status # "NONE"}, target \in {"RELEASED", "CANCELLED"} :
          Begin(c, request(k, target))
    BY <1>3 DEF BeginRelease
  <2> DEFINE u == request(k, target)
  <2>2. /\ u.op = "release" /\ u.resv = k /\ u.order = resv[k].order
        /\ u.pc \in {"resv", "order"} /\ (u.order # 0 => u.pc = "order")
        /\ u.made = <<>> /\ u.plan = <<>>
    BY DEF Idle
  <2>3. Begin(c, u) /\ resv[k].status # "NONE"
    BY <2>1
  <2> HIDE DEF u
  <2>4. Planned(u) /\ HasOrder(owner, c, u) /\ Seen(u) /\ About(u) /\ Within(u)
    BY <2>2, <2>3 DEF Planned, HasOrder, Seen, About, Within
  <2>5. u.pc # "commit"
    BY <2>2
  <2>6. QED
    BY <2>2, <2>3, <2>4, <2>5, BeginBooks
<1>4. CASE LockOrderToRelease(c)
  <2> DEFINE u == [t EXCEPT !.pc = "resv"]
  <2>1. /\ t.op = "release" /\ t.pc = "order" /\ Acquire(c, <<"order", t.order>>)
        /\ UNCHANGED <<data, dQty, dRes>> /\ txn' = [txn EXCEPT ![c] = u]
    BY <1>4 DEF LockOrderToRelease, LockOrder, IInv, TypeOK
  <2>2. /\ u.op = "release" /\ u.pc = "resv" /\ u.resv = t.resv /\ u.order = t.order
        /\ u.made = t.made /\ u.plan = t.plan
    BY <1>1, <2>1 DEF Txn
  <2> HIDE DEF u
  <2>3. HasOrder(owner', c, u)
    BY <1>2, <2>1, <2>2, OrderStaysMine DEF HasOrder
  <2>4. Planned(u) /\ Seen(u) /\ About(u) /\ Within(u)
    BY <1>1, <2>1, <2>2 DEF Planned, PartFor, Seen, About, Within
  <2>5. QED
    BY <2>1, <2>2, <2>3, <2>4, EditBooks
<1>5. CASE LockResvToRelease(c)
  <2> DEFINE r == t.resv
             plan == <<[line |-> resv[r].line, quant |-> resv[r].quant, qty |-> resv[r].qty]>>
             u == [t EXCEPT !.pc = "quant", !.qty = resv[r].qty, !.plan = plan]
  <2>1. /\ t.op = "release" /\ t.pc = "resv" /\ Active(r) /\ r \in Resv
        /\ Acquire(c, <<"resv", r>>) /\ UNCHANGED <<data, dQty, dRes>> /\ txn' = [txn EXCEPT ![c] = u]
    BY <1>1, <1>5 DEF LockResvToRelease, LockResv, Ready, Active, IInv, TypeOK
  <2>2. plan = <<PartOf(r)>> /\ Len(plan) = 1 /\ plan[1] = PartOf(r)
    BY DEF PartOf
  <2> HIDE DEF plan
  <2>3. /\ u.op = "release" /\ u.pc = "quant" /\ u.resv = r /\ u.order = t.order
        /\ u.made = t.made /\ u.plan = plan /\ u.qty = resv[r].qty
    BY <1>1, <2>1 DEF Txn
  <2> HIDE DEF u
  <2>4. HasOrder(owner', c, u)
    BY <1>1, <1>2, <2>1, <2>3, OrderStaysMine DEF HasOrder
  <2>5. resv[r] \in ResvRow /\ resv[r].status # "NONE" /\ t.order = resv[r].order
    BY <1>1, <2>1 DEF IInv, TypeOK, Active, About
  <2>6. PartFor(u, plan[1])
    BY <2>1, <2>2, <2>3, <2>5 DEF PartFor, PartOf, LinesOf, Books, RowsSound, ResvRow
  <2>7. Planned(u)
    BY <1>1, <2>1, <2>2, <2>3, <2>6 DEF Planned
  <2>8. About(u)
    <3>1. resv[r].qty \in Nat
      BY <2>5 DEF ResvRow
    <3>2. QED
      BY <2>2, <2>3, <2>5, <3>1 DEF About
  <2>9. Seen(u) /\ Within(u)
    BY <2>3 DEF Seen, Within
  <2>10. QED
    BY <2>1, <2>3, <2>4, <2>7, <2>8, <2>9, EditBooks
<1>6. CASE ReleaseReservedStockQuant(c)
  <2> DEFINE q == t.plan[1].quant
             u == [t EXCEPT !.pc = "commit"]
             y == [dRes[c] EXCEPT ![q] = @ - t.qty]
  <2>1. /\ t.op = "release" /\ t.pc = "quant" /\ UNCHANGED data /\ Acquire(c, <<"quant", q>>)
        /\ txn' = [txn EXCEPT ![c] = u] /\ dQty' = [dQty EXCEPT ![c] = dQty[c]]
        /\ dRes' = [dRes EXCEPT ![c] = y]
    BY <1>6 DEF ReleaseReservedStockQuant, IInv, TypeOK
  <2>2. /\ u.op = "release" /\ u.pc = "commit" /\ u.resv = t.resv /\ u.order = t.order
        /\ u.made = t.made /\ u.plan = t.plan /\ u.qty = t.qty /\ t.qty \in Nat
    BY <1>1, <2>1 DEF Txn
  <2> HIDE DEF u
  <2>3. HasOrder(owner', c, u)
    BY <1>1, <1>2, <2>1, <2>2, OrderStaysMine DEF HasOrder
  <2>4. Planned(u) /\ Seen(u) /\ About(u) /\ Within(u)
    BY <1>1, <2>1, <2>2 DEF Planned, PartFor, Seen, About, Within
  <2>5. Booked(u, dQty[c], y)
    <3> SUFFICES ASSUME NEW k \in Quant
                 PROVE  dQty[c][k] = 0 /\ y[k] = Pieces(AtQuant(k), u.made) - TakenAt(u, k)
      BY <2>2 DEF Booked
    <3>1. TakenAt(t, k) = 0 /\ TakenAt(u, k) = IF q = k THEN t.qty ELSE 0
      BY <2>1, <2>2 DEF TakenAt
    <3>2. dQty[c][k] = 0 /\ dRes[c][k] = Pieces(AtQuant(k), t.made) - 0
      BY <1>1, <2>1, <3>1 DEF Booked
    <3>3. Pieces(AtQuant(k), t.made) \in Nat
      BY <1>1, PiecesAreNat
    <3>4. y[k] = dRes[c][k] - IF q = k THEN t.qty ELSE 0
      <4>1. dRes[c] \in [Quant -> Int]
        BY DEF IInv, TypeOK
      <4> HIDE DEF q
      <4>2. QED
        BY <2>2, <4>1
    <3> HIDE DEF y, q
    <3>5. QED
      BY <2>2, <3>1, <3>2, <3>3, <3>4
  <2> HIDE DEF y, q
  <2>6. QED
    BY <2>1, <2>3, <2>4, <2>5, LocalBooks
<1>7. QED
  BY <1>3, <1>4, <1>5, <1>6

(* releasePicking, pack and ship up to their commits.                       *)
LEMMA StageBooks ==
  ASSUME IInv, IInv', Settled, Books, NEW c \in Client,
         \/ \E op \in {"releasePicking", "pack", "ship"} : BeginOnOrder(c, op)
         \/ LockOrderToReleasePicking(c) \/ LockOrderToPack(c) \/ LockOrderToShip(c)
  PROVE  Books'
<1> DEFINE t == txn[c]
<1>1. t \in Txn /\ Planned(t)
  BY OnBooks
<1>2. ASSUME NEW op \in {"releasePicking", "pack", "ship"}, BeginOnOrder(c, op) PROVE Books'
  <2>1. PICK o \in Order : Begin(c, [Idle EXCEPT !.op = op, !.pc = "order", !.order = o])
    BY <1>2 DEF BeginOnOrder
  <2> DEFINE u == [Idle EXCEPT !.op = op, !.pc = "order", !.order = o]
  <2>2. u.op = op /\ u.pc = "order" /\ u.plan = <<>> /\ u.made = <<>> /\ u.tasks = <<>>
    BY DEF Idle
  <2> HIDE DEF u
  <2>3. Planned(u) /\ HasOrder(owner, c, u) /\ Seen(u) /\ About(u) /\ Within(u)
    BY <2>2 DEF Planned, HasOrder, Seen, About, Within
  <2>4. u.pc # "commit"
    BY <2>2
  <2>5. QED
    BY <2>1, <2>2, <2>3, <2>4, BeginBooks DEF u
<1>3. CASE LockOrderToReleasePicking(c)
  <2> DEFINE R == IF HasOpenPick(t.order) THEN {} ELSE PickableResv(t.order)
  <2>1. PICK s \in [1..Cardinality(R) -> R] : txn' = [txn EXCEPT ![c].pc = "commit", ![c].tasks = s]
    BY <1>3 DEF LockOrderToReleasePicking
  <2> DEFINE u == [t EXCEPT !.pc = "commit", !.tasks = s]
  <2>2. /\ t.op = "releasePicking" /\ \E row : Acquire(c, row)
        /\ UNCHANGED <<data, dQty, dRes>> /\ Effective(t.order) = "ALLOCATED"
    BY <1>3 DEF LockOrderToReleasePicking, LockOrder
  <2>3. /\ u.op = "releasePicking" /\ u.order = t.order /\ u.plan = t.plan /\ u.made = t.made
        /\ u.tasks = s
    BY <1>1, <2>2 DEF Txn
  <2>4. txn' = [txn EXCEPT ![c] = u]
    BY <2>1 DEF IInv, TypeOK
  <2> HIDE DEF u
  <2>5. \A i \in 1..Len(s) : resv[s[i]].status # "NONE"
    <3>1. \A r \in R : resv[r].status # "NONE"
      BY DEF PickableResv, Active
    <3>2. Cardinality(R) \in Nat
      <4>1. R \subseteq Resv
        BY DEF PickableResv
      <4>2. QED
        BY <4>1, RowsAreCounted
    <3>3. Len(s) = Cardinality(R)
      BY <3>2
    <3> HIDE DEF R
    <3>4. QED
      BY <3>1, <3>3
  <2>6. Planned(u) /\ HasOrder(owner', c, u) /\ Seen(u) /\ About(u) /\ Within(u)
    BY <1>1, <2>2, <2>3, <2>5 DEF Planned, PartFor, HasOrder, Seen, About, Within
  <2>7. QED
    BY <2>2, <2>3, <2>4, <2>6, EditBooks
<1>4. CASE LockOrderToPack(c) \/ LockOrderToShip(c)
  <2> DEFINE u == [t EXCEPT !.pc = "commit"]
  <2>1. /\ t.op \in {"pack", "ship"} /\ \E row : Acquire(c, row) /\ UNCHANGED <<data, dQty, dRes>>
        /\ txn' = [txn EXCEPT ![c] = u]
    BY <1>4 DEF LockOrderToPack, LockOrderToShip, LockOrder, IInv, TypeOK
  <2>2. u.op = t.op /\ u.order = t.order /\ u.plan = t.plan /\ u.made = t.made
    BY <1>1 DEF Txn
  <2> HIDE DEF u
  <2>3. Planned(u) /\ HasOrder(owner', c, u) /\ Seen(u) /\ About(u) /\ Within(u)
    BY <1>1, <2>1, <2>2 DEF Planned, PartFor, HasOrder, Seen, About, Within
  <2>4. u.op \notin {"release", "confirmPick"} /\ t.op \notin {"release", "confirmPick"}
    BY <2>1, <2>2
  <2>5. QED
    BY <2>1, <2>2, <2>3, <2>4, EditBooks
<1>5. QED
  BY <1>2, <1>3, <1>4

(* The steps of WarehouseTasksService before its write.                     *)
LEMMA TaskBooks ==
  ASSUME IInv, IInv', Settled, Books, NEW c \in Client, ReadTask(c) \/ ClaimTask(c) \/ LockTask(c)
  PROVE  Books'
<1> DEFINE t == txn[c]
<1>1. t \in Txn /\ Planned(t) /\ About(t)
  BY OnBooks
<1>2. ASSUME NEW pc, NEW k \in Task, NEW s \in TaskRequest, task[k].status # "NONE",
             Begin(c, [Idle EXCEPT !.op = "task", !.pc = pc, !.task = k, !.target = s])
      PROVE  Books'
  <2> DEFINE u == [Idle EXCEPT !.op = "task", !.pc = pc, !.task = k, !.target = s]
  <2>1. u.op = "task" /\ u.task = k /\ u.target = s /\ u.made = <<>> /\ u.plan = <<>>
    BY DEF Idle
  <2>2. Begin(c, u) /\ s # "NONE"
    BY <1>2 DEF TaskRequest
  <2> HIDE DEF u
  <2>3. Planned(u) /\ HasOrder(owner, c, u) /\ Seen(u) /\ About(u) /\ Within(u)
    BY <1>2, <2>1, <2>2 DEF Planned, HasOrder, Seen, About, Within
  <2>4. u.op \notin {"release", "confirmPick"}
    BY <2>1
  <2>5. QED
    BY <2>1, <2>2, <2>3, <2>4, BeginBooks
<1>3. CASE ReadTask(c)
  <2>1. PICK k \in Task : \E s \in TaskRequest \cap AllowedTransitions(task[k].status) :
          Begin(c, [Idle EXCEPT !.op = "task", !.pc = "commit", !.task = k, !.target = s])
    BY <1>3 DEF ReadTask
  <2>2. PICK s \in TaskRequest \cap AllowedTransitions(task[k].status) :
          Begin(c, [Idle EXCEPT !.op = "task", !.pc = "commit", !.task = k, !.target = s])
    BY <2>1
  <2>3. task[k].status # "NONE"
    BY DEF AllowedTransitions
  <2>4. QED
    BY <1>2, <2>2, <2>3
<1>4. CASE ClaimTask(c)
  <2>1. PICK k \in Task, s \in {"ASSIGNED", "IN_PROGRESS"} :
          /\ task[k].status # "NONE"
          /\ Begin(c, [Idle EXCEPT !.op = "task", !.pc = "task", !.task = k, !.target = s])
    BY <1>4 DEF ClaimTask
  <2>2. s \in TaskRequest
    BY DEF TaskRequest
  <2>3. QED
    BY <1>2, <2>1, <2>2
<1>5. CASE LockTask(c)
  <2> DEFINE u == [t EXCEPT !.pc = "commit"]
  <2>1. /\ t.op = "task" /\ \E row : Acquire(c, row) /\ UNCHANGED <<data, dQty, dRes>>
        /\ txn' = [txn EXCEPT ![c] = u]
    BY <1>5 DEF LockTask, IInv, TypeOK
  <2>2. /\ u.op = t.op /\ u.order = t.order /\ u.plan = t.plan /\ u.made = t.made
        /\ u.task = t.task /\ u.target = t.target
    BY <1>1 DEF Txn
  <2> HIDE DEF u
  <2>3. Planned(u) /\ HasOrder(owner', c, u) /\ Seen(u) /\ About(u) /\ Within(u)
    BY <1>1, <2>1, <2>2 DEF Planned, PartFor, HasOrder, Seen, About, Within
  <2>4. u.op \notin {"release", "confirmPick"} /\ t.op \notin {"release", "confirmPick"}
    BY <2>1, <2>2
  <2>5. QED
    BY <2>1, <2>2, <2>3, <2>4, EditBooks
<1>6. QED
  BY <1>5, <1>3, <1>4

(* FulfillmentService.confirmPick up to its commit.                         *)
LEMMA PickBooks ==
  ASSUME IInv, IInv', Settled, Books, NEW c \in Client,
         \/ BeginConfirmPick(c) \/ LockOrderToPick(c) \/ LockResvToPick(c) \/ ApplyPickToQuant(c)
  PROVE  Books'
<1> DEFINE t == txn[c]
<1>1. /\ t \in Txn /\ Ready(t) /\ t.plan \in Seq(Part) /\ t.made \in Seq(Part)
      /\ Planned(t) /\ Seen(t) /\ About(t) /\ Booked(t, dQty[c], dRes[c])
  BY OnBooks
<1>2. ASSUME NEW u, u.op = "confirmPick" PROVE HasOrder(owner', c, u) /\ Within(u)
  BY <1>2 DEF HasOrder, Within
<1>3. CASE BeginConfirmPick(c)
  <2> DEFINE request(k, l, n) ==
               [Idle EXCEPT !.op = "confirmPick", !.pc = "order", !.order = OrderOf[l],
                  !.line = l, !.task = k, !.qty = n]
  <2>1. PICK k \in {x \in Task : Confirmable(x)} :
          \E l \in (IF LineOverride THEN Line ELSE {task[k].line}) \ {0} : \E n \in 1..Ordered[l] :
            Begin(c, request(k, l, n))
    BY <1>3 DEF BeginConfirmPick
  <2>2. PICK l \in (IF LineOverride THEN Line ELSE {task[k].line}) \ {0} : \E n \in 1..Ordered[l] :
          Begin(c, request(k, l, n))
    BY <2>1
  <2>3. PICK n \in 1..Ordered[l] : Begin(c, request(k, l, n))
    BY <2>2
  <2> DEFINE u == request(k, l, n)
  <2>4. /\ u.op = "confirmPick" /\ u.pc = "order" /\ u.task = k /\ u.line = l /\ u.qty = n
        /\ u.made = <<>> /\ u.plan = <<>>
    BY DEF Idle
  <2> HIDE DEF u
  <2>5. k \in Task /\ task[k].status # "NONE" /\ (~LineOverride => task[k].line = l)
    BY DEF Confirmable
  <2>6. Planned(u) /\ Seen(u) /\ About(u) /\ HasOrder(owner, c, u) /\ Within(u)
    BY <2>4, <2>5 DEF Planned, Seen, About, HasOrder, Within
  <2>7. u.pc # "commit" /\ Begin(c, u)
    BY <2>3, <2>4 DEF u
  <2>8. QED
    BY <2>4, <2>6, <2>7, BeginBooks
<1>4. CASE LockOrderToPick(c)
  <2>1. /\ t.op = "confirmPick" /\ t.pc = "order" /\ \E row : Acquire(c, row)
        /\ UNCHANGED <<data, dQty, dRes>> /\ Effective(t.order) = "PICKING"
    BY <1>4 DEF LockOrderToPick, LockOrder
  <2> DEFINE plan(s) == <<[line |-> t.line, quant |-> s.quant, qty |-> t.qty]>>
             edit(s) == [t EXCEPT !.pc = IF s.resv = 0 THEN "quant" ELSE "resv", !.saw = picked,
                           !.resv = s.resv, !.plan = plan(s)]
  <2>2. PICK s \in PickSources(t.line, t.task) :
          txn' = [txn EXCEPT ![c].pc = IF s.resv = 0 THEN "quant" ELSE "resv",
                    ![c].saw = picked, ![c].resv = s.resv,
                    ![c].plan = <<[line |-> t.line, quant |-> s.quant, qty |-> t.qty]>>]
    BY <1>4 DEF LockOrderToPick
  <2>3. txn' = [txn EXCEPT ![c] = edit(s)]
    BY <2>2 DEF IInv, TypeOK
  <2>4. /\ t.task \in Task /\ task[t.task].resv \in Resv /\ t.qty \in 1..Ordered[t.line]
        /\ task[t.task].line = resv[task[t.task].resv].line
        /\ resv[task[t.task].resv].status # "NONE"
        /\ resv[task[t.task].resv].quant \in Quant
        /\ ~LineOverride => task[t.task].line = t.line
    BY <1>1, <2>1 DEF About, Books, RowsSound
  <2>5. s.resv = task[t.task].resv /\ s.quant = resv[task[t.task].resv].quant /\ s.resv # 0
    BY <2>4 DEF PickSources, Resv
  <2>6. t.line \in LinesOf(t.order) /\ t.line # 0
    BY <2>1 DEF Settled, Knows, LinesOf, Line
  <2> DEFINE u == edit(s)
             p == [line |-> t.line, quant |-> s.quant, qty |-> t.qty]
  <2>7. /\ u.op = t.op /\ u.pc = "resv" /\ u.resv = s.resv /\ u.order = t.order /\ u.line = t.line
        /\ u.task = t.task /\ u.qty = t.qty /\ u.made = t.made /\ u.plan = <<p>>
    BY <1>1, <2>1, <2>5 DEF Txn
  <2>8. Len(<<p>>) = 1 /\ <<p>>[1] = p /\ p.line = t.line /\ p.quant = s.quant
    OBVIOUS
  <2> HIDE DEF edit, p
  <2>9. PartFor(u, p)
    BY <2>4, <2>5, <2>6, <2>7, <2>8 DEF PartFor
  <2> HIDE DEF u
  <2>10. Planned(u)
    BY <1>1, <2>1, <2>7, <2>8, <2>9 DEF Planned
  <2>11. Seen(u) /\ About(u)
    <3>1. Seen(u)
      BY <2>1, <2>7 DEF Seen
    <3>2. u.plan[1].quant = resv[u.resv].quant
      BY <2>5, <2>7, <2>8
    <3>3. u.op = "confirmPick" /\ u.pc = "resv" /\ u.task = t.task /\ u.qty = t.qty /\ u.line = t.line
          /\ u.resv = task[t.task].resv
      BY <2>1, <2>5, <2>7
    <3>4. task[t.task].status # "NONE"
      BY <1>1, <2>1 DEF About
    <3>5. About(u)
      BY <2>4, <3>2, <3>3, <3>4 DEF About
    <3>6. QED
      BY <3>1, <3>5
  <2>12. txn' = [txn EXCEPT ![c] = u]
    BY <2>3 DEF u
  <2>13. QED
    BY <1>2, <2>1, <2>7, <2>10, <2>11, <2>12, EditBooks
<1>5. CASE LockResvToPick(c)
  <2> DEFINE u == [t EXCEPT !.pc = "quant"]
  <2>1. /\ t.op = "confirmPick" /\ t.pc = "resv" /\ \E row : Acquire(c, row)
        /\ UNCHANGED <<data, dQty, dRes>> /\ txn' = [txn EXCEPT ![c] = u]
        /\ resv[t.resv].qty >= t.qty
    BY <1>5 DEF LockResvToPick, LockResv, IInv, TypeOK
  <2>2. /\ u.op = t.op /\ u.pc = "quant" /\ u.resv = t.resv /\ u.order = t.order /\ u.line = t.line
        /\ u.task = t.task /\ u.qty = t.qty /\ u.made = t.made /\ u.plan = t.plan
    BY <1>1, <2>1 DEF Txn
  <2> HIDE DEF u
  <2>3. Planned(u) /\ Seen(u)
    BY <1>1, <2>1, <2>2 DEF Planned, PartFor, Seen
  <2>4. About(u)
    <3>1. t.qty <= resv[t.resv].qty
      <4>1. t.resv \in Resv /\ t.qty \in Nat
        BY <1>1, <2>1 DEF About, Txn
      <4>2. resv[t.resv].qty \in Nat
        BY <4>1, ResvFacts DEF IInv
      <4>3. QED
        BY <2>1, <4>1, <4>2
    <3>2. QED
      BY <1>1, <2>1, <2>2, <3>1 DEF About
  <2>5. QED
    BY <1>2, <2>1, <2>2, <2>3, <2>4, EditBooks
<1>6. CASE ApplyPickToQuant(c)
  <2> DEFINE q == t.plan[1].quant
             u == [t EXCEPT !.pc = "commit"]
             x == [dQty[c] EXCEPT ![q] = @ - t.qty]
             y == [dRes[c] EXCEPT ![q] = @ - t.qty]
  <2>1. /\ t.op = "confirmPick" /\ t.pc = "quant" /\ UNCHANGED data /\ Acquire(c, <<"quant", q>>)
        /\ txn' = [txn EXCEPT ![c] = u] /\ dQty' = [dQty EXCEPT ![c] = x]
        /\ dRes' = [dRes EXCEPT ![c] = y]
    BY <1>6 DEF ApplyPickToQuant, IInv, TypeOK
  <2>2. /\ u.op = "confirmPick" /\ u.pc = "commit" /\ u.resv = t.resv /\ u.order = t.order
        /\ u.line = t.line /\ u.task = t.task
        /\ u.made = t.made /\ u.plan = t.plan /\ u.qty = t.qty /\ t.qty \in Nat
    BY <1>1, <2>1 DEF Txn
  <2> HIDE DEF u
  <2>3. Planned(u) /\ Seen(u) /\ About(u)
    BY <1>1, <2>1, <2>2 DEF Planned, PartFor, Seen, About
  <2>4. Booked(u, x, y)
    <3> SUFFICES ASSUME NEW k \in Quant
                 PROVE  /\ x[k] = -TakenAt(u, k)
                        /\ y[k] = Pieces(AtQuant(k), u.made) - TakenAt(u, k)
      BY <2>2 DEF Booked
    <3>1. TakenAt(t, k) = 0 /\ TakenAt(u, k) = IF q = k THEN t.qty ELSE 0
      BY <2>1, <2>2 DEF TakenAt
    <3>2. dQty[c][k] = -0 /\ dRes[c][k] = Pieces(AtQuant(k), t.made) - 0
      BY <1>1, <2>1, <3>1 DEF Booked
    <3>3. Pieces(AtQuant(k), t.made) \in Nat
      BY <1>1, PiecesAreNat
    <3>4. /\ x[k] = dQty[c][k] - IF q = k THEN t.qty ELSE 0
          /\ y[k] = dRes[c][k] - IF q = k THEN t.qty ELSE 0
      <4>1. dQty[c] \in [Quant -> Int] /\ dRes[c] \in [Quant -> Int]
        BY DEF IInv, TypeOK
      <4> HIDE DEF q
      <4>2. QED
        BY <2>2, <4>1
    <3> HIDE DEF x, y, q
    <3>5. QED
      BY <2>2, <3>1, <3>2, <3>3, <3>4
  <2> HIDE DEF x, y, q
  <2>5. QED
    BY <1>2, <2>1, <2>2, <2>3, <2>4, LocalBooks
<1>7. QED
  BY <1>3, <1>4, <1>5, <1>6

-----------------------------------------------------------------------------
(* The end of a transaction: what it has booked is on the books for good.   *)
LEMMA CommitBooks ==
  ASSUME IInv, IInv', Settled, Books, NEW c \in Client, NEW op, Commit(c, op), Persist, RowsSound',
         \A r \in Resv : owner[<<"resv", r>>] # c /\ resv[r].status # "NONE" => resv'[r] = resv[r],
         \A o \in Order : owner[<<"order", o>>] # c =>
           /\ status'[o] = status[o] /\ fulfil'[o] = fulfil[o]
           /\ \A l \in LinesOf(o) : picked'[l] = picked[l],
         \A q \in Quant : Held(AtQuant(q))' = Held(AtQuant(q)) + Pieces(AtQuant(q), txn[c].made)
                                                - TakenAt(txn[c], q),
         PicksBooked',
         ~LineOverride =>
           /\ LinesBooked'
           /\ \A l \in Line : owner[<<"order", OrderOf[l]>>] # c
                               => Held(ForLine(l))' <= Held(ForLine(l))
  PROVE  Books'
<1>1. /\ txn'[c] = Idle /\ dQty'[c] = NoChange /\ dRes'[c] = NoChange
      /\ \A d \in Client \ {c} : txn'[d] = txn[d] /\ dQty'[d] = dQty[d] /\ dRes'[d] = dRes[d]
  BY DEF Commit, IInv, TypeOK
<1>2. \A d \in Client \ {c} : \A x \in Row : owner[x] = d => owner'[x] = d
  BY LocksFreed DEF Commit
<1>3. \A d \in Client \ {c} : Spared(d)
  BY <1>1, <1>2 DEF Spared
<1>4. Kept(owner, c, Idle, NoChange, NoChange)'
  <2>1. Planned(Idle)' /\ HasOrder(owner, c, Idle)' /\ Seen(Idle)' /\ About(Idle)'
    BY IdleBooks DEF Planned, HasOrder, Seen, About
  <2>2. Booked(Idle, NoChange, NoChange)'
    BY IdleBooks DEF Booked, TakenAt, Pieces, AtQuant
  <2>3. QED
    BY <2>1, <2>2 DEF Kept
<1>5. StockBooked'
  <2> SUFFICES ASSUME NEW q \in Quant PROVE reserved'[q] = Held(AtQuant(q))'
    BY DEF StockBooked, AtQuant
  <2>1. reserved'[q] = reserved[q] + dRes[c][q]
    BY DEF Commit
  <2>2. reserved[q] = Held(AtQuant(q))
    BY DEF Books, StockBooked
  <2>3. dRes[c][q] = Pieces(AtQuant(q), txn[c].made) - TakenAt(txn[c], q)
    BY OnBooks DEF Booked
  <2>4. txn[c].made \in Seq(Part) /\ txn[c].qty \in Nat
    BY OnBooks DEF Txn
  <2>5. /\ Held(AtQuant(q)) \in Nat /\ Pieces(AtQuant(q), txn[c].made) \in Nat
        /\ TakenAt(txn[c], q) \in Nat
    BY <2>4, HeldIsNat, PiecesAreNat DEF IInv, TakenAt
  <2>6. QED
    BY <2>1, <2>2, <2>3, <2>5
<1>6. Within(Idle)'
  BY IdleBooks DEF Within
<1>7. QED
  BY <1>1, <1>3, <1>4, <1>5, <1>6, BooksAfter

(* Without a pick, the shelves and the lines stay as they are.              *)
LEMMA NothingPicked ==
  ASSUME IInv, Books, NEW c \in Client, NEW op, Commit(c, op), op # "confirmPick", picked' = picked
  PROVE  quantity' = quantity /\ PicksBooked'
<1>1. \A q \in Quant : dQty[c][q] = 0
  BY OnBooks DEF Booked, Commit
<1>2. quantity \in [Quant -> Nat]
  BY DEF IInv, TypeOK
<1>3. \A q \in Quant : quantity'[q] = quantity[q]
  BY <1>1, <1>2 DEF Commit
<1>4. quantity' = quantity
  BY <1>2, <1>3 DEF Commit
<1>5. QED
  BY <1>4 DEF Books, PicksBooked

(* New tasks take the numbers after the last.                               *)
LEMMA TasksInserted ==
  ASSUME IInv, {k \in Task : task[k].status # "NONE"} = 1..TaskCount,
         NEW s, Len(s) \in Nat, InsertTask(s), \A i \in 1..Len(s) : s[i].status = "OPEN"
  PROVE  /\ {k \in Task : task'[k].status # "NONE"} = 1..(TaskCount')
         /\ \A k \in Task : task[k].status # "NONE" => task'[k] = task[k]
         /\ \A k \in Task : task[k].status = "NONE" /\ task'[k].status # "NONE"
                            => \E i \in 1..Len(s) : task'[k] = s[i]
<1> DEFINE n == TaskCount
           m == TaskCount + Len(s)
           S == {k \in Task : task'[k].status # "NONE"}
<1>1. n \in Nat /\ m \in Nat /\ m <= NumTasks /\ NumTasks \in Nat
  BY CountsAreNatural, OrderStockConstants DEF InsertTask
<1>2. \A k \in Task : task'[k] = IF k - n \in 1..Len(s) THEN s[k - n] ELSE task[k]
  BY DEF InsertTask
<1>3. \A k \in Task : task[k].status # "NONE" <=> k <= n
  <2> DEFINE T == {k \in Task : task[k].status # "NONE"}
  <2>1. T = 1..n
    OBVIOUS
  <2> HIDE DEF n
  <2>2. \A k \in Task : k \in 1..n <=> k <= n
    BY <1>1 DEF Task
  <2>3. QED
    BY <2>1, <2>2
<1> HIDE DEF n
<1>4. \A k \in Task : task'[k].status # "NONE" <=> k <= m
  <2> TAKE k \in Task
  <2>1. k \in Nat /\ k >= 1
    BY <1>1 DEF Task
  <2>2. CASE k <= n
    BY <1>1, <1>2, <1>3, <2>1, <2>2 DEF n
  <2>3. CASE k > n /\ k <= m
    <3>1. k - n \in 1..Len(s)
      BY <1>1, <2>1, <2>3 DEF n
    <3>2. QED
      BY <1>2, <2>3, <3>1
  <2>4. CASE k > m
    BY <1>1, <1>2, <1>3, <2>1, <2>4 DEF n
  <2>5. QED
    BY <1>1, <2>1, <2>2, <2>3, <2>4
<1>5. S = 1..m
  BY <1>1, <1>4 DEF Task
<1>6. Cardinality(1..m) = m
  BY <1>1, FS_Interval
<1>7. TaskCount' = m
  BY <1>5, <1>6 DEF TaskCount
<1>8. \A k \in Task : task[k].status # "NONE" => task'[k] = task[k]
  BY <1>1, <1>2, <1>3 DEF Task
<1>9. \A k \in Task : task[k].status = "NONE" /\ task'[k].status # "NONE"
                      => \E i \in 1..Len(s) : task'[k] = s[i]
  BY <1>2
<1> HIDE DEF m
<1>10. QED
  BY <1>5, <1>7, <1>8, <1>9

(* What the commit of create or allocate inserts: a reservation for each    *)
(* part it made, and if they are for lines a task for each reservation.     *)
LEMMA InsertRows ==
  ASSUME IInv, Settled, Books, NEW c \in Client, CommitReserve(c) \/ CommitAllocate(c)
  PROVE  /\ Persist
         /\ \A r \in Resv : resv[r].status # "NONE" => resv'[r] = resv[r]
         /\ \A r \in Resv : resv'[r].status # "NONE" =>
              /\ resv'[r].quant \in Quant
              /\ resv'[r].line # 0 => resv'[r].order = OrderOf[resv'[r].line]
         /\ \A k \in Task : task'[k].status # "NONE" =>
              /\ task'[k].resv \in Resv
              /\ resv'[task'[k].resv].status # "NONE"
              /\ task'[k].line = resv'[task'[k].resv].line
         /\ {k \in Task : task'[k].status # "NONE"} = 1..(TaskCount')
<1> DEFINE t == txn[c]
           n == ResvCount
           s == NewReservations(c)
           m == Len(t.made)
<1>1. /\ t \in Txn /\ t.made \in Seq(Part) /\ Planned(t) /\ m \in Nat
  <2>1. t \in Txn /\ t.made \in Seq(Part) /\ Planned(t)
    BY OnBooks
  <2> HIDE DEF t
  <2>2. QED
    BY <2>1
<1>2. InsertResv(s) /\ InsertTask(NewTasks(c)) /\ n \in Nat
  BY CountsAreNatural DEF CommitReserve, CommitAllocate
<1>3. \A i \in 1..m : s[i] = [status |-> "ACTIVE", order |-> t.order, line |-> t.made[i].line,
                              quant |-> t.made[i].quant, qty |-> t.made[i].qty]
  BY DEF NewReservations
<1>4. Len(s) = m /\ Len(s) \in Nat
  BY <1>1 DEF NewReservations
<1>5. \A i \in 1..m : /\ s[i].status = "ACTIVE" /\ s[i].line = t.made[i].line
                      /\ s[i].quant \in Quant
                      /\ s[i].line # 0 => s[i].order = OrderOf[s[i].line]
  <2> TAKE i \in 1..m
  <2>1. PartFor(t, t.made[i])
    BY <1>1 DEF Planned
  <2> HIDE DEF s, m
  <2>2. s[i] = [status |-> "ACTIVE", order |-> t.order, line |-> t.made[i].line,
                quant |-> t.made[i].quant, qty |-> t.made[i].qty]
    BY <1>3
  <2>3. /\ s[i].status = "ACTIVE" /\ s[i].line = t.made[i].line /\ s[i].quant = t.made[i].quant
        /\ s[i].order = t.order
    BY <2>2
  <2>4. QED
    BY <2>1, <2>3 DEF PartFor, LinesOf
<1> HIDE DEF s, n, m
<1>6. \A r \in Resv : resv[r].status # "NONE" => resv'[r] = resv[r]
  BY <1>2, <1>4, <1>5, Inserted DEF Settled
<1>7. n + m <= NumResv /\ NumResv \in Nat
      /\ \A r \in Resv : resv'[r] = IF r - n \in 1..m THEN s[r - n] ELSE resv[r]
  BY <1>2, <1>4, OrderStockConstants DEF InsertResv, n
<1>8. \A i \in 1..m : n + i \in Resv /\ resv'[n + i] = s[i]
  <2> TAKE i \in 1..m
  <2>1. n + i \in Resv /\ (n + i) - n = i
    BY <1>1, <1>2, <1>7 DEF Resv
  <2>2. QED
    BY <1>7, <2>1
<1>9. \A i \in 1..Len(NewTasks(c)) :
        /\ i \in 1..m
        /\ NewTasks(c)[i].status = "OPEN" /\ NewTasks(c)[i].resv = n + i
        /\ NewTasks(c)[i].line = t.made[i].line
  <2>1. CASE t.line = 0
    <3>1. NewTasks(c) = <<>>
      BY <2>1 DEF NewTasks
    <3>2. 1..Len(<<>>) = {}
      OBVIOUS
    <3>3. QED
      BY <3>1, <3>2
  <2>2. CASE t.line # 0
    <3>1. NewTasks(c) = [i \in 1..m |-> [status |-> "OPEN", resv |-> n + i, line |-> t.made[i].line]]
      BY <2>2 DEF NewTasks, m, n
    <3>2. Len(NewTasks(c)) = m
      BY <1>1, <3>1
    <3>3. TAKE i \in 1..Len(NewTasks(c))
    <3>4. i \in 1..m
      BY <3>2
    <3>5. NewTasks(c)[i] = [status |-> "OPEN", resv |-> n + i, line |-> t.made[i].line]
      BY <3>1, <3>4
    <3>6. QED
      BY <3>4, <3>5
  <2>3. QED
    BY <2>1, <2>2
<1>10. Len(NewTasks(c)) \in Nat
  <2>1. CASE t.line = 0
    BY <2>1 DEF NewTasks
  <2>2. CASE t.line # 0
    BY <1>1, <2>2 DEF NewTasks, m
  <2>3. QED
    BY <2>1, <2>2
<1>11. /\ {k \in Task : task'[k].status # "NONE"} = 1..(TaskCount')
       /\ \A k \in Task : task[k].status # "NONE" => task'[k] = task[k]
       /\ \A k \in Task : task[k].status = "NONE" /\ task'[k].status # "NONE"
                          => \E i \in 1..Len(NewTasks(c)) : task'[k] = NewTasks(c)[i]
  <2>1. {k \in Task : task[k].status # "NONE"} = 1..TaskCount
    BY DEF Books, RowsSound
  <2>2. \A i \in 1..Len(NewTasks(c)) : NewTasks(c)[i].status = "OPEN"
    BY <1>9
  <2> PICK new : new = NewTasks(c)
    OBVIOUS
  <2>3. Len(new) \in Nat /\ InsertTask(new) /\ \A i \in 1..Len(new) : new[i].status = "OPEN"
    BY <1>2, <1>10, <2>2
  <2>4. /\ {k \in Task : task'[k].status # "NONE"} = 1..(TaskCount')
        /\ \A k \in Task : task[k].status # "NONE" => task'[k] = task[k]
        /\ \A k \in Task : task[k].status = "NONE" /\ task'[k].status # "NONE"
                          => \E i \in 1..Len(new) : task'[k] = new[i]
    BY <2>1, <2>3, TasksInserted
  <2>5. QED
    BY <2>4
<1>12. Persist
  BY <1>6, <1>11 DEF Persist
<1>13. \A r \in Resv : resv'[r].status # "NONE" =>
         /\ resv'[r].quant \in Quant
         /\ resv'[r].line # 0 => resv'[r].order = OrderOf[resv'[r].line]
  <2> SUFFICES ASSUME NEW r \in Resv, resv'[r].status # "NONE"
               PROVE  /\ resv'[r].quant \in Quant
                      /\ resv'[r].line # 0 => resv'[r].order = OrderOf[resv'[r].line]
    OBVIOUS
  <2>1. CASE r - n \in 1..m
    <3>1. PICK i \in 1..m : resv'[r] = s[i]
      BY <1>7, <2>1
    <3>2. QED
      BY <1>5, <3>1
  <2>2. CASE r - n \notin 1..m
    <3>1. resv'[r] = resv[r]
      BY <1>7, <2>2
    <3>2. QED
      BY <3>1 DEF Books, RowsSound
  <2>3. QED
    BY <2>1, <2>2
<1>14. \A k \in Task : task'[k].status # "NONE" =>
         /\ task'[k].resv \in Resv
         /\ resv'[task'[k].resv].status # "NONE"
         /\ task'[k].line = resv'[task'[k].resv].line
  <2> SUFFICES ASSUME NEW k \in Task, task'[k].status # "NONE"
               PROVE  /\ task'[k].resv \in Resv
                      /\ resv'[task'[k].resv].status # "NONE"
                      /\ task'[k].line = resv'[task'[k].resv].line
    OBVIOUS
  <2>1. CASE task[k].status # "NONE"
    BY <1>6, <1>11, <2>1 DEF Books, RowsSound
  <2>2. CASE task[k].status = "NONE"
    <3>1. PICK i \in 1..Len(NewTasks(c)) : task'[k] = NewTasks(c)[i]
      BY <1>11, <2>2
    <3>2. i \in 1..m /\ task'[k].resv = n + i /\ task'[k].line = t.made[i].line
      BY <1>9, <3>1
    <3>3. n + i \in Resv /\ resv'[n + i] = s[i]
      BY <1>8, <3>2
    <3>4. QED
      BY <1>5, <3>2, <3>3
  <2>3. QED
    BY <2>1, <2>2
<1>15. QED
  BY <1>6, <1>11, <1>12, <1>13, <1>14

(* The commits of create and allocate.                                      *)
LEMMA InsertBooks ==
  ASSUME IInv, IInv', Settled, Books, NEW c \in Client, CommitReserve(c) \/ CommitAllocate(c)
  PROVE  Books'
<1> DEFINE t == txn[c]
<1>1. /\ t \in Txn /\ t.made \in Seq(Part) /\ t.plan \in Seq(Part) /\ Planned(t) /\ HasOrder(owner, c, t)
      /\ Seen(t) /\ (~LineOverride => Within(t))
  BY OnBooks
<1>2. PICK op \in {"reserve", "allocate"} : Commit(c, op) /\ t.op = op /\ t.pc = "commit"
  BY DEF CommitReserve, CommitAllocate, Commit
<1>3. /\ picked' = picked /\ fulfil' = fulfil /\ InsertResv(NewReservations(c))
      /\ \/ status' = status
         \/ op = "allocate" /\ status' = [status EXCEPT ![t.order] = "ALLOCATED"]
  BY <1>2 DEF CommitReserve, CommitAllocate, Commit
<1>4. op = "allocate" => t.order \in Order /\ owner[<<"order", t.order>>] = c
  BY <1>2 DEF Settled, Holds, OnOrder
<1>5. t.order # 0 => t.order \in Order /\ owner[<<"order", t.order>>] = c
  <2>1. t.order \in Order \cup {0}
    BY <1>1 DEF Txn
  <2>2. QED
    BY <1>1, <1>2, <1>4, <2>1 DEF HasOrder
<1>6. \A P : Held(P)' = Held(P) + Pieces(P, t.made)
  BY <1>3, HeldInsert DEF Settled
<1>7. \A o \in Order : owner[<<"order", o>>] # c => status'[o] = status[o]
  BY <1>3, <1>4 DEF IInv, TypeOK
<1>8. RowsSound'
  <2>1. \A o \in Order : /\ fulfil'[o] = "UNSET" => status'[o] \in {"CREATED", "ALLOCATED"}
                         /\ fulfil'[o] = "SHIPPED" => status'[o] = "SHIPPED"
    <3> SUFFICES ASSUME NEW o \in Order
                 PROVE  /\ fulfil[o] = "UNSET" => status'[o] \in {"CREATED", "ALLOCATED"}
                        /\ fulfil[o] = "SHIPPED" => status'[o] = "SHIPPED"
      BY <1>3
    <3>1. /\ fulfil[o] = "UNSET" => status[o] \in {"CREATED", "ALLOCATED"}
          /\ fulfil[o] = "SHIPPED" => status[o] = "SHIPPED"
      BY DEF Books, RowsSound
    <3>2. status'[o] = status[o] \/ (status'[o] = "ALLOCATED" /\ o = t.order /\ op = "allocate")
      BY <1>3 DEF IInv, TypeOK
    <3>3. o = t.order /\ op = "allocate" => status[o] # "SHIPPED"
      <4>1. o # 0
        BY OrderStockConstants DEF Order
      <4>2. QED
        BY <1>1, <1>2, <4>1 DEF Seen, Closed
    <3>4. QED
      BY <3>1, <3>2, <3>3
  <2>2. QED
    BY <2>1, InsertRows DEF RowsSound
<1>9. \A q \in Quant : TakenAt(t, q) = 0
  BY <1>2 DEF TakenAt
<1>10. \A q \in Quant : Held(AtQuant(q))' = Held(AtQuant(q)) + Pieces(AtQuant(q), t.made) - TakenAt(t, q)
  <2> TAKE q \in Quant
  <2> PICK P : P = AtQuant(q)
    OBVIOUS
  <2>1. Held(P)' = Held(P) + Pieces(P, t.made)
    BY <1>6
  <2>2. Held(P) \in Nat /\ Pieces(P, t.made) \in Nat
    BY <1>1, HeldIsNat, PiecesAreNat DEF IInv
  <2>3. Held(P)' = Held(P) + Pieces(P, t.made) - TakenAt(t, q)
    BY <1>9, <2>1, <2>2
  <2>4. QED
    BY <2>3 DEF Held, Worth
<1>11. \A l \in Line \ LinesOf(t.order) : Pieces(ForLine(l), t.made) = 0
  <2> TAKE l \in Line \ LinesOf(t.order)
  <2>1. \A i \in 1..Len(t.made) : t.made[i] \notin ForLine(l)
    <3> SUFFICES ASSUME NEW i \in 1..Len(t.made), t.made[i] \in ForLine(l) PROVE FALSE
      OBVIOUS
    <3>1. t.made[i].line = l /\ l # 0 /\ PartFor(t, t.made[i])
      BY <1>1 DEF Planned, ForLine, Line
    <3>2. QED
      BY <3>1 DEF PartFor
  <2>2. QED
    BY <1>1, <2>1, PiecesElsewhere
<1>12. ASSUME NEW l \in Line
       PROVE  /\ Held(ForLine(l))' = Held(ForLine(l)) + Pieces(ForLine(l), t.made)
              /\ Held(ForLine(l)) \in Nat /\ Pieces(ForLine(l), t.made) \in Nat
              /\ picked[l] \in Nat /\ Ordered[l] \in Nat /\ Pieces(ForLine(l), t.plan) \in Nat
  <2> PICK P : P = ForLine(l)
    OBVIOUS
  <2>1. Held(P)' = Held(P) + Pieces(P, t.made)
    BY <1>6
  <2>2. Held(P) \in Nat /\ Pieces(P, t.made) \in Nat /\ Pieces(P, t.plan) \in Nat
    BY <1>1, HeldIsNat, PiecesAreNat DEF IInv
  <2>3. picked[l] \in Nat /\ Ordered[l] \in Nat
    BY OrderStockConstants DEF IInv, TypeOK
  <2>4. Held(ForLine(l))' = Held(P)'
    BY DEF Held, Worth
  <2>5. QED
    BY <2>1, <2>2, <2>3, <2>4
<1>13. ASSUME ~LineOverride PROVE LinesBooked'
  <2> SUFFICES ASSUME NEW l \in Line PROVE picked'[l] + Held(ForLine(l))' <= Ordered[l]
    BY DEF LinesBooked, ForLine
  <2>1. CASE l \in LinesOf(t.order)
    <3>1. picked[l] + Held(ForLine(l)) + Pieces(ForLine(l), t.plan) + Pieces(ForLine(l), t.made)
            <= Ordered[l]
      BY <1>1, <1>2, <1>13, <2>1 DEF Within
    <3>2. QED
      BY <1>3, <1>12, <3>1
  <2>2. CASE l \notin LinesOf(t.order)
    <3>1. picked[l] + Held(ForLine(l)) <= Ordered[l]
      BY <1>13 DEF Books, LinesBooked
    <3>2. Pieces(ForLine(l), t.made) = 0
      BY <1>11, <2>2
    <3>3. QED
      BY <1>3, <1>12, <3>1, <3>2
  <2>3. QED
    BY <2>1, <2>2
<1>14. ASSUME NEW l \in Line, owner[<<"order", OrderOf[l]>>] # c
       PROVE  Held(ForLine(l))' <= Held(ForLine(l))
  <2>1. l \notin LinesOf(t.order)
    <3>1. OrderOf[l] # 0
      BY OrderStockConstants DEF Order
    <3>2. QED
      BY <1>5, <1>14, <3>1 DEF LinesOf
  <2>2. Pieces(ForLine(l), t.made) = 0
    BY <1>11, <2>1
  <2>3. QED
    BY <1>12, <2>2
<1>15. PicksBooked'
  BY <1>2, <1>3, NothingPicked
<1>16. \A o \in Order : owner[<<"order", o>>] # c =>
         /\ status'[o] = status[o] /\ fulfil'[o] = fulfil[o]
         /\ \A l \in LinesOf(o) : picked'[l] = picked[l]
  BY <1>3, <1>7
<1>17. QED
  BY <1>2, <1>8, <1>10, <1>13, <1>14, <1>15, <1>16, InsertRows, CommitBooks

(* Rows that exist are edited, and none is added.                           *)
LEMMA RowsEdited ==
  ASSUME RowsSound, Persist,
         \A r \in Resv : resv'[r].status # "NONE" => resv[r].status # "NONE",
         \A k \in Task : task'[k].status # "NONE" => task[k].status # "NONE",
         \A o \in Order : /\ fulfil'[o] = "UNSET" => status'[o] \in {"CREATED", "ALLOCATED"}
                          /\ fulfil'[o] = "SHIPPED" => status'[o] = "SHIPPED"
  PROVE  RowsSound'
<1>1. {k \in Task : task'[k].status # "NONE"} = {k \in Task : task[k].status # "NONE"}
  BY DEF Persist
<1>2. {k \in Task : task'[k].status # "NONE"} = 1..(TaskCount')
  BY <1>1 DEF RowsSound, TaskCount
<1>3. \A r \in Resv : resv'[r].status # "NONE" =>
         /\ resv'[r].quant \in Quant
         /\ resv'[r].line # 0 => resv'[r].order = OrderOf[resv'[r].line]
  BY DEF RowsSound, Persist
<1>4. \A k \in Task : task'[k].status # "NONE" =>
         /\ task'[k].resv \in Resv
         /\ resv'[task'[k].resv].status # "NONE"
         /\ task'[k].line = resv'[task'[k].resv].line
  BY DEF RowsSound, Persist
<1>5. QED
  BY <1>2, <1>3, <1>4 DEF RowsSound

(* The commit of release and cancel.                                        *)
LEMMA ReleaseCommitBooks ==
  ASSUME IInv, IInv', Settled, Books, NEW c \in Client, CommitRelease(c) PROVE Books'
<1> DEFINE t == txn[c]
           r == t.resv
<1>1. /\ t \in Txn /\ Ready(t) /\ t.made \in Seq(Part) /\ Planned(t) /\ About(t)
  BY OnBooks
<1>2. Commit(c, "release") /\ t.op = "release" /\ t.pc = "commit"
  BY DEF CommitRelease, Commit
<1>3. /\ r \in Resv /\ t.target \in {"RELEASED", "CANCELLED"} /\ t.made = <<>>
      /\ t.qty = resv[r].qty /\ t.plan[1] = PartOf(r)
  BY <1>1, <1>2 DEF Ready, Planned, About
<1>4. owner[<<"resv", r>>] = c /\ Active(r)
  <2>1. r # 0
    BY <1>3 DEF Resv
  <2>2. QED
    BY <1>2, <2>1 DEF Settled, Holds, Knows
<1>5. /\ \A k \in Resv \ {r} : resv'[k] = resv[k]
      /\ resv'[r].status = t.target /\ resv'[r].quant = resv[r].quant
      /\ resv'[r].line = resv[r].line /\ resv'[r].order = resv[r].order
  <2>1. resv \in [Resv -> ResvRow] /\ resv' = [resv EXCEPT ![r].status = t.target]
    BY DEF CommitRelease, IInv, TypeOK
  <2>2. resv[r] \in ResvRow /\ resv'[r] = [resv[r] EXCEPT !.status = t.target]
    BY <1>3, <2>1
  <2>3. QED
    BY <2>1, <2>2 DEF ResvRow
<1>6. \A k \in Task : /\ task'[k].status # "NONE" <=> task[k].status # "NONE"
                      /\ task'[k].resv = task[k].resv /\ task'[k].line = task[k].line
  <2> TAKE k \in Task
  <2>1. \/ task'[k] = task[k]
        \/ task'[k] = [task[k] EXCEPT !.status = "CANCELLED"] /\ task[k].status = "OPEN"
    BY DEF CommitRelease
  <2>2. task[k] \in TaskRow
    BY DEF IInv, TypeOK
  <2>3. QED
    BY <2>1, <2>2 DEF TaskRow
<1>7. Persist
  BY <1>3, <1>5, <1>6 DEF Persist
<1>8. UNCHANGED <<status, fulfil, picked>>
  BY DEF CommitRelease
<1>9. RowsSound'
  <2>1. /\ RowsSound
        /\ \A k \in Resv : resv'[k].status # "NONE" => resv[k].status # "NONE"
        /\ \A k \in Task : task'[k].status # "NONE" => task[k].status # "NONE"
    BY <1>4, <1>5, <1>6 DEF Active, Books
  <2>2. \A o \in Order : /\ fulfil'[o] = "UNSET" => status'[o] \in {"CREATED", "ALLOCATED"}
                         /\ fulfil'[o] = "SHIPPED" => status'[o] = "SHIPPED"
    BY <1>8, <2>1 DEF RowsSound
  <2>3. QED
    BY <1>7, <2>1, <2>2, RowsEdited
<1>10. ASSUME NEW P PROVE /\ Held(P)' = Held(P) - IF PartOf(r) \in P THEN resv[r].qty ELSE 0
                          /\ Held(P) \in Nat /\ resv[r].qty \in Nat
  <2>1. Worth(P)'[r] = 0 /\ Worth(P)[r] = IF PartOf(r) \in P THEN resv[r].qty ELSE 0
    BY <1>3, <1>4, <1>5 DEF Worth, Active
  <2>2. Held(P)' = Held(P) + Worth(P)'[r] - Worth(P)[r]
    BY <1>3, <1>5, HeldEdit DEF IInv
  <2>3. Held(P) \in Nat /\ resv[r].qty \in Nat
    BY <1>3, HeldIsNat, ResvFacts DEF IInv
  <2>4. QED
    BY <2>1, <2>2, <2>3
<1>11. \A q \in Quant : Held(AtQuant(q))' = Held(AtQuant(q)) + Pieces(AtQuant(q), t.made) - TakenAt(t, q)
  <2> TAKE q \in Quant
  <2>1. Pieces(AtQuant(q), t.made) = 0
    BY <1>3, PiecesOfNone
  <2>2. TakenAt(t, q) = IF PartOf(r) \in AtQuant(q) THEN resv[r].qty ELSE 0
    BY <1>2, <1>3, ResvFacts DEF TakenAt, AtQuant, IInv
  <2> PICK P : P = AtQuant(q)
    OBVIOUS
  <2>3. Held(P)' = Held(P) + Pieces(P, t.made) - TakenAt(t, q)
    BY <1>10, <2>1, <2>2
  <2>4. QED
    BY <2>3 DEF Held, Worth
<1>12. ASSUME NEW l \in Line
       PROVE  Held(ForLine(l))' <= Held(ForLine(l)) /\ Held(ForLine(l)) \in Nat /\ Held(ForLine(l))' \in Int
  <2> PICK P : P = ForLine(l)
    OBVIOUS
  <2>1. Held(P)' <= Held(P) /\ Held(P) \in Nat /\ Held(P)' \in Int
    BY <1>10
  <2>2. Held(ForLine(l))' = Held(P)'
    BY DEF Held, Worth
  <2>3. QED
    BY <2>1, <2>2
<1>13. ASSUME ~LineOverride PROVE LinesBooked'
  <2> SUFFICES ASSUME NEW l \in Line PROVE picked'[l] + Held(ForLine(l))' <= Ordered[l]
    BY DEF LinesBooked, ForLine
  <2>1. picked[l] + Held(ForLine(l)) <= Ordered[l]
    BY <1>13 DEF Books, LinesBooked
  <2>2. picked[l] \in Nat /\ Ordered[l] \in Nat
    BY OrderStockConstants DEF IInv, TypeOK
  <2>3. QED
    BY <1>8, <1>12, <2>1, <2>2
<1>14. PicksBooked'
  BY <1>2, <1>8, NothingPicked
<1>15. \A k \in Resv : owner[<<"resv", k>>] # c /\ resv[k].status # "NONE" => resv'[k] = resv[k]
  BY <1>4, <1>5
<1>16. QED
  BY <1>2, <1>7, <1>8, <1>9, <1>11, <1>12, <1>13, <1>14, <1>15, CommitBooks

(* A commit that leaves the reservations and the lines as they are.         *)
LEMMA QuietCommitBooks ==
  ASSUME IInv, IInv', Settled, Books, NEW c \in Client, NEW op, Commit(c, op),
         op \notin {"reserve", "allocate", "release", "confirmPick"},
         resv' = resv, picked' = picked, Persist, RowsSound',
         \A o \in Order : owner[<<"order", o>>] # c => status'[o] = status[o] /\ fulfil'[o] = fulfil[o]
  PROVE  Books'
<1> DEFINE t == txn[c]
<1>1. t.made = <<>> /\ \A q \in Quant : TakenAt(t, q) = 0
  BY OnBooks DEF Commit, Planned, TakenAt
<1>2. \A P : Held(P)' = Held(P) /\ Held(P) \in Nat
  BY HeldSame, HeldIsNat DEF IInv
<1>3. \A q \in Quant : Held(AtQuant(q))' = Held(AtQuant(q)) + Pieces(AtQuant(q), t.made) - TakenAt(t, q)
  <2> TAKE q \in Quant
  <2> PICK P : P = AtQuant(q)
    OBVIOUS
  <2>1. Held(P)' = Held(P) + Pieces(P, t.made) - TakenAt(t, q)
    BY <1>1, <1>2, PiecesOfNone
  <2>2. QED
    BY <2>1 DEF Held, Worth
<1>4. ASSUME NEW l \in Line
      PROVE  Held(ForLine(l))' = Held(ForLine(l)) /\ Held(ForLine(l)) \in Nat
  <2> PICK P : P = ForLine(l)
    OBVIOUS
  <2>1. Held(P)' = Held(P) /\ Held(P) \in Nat
    BY <1>2
  <2>2. Held(ForLine(l))' = Held(P)'
    BY DEF Held, Worth
  <2>3. QED
    BY <2>1, <2>2
<1>5. ~LineOverride => LinesBooked'
  <2> SUFFICES ASSUME ~LineOverride, NEW l \in Line PROVE picked'[l] + Held(ForLine(l))' <= Ordered[l]
    BY DEF LinesBooked, ForLine
  <2>1. QED
    BY <1>4 DEF Books, LinesBooked
<1>6. PicksBooked'
  BY NothingPicked
<1>7. \A l \in Line : Held(ForLine(l))' <= Held(ForLine(l))
  BY <1>4
<1>8. QED
  BY <1>3, <1>5, <1>6, <1>7, CommitBooks

(* The reservations that releasePicking has found.                          *)
LEMMA TasksAreRows == ASSUME IInv, NEW c \in Client PROVE txn[c].tasks \in Seq(Resv)
<1>1. txn[c] \in Txn
  BY TxnIsTyped
<1>2. QED
  BY <1>1, Zenon DEF Txn

(* The commits of releasePicking, pack and ship.                            *)
LEMMA StageCommitBooks ==
  ASSUME IInv, IInv', Settled, Books, NEW c \in Client,
         CommitReleasePicking(c) \/ CommitPack(c) \/ CommitShip(c)
  PROVE  Books'
<1> DEFINE t == txn[c]
           o == t.order
<1>1. PICK op \in {"releasePicking", "pack", "ship"}, new \in {"PICKING", "PACKED", "SHIPPED"} :
        Commit(c, op) /\ UpdateOrderStatus(o, new)
  BY DEF CommitReleasePicking, CommitPack, CommitShip
<1>2. resv' = resv /\ picked' = picked
  BY DEF CommitReleasePicking, CommitPack, CommitShip
<1>3. t \in Txn /\ About(t) /\ t.op = op /\ t.pc = "commit"
  BY <1>1, OnBooks DEF Commit
<1>4. o \in Order /\ owner[<<"order", o>>] = c
  BY <1>3 DEF Settled, Holds, OnOrder
<1>5. \A x \in Order : /\ x # o => status'[x] = status[x] /\ fulfil'[x] = fulfil[x]
                       /\ x = o => status'[x] = new /\ fulfil'[x] = new
  BY <1>1 DEF UpdateOrderStatus, IInv, TypeOK
<1>6. RowsSound
  BY DEF Books
<1>7. /\ {k \in Task : task'[k].status # "NONE"} = 1..(TaskCount')
      /\ \A k \in Task : task[k].status # "NONE" => task'[k] = task[k]
      /\ \A k \in Task : task'[k].status # "NONE" =>
           /\ task'[k].resv \in Resv
           /\ resv[task'[k].resv].status # "NONE"
           /\ task'[k].line = resv[task'[k].resv].line
  <2>1. CASE task' = task
    BY <1>6, <2>1 DEF RowsSound, TaskCount
  <2>2. CASE CommitReleasePicking(c)
    <3>1. t.tasks \in Seq(Resv)
      BY TasksAreRows
    <3>2. PICK s \in Seq(Resv) : s = t.tasks
      BY <3>1
    <3> DEFINE new2 == [i \in 1..Len(s) |->
                          [status |-> "OPEN", resv |-> s[i], line |-> resv[s[i]].line]]
    <3>3. s \in Seq(Resv) /\ InsertTask(new2)
      <4>1. InsertTask([i \in 1..Len(t.tasks) |->
                          [status |-> "OPEN", resv |-> t.tasks[i], line |-> resv[t.tasks[i]].line]])
        BY <2>2 DEF CommitReleasePicking
      <4>2. QED
        BY <3>2, <4>1
    <3>4. \A i \in 1..Len(s) : s[i] \in Resv /\ resv[s[i]].status # "NONE"
      <4>1. t.op = "releasePicking"
        BY <2>2 DEF CommitReleasePicking, Commit
      <4>2. \A i \in 1..Len(s) : s[i] \in Resv
        BY <3>3
      <4>3. QED
        BY <1>3, <3>2, <4>1, <4>2 DEF About
    <3>5. Len(new2) = Len(s) /\ Len(s) \in Nat
      BY <3>3
    <3>6. \A i \in 1..Len(new2) : /\ new2[i].status = "OPEN" /\ new2[i].resv = s[i]
                                  /\ new2[i].line = resv[s[i]].line
      BY <3>5
    <3> HIDE DEF new2
    <3>7. {k \in Task : task[k].status # "NONE"} = 1..TaskCount
      BY <1>6 DEF RowsSound
    <3>8. /\ {k \in Task : task'[k].status # "NONE"} = 1..(TaskCount')
          /\ \A k \in Task : task[k].status # "NONE" => task'[k] = task[k]
          /\ \A k \in Task : task[k].status = "NONE" /\ task'[k].status # "NONE"
                             => \E i \in 1..Len(new2) : task'[k] = new2[i]
      <4>1. Len(new2) \in Nat /\ \A i \in 1..Len(new2) : new2[i].status = "OPEN"
        BY <3>5, <3>6
      <4>2. QED
        BY <3>3, <3>7, <4>1, TasksInserted
    <3>9. ASSUME NEW k \in Task, task'[k].status # "NONE"
          PROVE  /\ task'[k].resv \in Resv
                 /\ resv[task'[k].resv].status # "NONE"
                 /\ task'[k].line = resv[task'[k].resv].line
      <4>1. CASE task[k].status # "NONE"
        BY <1>6, <3>8, <4>1 DEF RowsSound
      <4>2. CASE task[k].status = "NONE"
        <5>1. PICK i \in 1..Len(new2) : task'[k] = new2[i]
          BY <3>8, <3>9, <4>2
        <5>2. QED
          BY <3>4, <3>5, <3>6, <5>1
      <4>3. QED
        BY <4>1, <4>2
    <3>10. QED
      BY <3>8, <3>9
  <2>3. QED
    BY <2>1, <2>2 DEF CommitPack, CommitShip
<1>8. Persist
  BY <1>2, <1>7 DEF Persist
<1>9. RowsSound'
  <2>1. \A x \in Order : /\ fulfil'[x] = "UNSET" => status'[x] \in {"CREATED", "ALLOCATED"}
                         /\ fulfil'[x] = "SHIPPED" => status'[x] = "SHIPPED"
    BY <1>5, <1>6 DEF RowsSound
  <2>2. \A r \in Resv : resv'[r].status # "NONE" =>
           /\ resv'[r].quant \in Quant
           /\ resv'[r].line # 0 => resv'[r].order = OrderOf[resv'[r].line]
    BY <1>2, <1>6 DEF RowsSound
  <2>3. QED
    BY <1>2, <1>7, <2>1, <2>2 DEF RowsSound
<1>10. \A x \in Order : owner[<<"order", x>>] # c => status'[x] = status[x] /\ fulfil'[x] = fulfil[x]
  BY <1>4, <1>5
<1> HIDE DEF o, t
<1>11. QED
  BY <1>1, <1>2, <1>8, <1>9, <1>10, QuietCommitBooks

(* The write of a task.                                                     *)
LEMMA TaskCommitBooks ==
  ASSUME IInv, IInv', Settled, Books, NEW c \in Client, WriteTask(c) PROVE Books'
<1> DEFINE t == txn[c]
<1>1. Commit(c, "task") /\ UNCHANGED <<resv, status, fulfil, picked>>
  BY DEF WriteTask
<1>2. t.task \in Task /\ task[t.task].status # "NONE" /\ t.target # "NONE"
  BY <1>1, OnBooks DEF Commit, About
<1>3. \A k \in Task : /\ task'[k].status # "NONE" <=> task[k].status # "NONE"
                      /\ task'[k].resv = task[k].resv /\ task'[k].line = task[k].line
  <2> TAKE k \in Task
  <2>1. \/ task'[k] = task[k]
        \/ task'[k] = [task[k] EXCEPT !.status = t.target] /\ k = t.task
    BY DEF WriteTask, IInv, TypeOK
  <2>2. task[k] \in TaskRow
    BY DEF IInv, TypeOK
  <2>3. QED
    BY <1>2, <2>1, <2>2 DEF TaskRow
<1>4. Persist
  BY <1>1, <1>3 DEF Persist
<1>5. RowsSound'
  <2>1. RowsSound /\ \A o \in Order : /\ fulfil'[o] = "UNSET" => status'[o] \in {"CREATED", "ALLOCATED"}
                                      /\ fulfil'[o] = "SHIPPED" => status'[o] = "SHIPPED"
    BY <1>1 DEF Books, RowsSound
  <2>2. QED
    BY <1>1, <1>3, <1>4, <2>1, RowsEdited
<1>6. QED
  BY <1>1, <1>4, <1>5, QuietCommitBooks

-----------------------------------------------------------------------------
(* What the commit of confirmPick does to its reservation and its line.     *)
PickEffect(c, t) ==
  /\ t.op = "confirmPick" /\ t.pc = "commit" /\ t.qty \in Nat /\ t.made = <<>>
  /\ t.line \in Line /\ t.resv \in Resv /\ t.order \in Order /\ t.line \in LinesOf(t.order)
  /\ t.task \in Task /\ t.plan[1].quant = resv[t.resv].quant /\ resv[t.resv].quant \in Quant
  /\ Active(t.resv) /\ owner[<<"resv", t.resv>>] = c /\ owner[<<"order", t.order>>] = c
  /\ t.qty <= resv[t.resv].qty /\ resv[t.resv].qty \in Nat
  /\ \A k \in Resv \ {t.resv} : resv'[k] = resv[k]
  /\ resv' = IF resv[t.resv].qty = t.qty THEN [resv EXCEPT ![t.resv].status = "PICKED"]
                                         ELSE [resv EXCEPT ![t.resv].qty = @ - t.qty]
  /\ resv'[t.resv].quant = resv[t.resv].quant /\ resv'[t.resv].line = resv[t.resv].line
  /\ resv'[t.resv].order = resv[t.resv].order
  /\ \/ resv[t.resv].qty = t.qty /\ resv'[t.resv].status = "PICKED"
     \/ resv'[t.resv].status = "ACTIVE" /\ resv'[t.resv].qty = resv[t.resv].qty - t.qty
  /\ picked' = [picked EXCEPT ![t.line] = picked[t.line] + t.qty]
  /\ ~LineOverride => resv[t.resv].line = t.line

(* All of this is so, by what the transaction has read under its locks.     *)
LEMMA PickRows ==
  ASSUME IInv, Settled, Books, NEW c \in Client, CommitConfirmPick(c), NEW t, t = txn[c]
  PROVE  PickEffect(c, t)
<1>1. t \in Txn /\ Ready(t) /\ Planned(t) /\ About(t)
  BY OnBooks
<1>2. Commit(c, "confirmPick") /\ t.op = "confirmPick" /\ t.pc = "commit"
  BY DEF CommitConfirmPick, Commit
<1>3. /\ t.line \in Line /\ t.resv \in Resv /\ t.task \in Task /\ t.qty \in 1..Ordered[t.line]
      /\ t.made = <<>> /\ t.plan[1].quant = resv[t.resv].quant /\ t.qty <= resv[t.resv].qty
      /\ ~LineOverride => resv[t.resv].line = t.line
  BY <1>1, <1>2 DEF Ready, About, Planned
<1>4. t.qty \in Nat /\ resv[t.resv].qty \in Nat
  <2>1. t.qty \in Nat
    BY <1>1, Zenon DEF Txn
  <2>2. QED
    BY <1>3, <2>1, ResvFacts DEF IInv
<1>5. /\ Active(t.resv) /\ owner[<<"resv", t.resv>>] = c
      /\ t.order \in Order /\ owner[<<"order", t.order>>] = c
      /\ t.line \in LinesOf(t.order) /\ t.saw[t.line] = picked[t.line]
  <2>1. t.resv # 0
    BY <1>3 DEF Resv
  <2>2. Holds(owner, c, t) /\ Knows(t)
    BY DEF Settled
  <2>3. QED
    BY <1>2, <2>1, <2>2 DEF Holds, Knows, OnOrder
<1>6. resv[t.resv].quant \in Quant
  BY <1>3, <1>5 DEF Books, RowsSound, Active
<1>7. picked' = [picked EXCEPT ![t.line] = picked[t.line] + t.qty]
  BY <1>5 DEF CommitConfirmPick
<1>8. resv' = IF resv[t.resv].qty = t.qty THEN [resv EXCEPT ![t.resv].status = "PICKED"]
                                          ELSE [resv EXCEPT ![t.resv].qty = @ - t.qty]
  <2>1. t.resv # 0
    BY <1>3 DEF Resv
  <2>2. resv' = PickedResv(t.resv, t.qty)
    BY DEF CommitConfirmPick
  <2>3. resv[t.resv].qty <= t.qty <=> resv[t.resv].qty = t.qty
    BY <1>3, <1>4
  <2>4. QED
    BY <2>1, <2>2, <2>3 DEF PickedResv
<1>9. resv \in [Resv -> ResvRow]
  BY DEF IInv, TypeOK
<1>10. /\ \A k \in Resv \ {t.resv} : resv'[k] = resv[k]
       /\ resv'[t.resv].quant = resv[t.resv].quant /\ resv'[t.resv].line = resv[t.resv].line
       /\ resv'[t.resv].order = resv[t.resv].order
       /\ \/ resv[t.resv].qty = t.qty /\ resv'[t.resv].status = "PICKED"
          \/ resv'[t.resv].status = "ACTIVE" /\ resv'[t.resv].qty = resv[t.resv].qty - t.qty
  <2>1. resv[t.resv] \in ResvRow /\ resv[t.resv].status = "ACTIVE"
    BY <1>3, <1>5, <1>9 DEF Active
  <2>2. CASE resv[t.resv].qty = t.qty
    <3>1. /\ resv'[t.resv] = [resv[t.resv] EXCEPT !.status = "PICKED"]
          /\ \A k \in Resv \ {t.resv} : resv'[k] = resv[k]
      BY <1>3, <1>8, <1>9, <2>2
    <3>2. QED
      BY <2>1, <2>2, <3>1 DEF ResvRow
  <2>3. CASE resv[t.resv].qty # t.qty
    <3>1. /\ resv'[t.resv] = [resv[t.resv] EXCEPT !.qty = @ - t.qty]
          /\ \A k \in Resv \ {t.resv} : resv'[k] = resv[k]
      BY <1>3, <1>8, <1>9, <2>3
    <3>2. QED
      BY <2>1, <2>3, <3>1 DEF ResvRow
  <2>4. QED
    BY <2>2, <2>3
<1>11. QED
  BY <1>2, <1>3, <1>4, <1>5, <1>6, <1>7, <1>8, <1>10 DEF PickEffect

(* The commit of confirmPick: the pieces leave the shelf, the reservation   *)
(* and what the line is still promised, and are credited to the line.       *)
LEMMA PickCommitBooks ==
  ASSUME IInv, IInv', Settled, Books, NEW c \in Client, CommitConfirmPick(c) PROVE Books'
<1>0. PICK t : t = txn[c]
  OBVIOUS
<1> DEFINE r == t.resv
           n == t.qty
<1>1. /\ t.op = "confirmPick" /\ t.pc = "commit" /\ n \in Nat /\ t.made = <<>>
      /\ t.line \in Line /\ r \in Resv /\ t.order \in Order /\ t.line \in LinesOf(t.order)
      /\ t.task \in Task /\ t.plan[1].quant = resv[r].quant /\ resv[r].quant \in Quant
      /\ Active(r) /\ owner[<<"resv", r>>] = c /\ owner[<<"order", t.order>>] = c
      /\ n <= resv[r].qty /\ resv[r].qty \in Nat
      /\ \A k \in Resv \ {r} : resv'[k] = resv[k]
      /\ resv'[r].quant = resv[r].quant /\ resv'[r].line = resv[r].line
      /\ resv'[r].order = resv[r].order
      /\ \/ resv[r].qty = n /\ resv'[r].status = "PICKED"
         \/ resv'[r].status = "ACTIVE" /\ resv'[r].qty = resv[r].qty - n
      /\ picked' = [picked EXCEPT ![t.line] = picked[t.line] + n]
      /\ ~LineOverride => resv[r].line = t.line
  <2>1. PickEffect(c, t)
    BY <1>0, PickRows
  <2>2. QED
    BY <2>1, Zenon DEF PickEffect
<1>2. Commit(c, "confirmPick")
  BY DEF CommitConfirmPick
<1>3. \A k \in Task : /\ task'[k].status # "NONE" <=> task[k].status # "NONE"
                      /\ task'[k].resv = task[k].resv /\ task'[k].line = task[k].line
  <2> TAKE k \in Task
  <2>1. \/ task'[k] = task[k]
        \/ task'[k] = [task[k] EXCEPT !.status = "DONE"] /\ k = t.task
    BY <1>0 DEF CommitConfirmPick, IInv, TypeOK
  <2>2. task[k] \in TaskRow
    BY DEF IInv, TypeOK
  <2>3. task[t.task].status # "NONE"
    BY <1>0, <1>1, OnBooks DEF About
  <2>4. QED
    BY <2>1, <2>2, <2>3 DEF TaskRow
<1>4. Persist
  BY <1>1, <1>3 DEF Persist, Active
<1>5. \A o \in Order : \/ status'[o] = status[o] /\ fulfil'[o] = fulfil[o]
                       \/ o = t.order /\ status'[o] = "PICKED" /\ fulfil'[o] = "PICKED"
  BY <1>0 DEF CommitConfirmPick, UpdateOrderStatus, IInv, TypeOK
<1>6. RowsSound'
  <2>1. /\ RowsSound
        /\ \A k \in Resv : resv'[k].status # "NONE" => resv[k].status # "NONE"
        /\ \A k \in Task : task'[k].status # "NONE" => task[k].status # "NONE"
    BY <1>1, <1>3 DEF Active, Books
  <2>2. \A o \in Order : /\ fulfil'[o] = "UNSET" => status'[o] \in {"CREATED", "ALLOCATED"}
                         /\ fulfil'[o] = "SHIPPED" => status'[o] = "SHIPPED"
    BY <1>5, <2>1 DEF RowsSound
  <2>3. QED
    BY <1>4, <2>1, <2>2, RowsEdited
<1>7. ASSUME NEW P, \A p, s \in Part : p.quant = s.quant /\ p.line = s.line => (p \in P <=> s \in P)
      PROVE  /\ Held(P)' = Held(P) - IF PartOf(r) \in P THEN n ELSE 0
             /\ Held(P) \in Nat
  <2>1. PartOf(r) \in Part /\ PartOf(r)' \in Part
    <3>1. resv'[r] \in ResvRow
      BY <1>1 DEF IInv, TypeOK
    <3>2. PartOf(r)' \in Part
      BY <3>1 DEF ResvRow, PartOf, Part
    <3>3. QED
      BY <1>1, <3>2, ResvFacts DEF IInv
  <2>2. PartOf(r)' \in P <=> PartOf(r) \in P
    BY <1>1, <1>7, <2>1 DEF PartOf
  <2>3. /\ Worth(P)[r] = IF PartOf(r) \in P THEN resv[r].qty ELSE 0
        /\ Worth(P)'[r] = IF PartOf(r) \in P THEN resv[r].qty - n ELSE 0
    <3>1. Worth(P)[r] = IF PartOf(r) \in P THEN resv[r].qty ELSE 0
      BY <1>1 DEF Worth
    <3>2. Worth(P)'[r] = IF resv'[r].status = "ACTIVE" /\ PartOf(r)' \in P THEN resv'[r].qty ELSE 0
      BY <1>1 DEF Worth, Active
    <3>3. QED
      BY <1>1, <2>2, <3>1, <3>2
  <2>4. Held(P)' = Held(P) + Worth(P)'[r] - Worth(P)[r]
    BY <1>1, HeldEdit DEF IInv
  <2>5. Held(P) \in Nat
    BY HeldIsNat DEF IInv
  <2>6. QED
    BY <1>1, <2>3, <2>4, <2>5
<1>8. PartOf(r) \in Part /\ PartOf(r).quant = resv[r].quant /\ PartOf(r).line = resv[r].line
  BY <1>1, ResvFacts DEF IInv, PartOf
<1>9. \A q \in Quant : TakenAt(t, q) = IF resv[r].quant = q THEN n ELSE 0
  BY <1>1 DEF TakenAt
<1>10. \A q \in Quant : Held(AtQuant(q))' = Held(AtQuant(q)) + Pieces(AtQuant(q), txn[c].made)
                                              - TakenAt(txn[c], q)
  <2> TAKE q \in Quant
  <2>1. PICK P : P = AtQuant(q)
    OBVIOUS
  <2>2. \A p, s \in Part : p.quant = s.quant /\ p.line = s.line => (p \in P <=> s \in P)
    BY <2>1 DEF AtQuant
  <2>3. Held(P)' = Held(P) - (IF PartOf(r) \in P THEN n ELSE 0) /\ Held(P) \in Nat
    BY <1>7, <2>2
  <2>4. PartOf(r) \in P <=> resv[r].quant = q
    BY <1>8, <2>1 DEF AtQuant
  <2>5. Pieces(P, t.made) = 0
    BY <1>1, PiecesOfNone
  <2>6. Held(P)' = Held(P) + Pieces(P, t.made) - TakenAt(t, q)
    BY <1>1, <1>9, <2>3, <2>4, <2>5
  <2>7. Held(AtQuant(q))' = Held(P)'
    BY <2>1 DEF Held, Worth
  <2>8. QED
    BY <1>0, <2>1, <2>6, <2>7
<1>11. ASSUME NEW l \in Line
       PROVE  /\ Held(ForLine(l))' = Held(ForLine(l)) - IF resv[r].line = l THEN n ELSE 0
              /\ Held(ForLine(l)) \in Nat
  <2>1. PICK P : P = ForLine(l)
    OBVIOUS
  <2>2. \A p, s \in Part : p.quant = s.quant /\ p.line = s.line => (p \in P <=> s \in P)
    BY <2>1 DEF ForLine
  <2>3. Held(P)' = Held(P) - (IF PartOf(r) \in P THEN n ELSE 0) /\ Held(P) \in Nat
    BY <1>7, <2>2
  <2>4. PartOf(r) \in P <=> resv[r].line = l
    BY <1>8, <2>1 DEF ForLine
  <2>5. Held(ForLine(l))' = Held(P)'
    BY <2>1 DEF Held, Worth
  <2>6. QED
    BY <2>1, <2>3, <2>4, <2>5
<1>12. \A l \in Line : /\ picked[l] \in Nat /\ Ordered[l] \in Nat
                       /\ picked'[l] = picked[l] + IF l = t.line THEN n ELSE 0
  <2>1. picked \in [Line -> Nat] /\ Ordered \in [Line -> Nat]
    BY OrderStockConstants DEF IInv, TypeOK
  <2> HIDE DEF n
  <2>2. n \in Nat /\ t.line \in Line /\ picked' = [picked EXCEPT ![t.line] = picked[t.line] + n]
    BY <1>1 DEF n
  <2>3. QED
    BY <2>1, <2>2
<1>13. ASSUME ~LineOverride PROVE LinesBooked'
  <2> SUFFICES ASSUME NEW l \in Line PROVE picked'[l] + Held(ForLine(l))' <= Ordered[l]
    BY DEF LinesBooked, ForLine
  <2>1. picked[l] + Held(ForLine(l)) <= Ordered[l]
    BY <1>13 DEF Books, LinesBooked
  <2>2. resv[r].line = t.line
    BY <1>1, <1>13
  <2>3. PICK h \in Nat : h = Held(ForLine(l))
    BY <1>11
  <2>4. Held(ForLine(l))' = h - IF l = t.line THEN n ELSE 0
    BY <1>11, <2>2, <2>3
  <2>5. QED
    BY <1>1, <1>12, <2>1, <2>3, <2>4
<1>14. \A l \in Line : Held(ForLine(l))' <= Held(ForLine(l))
  BY <1>1, <1>11
<1>15. PicksBooked'
  <2> DEFINE f == [q \in Quant |-> OnHand[q] - quantity[q]]
             g == [q \in Quant |-> OnHand[q] - quantity'[q]]
             q0 == resv[r].quant
  <2>1. \A q \in Quant : quantity'[q] = quantity[q] - IF q = q0 THEN n ELSE 0
    <3>1. \A q \in Quant : dQty[c][q] = -TakenAt(t, q)
      BY <1>0, <1>1, OnBooks DEF Booked
    <3>2. \A q \in Quant : quantity[q] \in Nat /\ quantity'[q] = quantity[q] + dQty[c][q]
      BY <1>2 DEF Commit, IInv, TypeOK
    <3>3. QED
      BY <1>1, <1>9, <3>1, <3>2
  <2>2. \A q \in Quant : quantity[q] \in Nat /\ OnHand[q] \in Nat
    BY OrderStockConstants DEF IInv, TypeOK
  <2>3. /\ \A q \in Quant : f[q] \in Int /\ g[q] \in Int
        /\ \A q \in Quant \ {q0} : f[q] = g[q]
        /\ g[q0] = f[q0] + n /\ f[q0] \in Int
    <3> HIDE DEF q0, n
    <3>1. n \in Nat /\ q0 \in Quant
      BY <1>1 DEF n, q0
    <3>2. QED
      BY <2>1, <2>2, <3>1
  <2> HIDE DEF f, g
  <2>4. SumOf(g, Quant) = SumOf(f, Quant) + g[q0] - f[q0]
    BY <1>1, <2>3, ResvFacts, SumUpdate DEF IInv
  <2>5. SumOf(picked', Line) = SumOf(picked, Line) + picked'[t.line] - picked[t.line]
    <3> PICK h, k : h = picked /\ k = picked'
      OBVIOUS
    <3>1. n \in Nat /\ t.line \in Line
      BY <1>1
    <3> HIDE DEF n
    <3>2. /\ \A l \in Line : h[l] \in Int /\ k[l] \in Int
          /\ \A l \in Line \ {t.line} : h[l] = k[l]
      BY <1>12, <3>1
    <3>3. IsFiniteSet(Line)
      BY ResvFacts DEF IInv
    <3>4. SumOf(k, Line) = SumOf(h, Line) + k[t.line] - h[t.line]
      BY <3>1, <3>2, <3>3, SumUpdate
    <3>5. QED
      BY <3>4
  <2>6. SumOf(f, Quant) = SumOf(picked, Line)
    BY DEF Books, PicksBooked, f
  <2>7. SumOf(f, Quant) \in Int
    BY <2>3, ResvFacts, SumInt DEF IInv
  <2>8. SumOf(g, Quant) = SumOf(picked', Line)
    <3>1. n \in Nat /\ t.line \in Line
      BY <1>1
    <3> HIDE DEF n, q0
    <3>2. picked'[t.line] = picked[t.line] + n /\ picked[t.line] \in Nat
      BY <1>12, <3>1
    <3>3. QED
      BY <2>3, <2>4, <2>5, <2>6, <2>7, <3>1, <3>2
  <2>9. QED
    BY <2>8 DEF PicksBooked, g
<1>16. \A k \in Resv : owner[<<"resv", k>>] # c /\ resv[k].status # "NONE" => resv'[k] = resv[k]
  BY <1>1
<1>17. \A o \in Order : owner[<<"order", o>>] # c =>
         /\ status'[o] = status[o] /\ fulfil'[o] = fulfil[o]
         /\ \A l \in LinesOf(o) : picked'[l] = picked[l]
  <2> TAKE o \in Order
  <2>1. HAVE owner[<<"order", o>>] # c
  <2>2. o # t.order
    BY <1>1, <2>1
  <2>3. \A l \in LinesOf(o) : l \in Line /\ l # t.line
    BY <1>1, <2>2 DEF LinesOf
  <2>4. \A l \in LinesOf(o) : picked'[l] = picked[l]
    BY <1>1, <2>3
  <2>5. QED
    BY <1>5, <2>2, <2>4
<1> HIDE DEF r, n
<1>18. QED
  BY <1>2, <1>4, <1>6, <1>10, <1>13, <1>14, <1>15, <1>16, <1>17, CommitBooks

-----------------------------------------------------------------------------
(* Every step of the desk keeps the books.                                  *)
LEMMA DeskKeepsBooks == ASSUME IInv, IInv', Settled, Books, [Next]_vars PROVE Books'
<1>1. ASSUME NEW c \in Client, DeskStep(c) PROVE Books'
  <2>1. CASE Reserving(c)
    BY <2>1, ReserveBooks, ReserveStockQuantBooks, InsertBooks DEF Reserving
  <2>2. CASE Allocating(c)
    BY <2>2, AllocateBooks, InsertBooks DEF Allocating
  <2>3. CASE Releasing(c)
    BY <2>3, ReleaseBooks, ReleaseCommitBooks DEF Releasing
  <2>4. CASE Picking(c)
    BY <2>4, PickBooks, PickCommitBooks DEF Picking
  <2>5. CASE Staging(c)
    BY <2>5, StageBooks, StageCommitBooks DEF Staging
  <2>6. CASE Tasking(c)
    BY <2>6, TaskBooks, TaskCommitBooks DEF Tasking
  <2>7. CASE Rollback(c)
    BY <2>7, RollbackBooks
  <2>8. QED
    BY <1>1, <2>1, <2>2, <2>3, <2>4, <2>5, <2>6, <2>7 DEF DeskStep
<1>2. CASE UNCHANGED vars
  <2>1. /\ UNCHANGED <<quantity, reserved, resv, task, status, fulfil, picked>>
        /\ owner' = owner /\ txn' = txn /\ dQty' = dQty /\ dRes' = dRes
    BY <1>2 DEF vars, data, locals
  <2>2. RowsSound' /\ StockBooked' /\ PicksBooked' /\ (~LineOverride => LinesBooked')
    <3>1. RowsSound'
      BY <2>1 DEF Books, RowsSound, TaskCount
    <3>2. StockBooked'
      BY <2>1 DEF Books, StockBooked, Held, Worth, Active, PartOf, AtQuant
    <3>3. PicksBooked'
      BY <2>1 DEF Books, PicksBooked
    <3>4. ~LineOverride => LinesBooked'
      BY <2>1 DEF Books, LinesBooked, Held, Worth, Active, PartOf, ForLine
    <3>5. QED
      BY <3>1, <3>2, <3>3, <3>4
  <2>3. ASSUME NEW c \in Client PROVE Kept(owner, c, txn[c], dQty[c], dRes[c])'
    <3>1. PICK t, x, y : t = txn[c] /\ x = dQty[c] /\ y = dRes[c]
      OBVIOUS
    <3>2. Planned(t) /\ HasOrder(owner, c, t) /\ Seen(t) /\ About(t) /\ Booked(t, x, y)
      BY <3>1 DEF Books, Kept
    <3>3. Planned(t)' /\ HasOrder(owner, c, t)'
      BY <2>1, <3>2 DEF Planned, PartFor, LinesOf, HasOrder
    <3>4. Booked(t, x, y)'
      BY <3>2 DEF Booked, TakenAt, Pieces, AtQuant
    <3>5. Seen(t)' /\ About(t)'
      BY <2>1, <3>2 DEF Seen, LinesOf, Effective, About, PartOf
    <3>6. Kept(owner, c, t, x, y)'
      BY <3>3, <3>4, <3>5 DEF Kept
    <3>7. txn'[c] = t /\ dQty'[c] = x /\ dRes'[c] = y
      BY <2>1, <3>1
    <3>8. QED
      BY <3>6, <3>7
  <2>4. ASSUME ~LineOverride, NEW c \in Client PROVE Within(txn[c])'
    <3>1. PICK t : t = txn[c]
      OBVIOUS
    <3>2. Within(t)'
      BY <2>1, <2>4, <3>1 DEF Books, Within, LinesOf, Pieces, ForLine, Held, Worth, Active, PartOf
    <3>3. QED
      BY <2>1, <3>1, <3>2
  <2>5. QED
    BY <2>2, <2>3, <2>4 DEF Books
<1>3. QED
  BY <1>1, <1>2 DEF Next

(* The books open empty.                                                    *)
LEMMA BooksOpen == ASSUME Init, IInv PROVE Books
<1>1. /\ \A r \in Resv : resv[r].status = "NONE"
      /\ \A k \in Task : task[k].status = "NONE"
      /\ \A o \in Order : fulfil[o] = "UNSET" /\ status[o] = "CREATED"
      /\ \A q \in Quant : reserved[q] = 0 /\ quantity[q] = OnHand[q]
      /\ \A l \in Line : picked[l] = 0
      /\ \A c \in Client : txn[c] = Idle /\ dQty[c] = NoChange /\ dRes[c] = NoChange
  BY DEF Init, NoResv, NoTask, NoChange
<1>2. RowsSound
  <2>1. {k \in Task : task[k].status # "NONE"} = {}
    BY <1>1
  <2>2. TaskCount = 0
    BY <2>1, FS_EmptySet DEF TaskCount
  <2>3. 1..0 = {}
    OBVIOUS
  <2>4. QED
    BY <1>1, <2>1, <2>2, <2>3 DEF RowsSound
<1>3. \A c \in Client : Kept(owner, c, txn[c], dQty[c], dRes[c]) /\ Within(txn[c])
  BY <1>1, IdleBooks DEF Kept
<1>4. \A P : Held(P) = 0
  <2> TAKE P
  <2> DEFINE f == Worth(P)
  <2>1. \A r \in Resv : f[r] = 0
    BY <1>1 DEF Worth, Active
  <2> HIDE DEF f
  <2>2. SumOf(f, Resv) = 0
    BY <2>1, ResvFacts, SumZero DEF IInv
  <2>3. QED
    BY <2>2 DEF Held, f
<1>5. StockBooked
  BY <1>1, <1>4 DEF StockBooked
<1>6. PicksBooked
  <2> DEFINE f == [q \in Quant |-> OnHand[q] - quantity[q]]
  <2>1. \A q \in Quant : f[q] = 0
    BY <1>1, OrderStockConstants
  <2> HIDE DEF f
  <2>2. SumOf(f, Quant) = 0 /\ SumOf(picked, Line) = 0
    BY <1>1, <2>1, ResvFacts, SumZero DEF IInv
  <2>3. QED
    BY <2>2 DEF PicksBooked, f
<1>7. LinesBooked
  BY <1>1, <1>4, OrderStockConstants DEF LinesBooked
<1>8. QED
  BY <1>2, <1>3, <1>5, <1>6, <1>7 DEF Books

(* The books of the desk are kept in every reachable state.                 *)
THEOREM DeskBalances == Spec => []Books
<1>1. Init /\ IInv => Books
  BY BooksOpen
<1>2. IInv /\ IInv' /\ Settled /\ Books /\ [Next]_vars => Books'
  BY DeskKeepsBooks
<1>3. QED
  BY <1>1, <1>2, StockStaysCovered, DeskStaysSettled, PTL DEF Spec

(* reserved_quantity of every quant is what its active reservations hold,   *)
(* whichever requests create, release and pick them at once: no increment   *)
(* is lost, and none is applied twice.                                      *)
THEOREM ReservedStockIsHeld == Spec => []ReservedIsActive
<1>1. IInv /\ Books => ReservedIsActive
  BY TotalIsHeld DEF IInv, Books, StockBooked, ReservedIsActive
<1>2. QED
  BY <1>1, StockStaysCovered, DeskBalances, PTL

(* What left the shelves is, piece for piece, what the lines were credited: *)
(* no confirmPick overwrites the picked quantity that another has written.  *)
THEOREM TakenStockIsCredited == Spec => []TakenIsPicked
<1>1. ASSUME NEW S, IsFiniteSet(S), NEW f
      PROVE  MapThenSumSet(LAMBDA x : f[x], S) = SumOf(f, S)
  <2> DEFINE Rec(g) == g = [s \in SUBSET S |-> IF s = {} THEN 0 ELSE f[First(s)] + g[s \ {First(s)}]]
  <2>1. \A g : Rec(g) <=> Sums(g, f, S)
    BY DEF Sums
  <2>2. MapThenSumSet(LAMBDA x : f[x], S) = (CHOOSE g : Rec(g))[S]
    BY DEF MapThenSumSet, MapThenFoldSet, First
  <2>3. \E g : Rec(g)
    BY <1>1, <2>1, TableExists
  <2> HIDE DEF Rec
  <2>4. PICK T : T = CHOOSE g : Rec(g)
    OBVIOUS
  <2>5. Sums(T, f, S) /\ Sums(Table(f, S), f, S)
    BY <1>1, <2>1, <2>3, <2>4, TableExists
  <2>6. T[S] = Table(f, S)[S]
    BY <1>1, <2>5, TablesAgree
  <2>7. QED
    BY <1>1, <2>2, <2>4, <2>6, SumIsTable
<1>2. ASSUME IInv, Books PROVE TakenIsPicked
  <2> DEFINE f == [q \in Quant |-> OnHand[q] - quantity[q]]
  <2>1. IsFiniteSet(Quant) /\ IsFiniteSet(Line)
    BY <1>2, ResvFacts DEF IInv
  <2>2. MapThenSumSet(LAMBDA l : picked[l], Line) = SumOf(picked, Line)
    BY <1>1, <2>1
  <2>3. Taken = SumOf(f, Quant)
    <3>1. Taken = MapThenSumSet(LAMBDA q : f[q], Quant)
      BY DEF Taken, MapThenSumSet, MapThenFoldSet
    <3> HIDE DEF f
    <3>2. QED
      BY <1>1, <2>1, <3>1
  <2>4. QED
    BY <1>2, <2>2, <2>3 DEF Books, PicksBooked, TakenIsPicked
<1>3. QED
  BY <1>2, StockStaysCovered, DeskBalances, PTL

(* Unless a pick names another line than its task's, no line is ever picked *)
(* and promised beyond what was ordered: create and allocate see the need   *)
(* of the line under the lock of its order, which whoever adds to it holds. *)
THEOREM LineKeepsItsOrder == ASSUME ~LineOverride PROVE Spec => []LineNotOverpromised
<1>1. IInv /\ Books => LineNotOverpromised
  BY TotalIsHeld DEF IInv, Books, LinesBooked, LineNotOverpromised
<1>2. QED
  BY <1>1, StockStaysCovered, DeskBalances, PTL

-----------------------------------------------------------------------------
(* The ledger counts pieces as the books do.                                *)
LEMMA LedgerPieces ==
  ASSUME NEW f, NEW R, IsFiniteSet(R)
  PROVE  Ledger!Pieces(f, R) = SumOf([r \in R |-> f[r].qty], R)
<1> DEFINE h == [r \in R |-> f[r].qty]
           Rec(g) == g = [s \in SUBSET R |-> IF s = {} THEN 0
                                             ELSE f[First(s)].qty + g[s \ {First(s)}]]
<1>1. \A s \in SUBSET R : s # {} => First(s) \in R
  BY DEF First
<1>2. \A g : Rec(g) <=> Sums(g, h, R)
  BY <1>1 DEF Sums
<1>3. Ledger!Pieces(f, R) = (CHOOSE g : Rec(g))[R]
  BY DEF Ledger!Pieces, Ledger!MapThenSumSet, Ledger!MapThenFoldSet, First
<1>4. \E g : Rec(g)
  BY <1>2, TableExists
<1> HIDE DEF Rec, h
<1>5. PICK T : T = CHOOSE g : Rec(g)
  OBVIOUS
<1>6. Sums(T, h, R) /\ Sums(Table(h, R), h, R)
  BY <1>2, <1>4, <1>5, TableExists
<1>7. T[R] = Table(h, R)[R]
  BY <1>6, TablesAgree
<1>8. QED
  BY <1>3, <1>5, <1>7, SumIsTable DEF h

(* N are the new reservations of a step, R those of them that are in P.     *)
NewRows(N) ==
  /\ N \subseteq Resv
  /\ \A r \in N : ~Active(r) /\ resv'[r].status = "ACTIVE"
  /\ \A r \in Resv \ N : resv'[r] = resv[r]
NewIn(R, N, P) == R \subseteq N /\ \A r \in N : r \in R <=> PartOf(r)' \in P

(* What new reservations add to what is held for P.                         *)
LEMMA HeldByNew ==
  ASSUME TypeOK, TypeOK', NEW N, NewRows(N), NEW P, NEW R, NewIn(R, N, P)
  PROVE  Held(P)' = Held(P) + Ledger!Pieces(resv', R)
<1> USE DEF NewRows, NewIn
<1> DEFINE f == Worth(P)
           g == Worth(P)'
           h == [r \in R |-> resv'[r].qty]
           M == Resv \ N
<1>1. IsFiniteSet(Resv) /\ IsFiniteSet(N) /\ IsFiniteSet(M) /\ IsFiniteSet(R)
  BY ResvFacts, FS_Subset
<1>2. \A r \in Resv : f[r] \in Int
  BY HeldIsNat
<1>3. \A r \in Resv : resv'[r].qty \in Int
  BY DEF TypeOK, ResvRow
<1>4. \A r \in Resv : g[r] \in Int
  BY <1>3 DEF Worth
<1>5. \A r \in M : g[r] = f[r]
  <2> TAKE r \in M
  <2>1. resv'[r] = resv[r]
    OBVIOUS
  <2>2. PartOf(r)' = PartOf(r) /\ Active(r)' = Active(r)
    BY <2>1 DEF PartOf, Active
  <2>3. g[r] = IF Active(r)' /\ PartOf(r)' \in P THEN resv'[r].qty ELSE 0
    BY DEF Worth
  <2>4. f[r] = IF Active(r) /\ PartOf(r) \in P THEN resv[r].qty ELSE 0
    BY DEF Worth
  <2>5. QED
    BY <2>1, <2>2, <2>3, <2>4
<1>6. \A r \in N : f[r] = 0
  BY DEF Worth
<1>7. /\ \A r \in R : h[r] \in Int /\ g[r] = h[r]
      /\ \A r \in N \ R : g[r] = 0
  <2>1. \A r \in N : g[r] = IF PartOf(r)' \in P THEN resv'[r].qty ELSE 0
    BY DEF Worth, Active
  <2>2. QED
    BY <1>3, <2>1
<1>8. Held(P)' = SumOf(g, Resv) /\ Held(P) = SumOf(f, Resv)
  BY DEF Held
<1>9. Ledger!Pieces(resv', R) = SumOf(h, R)
  BY <1>1, LedgerPieces
<1>10. Resv = N \cup M /\ N \cap M = {} /\ R \subseteq N
  OBVIOUS
<1> HIDE DEF f, g, h, M
<1>11. SumOf(g, Resv) = SumOf(g, N) + SumOf(g, M) /\ SumOf(f, Resv) = SumOf(f, N) + SumOf(f, M)
  <2>1. SumOf(g, N \cup M) = SumOf(g, N) + SumOf(g, M)
    BY <1>1, <1>4, <1>10, SumJoin
  <2>2. SumOf(f, N \cup M) = SumOf(f, N) + SumOf(f, M)
    BY <1>1, <1>2, <1>10, SumJoin
  <2>3. QED
    BY <1>10, <2>1, <2>2
<1>12. SumOf(f, N) = 0
  BY <1>1, <1>6, SumZero
<1>13. SumOf(g, M) = SumOf(f, M)
  BY <1>1, <1>5, SumSame
<1>14. SumOf(g, N) = SumOf(h, R)
  BY <1>1, <1>7, <1>10, SumWithin
<1>15. SumOf(f, M) \in Int /\ SumOf(h, R) \in Int
  BY <1>1, <1>2, <1>7, <1>10, SumInt
<1>16. QED
  BY <1>8, <1>9, <1>11, <1>12, <1>13, <1>14, <1>15

(* The ledger and the books hold the same for a line after a step.          *)
LEMMA HeldForLine ==
  ASSUME TypeOK', NEW l \in Line, NEW R, R = {r \in Resv : Active(r)' /\ resv'[r].line = l}
  PROVE  Ledger!Pieces(resv', R) = Held(ForLine(l))'
<1> DEFINE P == ForLine(l)
           g == Worth(P)'
           h == [r \in R |-> resv'[r].qty]
<1>1. IsFiniteSet(Resv) /\ IsFiniteSet(R)
  <2>1. IsFiniteSet(Resv)
    BY FS_Interval, OrderStockConstants DEF Resv
  <2>2. R \subseteq Resv
    OBVIOUS
  <2>3. QED
    BY <2>1, <2>2, FS_Subset
<1>2. \A r \in Resv : resv'[r].qty \in Int /\ PartOf(r)' \in Part
  BY DEF TypeOK, ResvRow, PartOf, Part
<1>3. \A r \in Resv : PartOf(r)' \in P <=> resv'[r].line = l
  <2> TAKE r \in Resv
  <2>1. PartOf(r)' = [line |-> resv'[r].line, quant |-> resv'[r].quant, qty |-> resv'[r].qty]
    BY DEF PartOf
  <2>2. PartOf(r)' \in Part
    BY <1>2
  <2>3. QED
    BY <2>1, <2>2 DEF ForLine
<1>4. /\ \A r \in R : h[r] \in Int /\ g[r] = h[r]
      /\ \A r \in Resv \ R : g[r] = 0
  <2>1. \A r \in Resv : g[r] = IF Active(r)' /\ PartOf(r)' \in P THEN resv'[r].qty ELSE 0
    BY DEF Worth, Active
  <2>2. QED
    BY <1>2, <1>3, <2>1
<1>5. Held(P)' = SumOf(g, Resv)
  BY DEF Held, ForLine
<1>6. Ledger!Pieces(resv', R) = SumOf(h, R)
  BY <1>1, LedgerPieces
<1> HIDE DEF g, h, P
<1>7. SumOf(g, Resv) = SumOf(h, R)
  BY <1>1, <1>4, SumWithin
<1>8. QED
  BY <1>5, <1>6, <1>7 DEF P

(* The rows that create and allocate insert, as the ledger sees them.       *)
LEMMA Insertion ==
  ASSUME IInv, Settled, Books, NEW c \in Client, CommitReserve(c) \/ CommitAllocate(c),
         NEW t, t = txn[c],
         NEW N, N = {r \in Resv : resv[r].status = "NONE" /\ resv'[r].status = "ACTIVE"}
  PROVE  /\ \A r \in Resv \ N : resv'[r] = resv[r]
         /\ \A r \in N : resv'[r].order = t.order
<1> DEFINE s == NewReservations(c)
           n == ResvCount
           m == Len(t.made)
<1>1. t \in Txn /\ t.made \in Seq(Part) /\ InsertResv(s) /\ n \in Nat
  BY OnBooks, CountsAreNatural DEF CommitReserve, CommitAllocate
<1>2. m \in Nat /\ Len(s) = m
  BY <1>1 DEF NewReservations
<1>3. \A i \in 1..m : s[i].status = "ACTIVE" /\ s[i].order = t.order
  BY DEF NewReservations
<1>4. \A r \in Resv : resv[r].status # "NONE" <=> r \in 1..n
  BY DEF Settled, Numbered
<1> HIDE DEF s, n, m
<1>5. \A r \in Resv : resv'[r] = IF r - n \in 1..m THEN s[r - n] ELSE resv[r]
  BY <1>1, <1>2 DEF InsertResv, n
<1>6. ASSUME NEW r \in Resv, r - n \in 1..m PROVE r \in N /\ resv'[r].order = t.order
  <2>1. r \notin 1..n
    BY <1>1, <1>2, <1>6 DEF Resv
  <2>2. resv[r].status = "NONE"
    BY <1>4, <2>1
  <2>3. resv'[r].status = "ACTIVE" /\ resv'[r].order = t.order
    BY <1>3, <1>5, <1>6
  <2>4. QED
    BY <2>2, <2>3
<1>7. ASSUME NEW r \in N PROVE r - n \in 1..m
  BY <1>5
<1>8. QED
  BY <1>5, <1>6, <1>7

(* create and allocate leave the shelves alone, and their order is open.    *)
LEMMA InsertStage ==
  ASSUME IInv, Settled, Books, NEW c \in Client, CommitReserve(c) \/ CommitAllocate(c),
         NEW t, t = txn[c]
  PROVE  /\ quantity' = quantity /\ picked' = picked /\ t.order \in Order \cup {0}
         /\ t.order # 0 => Effective(t.order) # "SHIPPED"
         /\ \/ \A o \in Order : Effective(o)' = Effective(o)
            \/ \A o \in Order : Effective(o)' = IF o = t.order /\ Effective(o) = "CREATED"
                                                THEN "ALLOCATED" ELSE Effective(o)
<1>1. t \in Txn /\ Seen(t) /\ Booked(t, dQty[c], dRes[c])
  BY OnBooks
<1>2. PICK op \in {"reserve", "allocate"} : Commit(c, op) /\ t.op = op /\ t.pc = "commit"
  BY DEF CommitReserve, CommitAllocate, Commit
<1>3. /\ picked' = picked /\ fulfil' = fulfil
      /\ \/ status' = status
         \/ op = "allocate" /\ status' = [status EXCEPT ![t.order] = "ALLOCATED"]
  BY <1>2 DEF CommitReserve, CommitAllocate, Commit
<1>4. t.order \in Order \cup {0} /\ (op = "allocate" => t.order \in Order)
  <2>1. t.order \in Order \cup {0}
    BY <1>1, Zenon DEF Txn
  <2>2. op = "allocate" => t.order \in Order
    BY <1>2 DEF Settled, Holds, OnOrder
  <2>3. QED
    BY <2>1, <2>2
<1>5. quantity' = quantity
  <2>1. \A q \in Quant : dQty[c][q] = 0
    BY <1>1, <1>2 DEF Booked
  <2>2. quantity' = [q \in Quant |-> quantity[q] + dQty[c][q]] /\ quantity \in [Quant -> Nat]
    BY <1>2 DEF Commit, IInv, TypeOK
  <2>3. \A q \in Quant : quantity[q] + dQty[c][q] = quantity[q]
    BY <2>1, <2>2
  <2>4. QED
    BY <2>2, <2>3
<1>6. \A o \in Order : /\ fulfil[o] = "UNSET" => status[o] \in {"CREATED", "ALLOCATED"}
                       /\ fulfil[o] = "SHIPPED" => status[o] = "SHIPPED"
  BY DEF Books, RowsSound
<1>7. t.order # 0 => status[t.order] # "SHIPPED"
  BY <1>1, <1>2 DEF Seen, Closed
<1>8. t.order # 0 => Effective(t.order) # "SHIPPED"
  BY <1>4, <1>6, <1>7 DEF Effective
<1>9. \/ \A o \in Order : Effective(o)' = Effective(o)
      \/ \A o \in Order : Effective(o)' = IF o = t.order /\ Effective(o) = "CREATED"
                                          THEN "ALLOCATED" ELSE Effective(o)
  <2>1. CASE status' = status
    BY <1>3, <2>1 DEF Effective
  <2>2. CASE op = "allocate" /\ status' = [status EXCEPT ![t.order] = "ALLOCATED"]
    <3>1. \A o \in Order : status'[o] = IF o = t.order THEN "ALLOCATED" ELSE status[o]
      BY <2>2 DEF IInv, TypeOK
    <3>2. CASE fulfil[t.order] = "UNSET"
      BY <1>3, <1>4, <1>6, <2>2, <3>1, <3>2 DEF Effective
    <3>3. CASE fulfil[t.order] # "UNSET"
      BY <1>3, <2>2, <3>1, <3>3 DEF Effective
    <3>4. QED
      BY <3>2, <3>3
  <2>3. QED
    BY <1>3, <2>1, <2>2
<1>10. QED
  BY <1>3, <1>4, <1>5, <1>8, <1>9

(* create and allocate promise.                                             *)
LEMMA InsertPromises ==
  ASSUME IInv, IInv', Settled, Books, Books', ~LineOverride,
         NEW c \in Client, CommitReserve(c) \/ CommitAllocate(c)
  PROVE  \E o \in Order \cup {0} : Ledger!Promise(o)
<1> PICK t : t = txn[c]
  OBVIOUS
<1> PICK N : N = {r \in Resv : resv[r].status = "NONE" /\ resv'[r].status = "ACTIVE"}
  OBVIOUS
<1>1. /\ \A r \in Resv \ N : resv'[r] = resv[r]
      /\ \A r \in N : resv'[r].order = t.order
  BY Insertion
<1>2. /\ quantity' = quantity /\ picked' = picked /\ t.order \in Order \cup {0}
      /\ t.order # 0 => Effective(t.order) # "SHIPPED"
      /\ \/ \A o \in Order : Effective(o)' = Effective(o)
         \/ \A o \in Order : Effective(o)' = IF o = t.order /\ Effective(o) = "CREATED"
                                             THEN "ALLOCATED" ELSE Effective(o)
  BY InsertStage
<1>3. TypeOK /\ TypeOK' /\ N \subseteq Resv /\ \A r \in N : ~Active(r) /\ resv'[r].status = "ACTIVE"
  BY DEF IInv, Active
<1>4. ASSUME NEW q \in Quant
      PROVE  /\ reserved'[q] = reserved[q] + Ledger!Pieces(resv', {r \in N : resv'[r].quant = q})
             /\ reserved'[q] <= quantity[q]
  <2> PICK P : P = AtQuant(q)
    OBVIOUS
  <2> PICK R : R = {r \in N : resv'[r].quant = q}
    OBVIOUS
  <2>1. ASSUME NEW r \in N PROVE PartOf(r)' \in P <=> resv'[r].quant = q
    <3>1. PartOf(r)' = [line |-> resv'[r].line, quant |-> resv'[r].quant, qty |-> resv'[r].qty]
      BY DEF PartOf
    <3>2. resv'[r] \in ResvRow
      BY <1>3 DEF TypeOK, ResvRow
    <3>3. [line |-> resv'[r].line, quant |-> resv'[r].quant, qty |-> resv'[r].qty] \in Part
      BY <3>2 DEF ResvRow, Part
    <3>4. QED
      BY <3>1, <3>3 DEF AtQuant
  <2>2. NewRows(N) /\ NewIn(R, N, P)
    BY <1>1, <1>3, <2>1 DEF NewRows, NewIn
  <2>3. Held(P)' = Held(P) + Ledger!Pieces(resv', R)
    BY <1>3, <2>2, HeldByNew
  <2>4. reserved[q] = Held(P)
    BY DEF Books, StockBooked
  <2>5. reserved'[q] = Held(AtQuant(q))'
    BY DEF Books, StockBooked
  <2>6. Held(AtQuant(q))' = Held(P)'
    BY DEF Held, Worth
  <2>7. reserved'[q] <= quantity'[q]
    BY DEF IInv, ReservedWithinOnHand
  <2>8. QED
    BY <1>2, <2>3, <2>4, <2>5, <2>6, <2>7
<1>5. ASSUME NEW l \in Line
      PROVE  picked[l] + Ledger!Pieces(resv', {r \in Resv : Active(r)' /\ resv'[r].line = l})
               <= Ordered[l]
  <2> PICK R : R = {r \in Resv : Active(r)' /\ resv'[r].line = l}
    OBVIOUS
  <2>1. Ledger!Pieces(resv', R) = Held(ForLine(l))'
    BY <1>3, HeldForLine
  <2>2. picked'[l] + Held(ForLine(l))' <= Ordered[l]
    BY DEF Books, LinesBooked
  <2>3. QED
    BY <1>2, <2>1, <2>2
<1>6. Ledger!Promise(t.order)
  <2>1. N = {r \in Resv : resv[r].status = "NONE" /\ Ledger!Active(r)'}
    BY DEF Ledger!Active
  <2>2. {r \in Resv : Active(r)'} = {r \in Resv : Ledger!Active(r)'}
    BY DEF Ledger!Active, Active
  <2>3. QED
    BY <1>1, <1>2, <1>4, <1>5, <2>1, <2>2 DEF Ledger!Promise
<1>7. QED
  BY <1>2, <1>6

(* A transaction that takes pieces of one quant takes them from its books.  *)
LEMMA StockTaken ==
  ASSUME IInv, Books, NEW c \in Client, NEW op, Commit(c, op), NEW t, t = txn[c],
         t.op \in {"release", "confirmPick"}, t.pc = "commit", t.made = <<>>,
         NEW q \in Quant, t.plan[1].quant = q, t.qty \in Nat
  PROVE  /\ reserved' = [reserved EXCEPT ![q] = @ - t.qty]
         /\ quantity' = IF t.op = "confirmPick" THEN [quantity EXCEPT ![q] = @ - t.qty] ELSE quantity
<1>1. Booked(t, dQty[c], dRes[c])
  BY OnBooks
<1>2. \A k \in Quant : TakenAt(t, k) = IF k = q THEN t.qty ELSE 0
  BY DEF TakenAt
<1>3. \A k \in Quant : /\ dQty[c][k] = IF t.op = "confirmPick" THEN -TakenAt(t, k) ELSE 0
                       /\ dRes[c][k] = -TakenAt(t, k)
  <2>1. \A k \in Quant : Pieces(AtQuant(k), t.made) = 0
    BY PiecesOfNone
  <2>2. \A k \in Quant : TakenAt(t, k) \in Nat
    BY <1>2
  <2>3. QED
    BY <1>1, <2>1, <2>2 DEF Booked
<1>4. /\ quantity \in [Quant -> Nat] /\ reserved \in [Quant -> Nat]
      /\ quantity' = [k \in Quant |-> quantity[k] + dQty[c][k]]
      /\ reserved' = [k \in Quant |-> reserved[k] + dRes[c][k]]
  BY DEF Commit, IInv, TypeOK
<1> PICK n : n = t.qty
  OBVIOUS
<1>5. \A k \in Quant : reserved[k] + dRes[c][k] = IF k = q THEN reserved[k] - n ELSE reserved[k]
  BY <1>2, <1>3, <1>4
<1>6. \A k \in Quant : quantity[k] + dQty[c][k]
                         = IF t.op = "confirmPick" /\ k = q THEN quantity[k] - n ELSE quantity[k]
  BY <1>2, <1>3, <1>4
<1>7. reserved' = [reserved EXCEPT ![q] = @ - n]
  BY <1>4, <1>5
<1>8. quantity' = IF t.op = "confirmPick" THEN [quantity EXCEPT ![q] = @ - n] ELSE quantity
  <2>1. CASE t.op = "confirmPick"
    BY <1>4, <1>6, <2>1
  <2>2. CASE t.op # "confirmPick"
    BY <1>4, <1>6, <2>2
  <2>3. QED
    BY <2>1, <2>2
<1>9. QED
  BY <1>7, <1>8

(* release and cancel withdraw.                                             *)
LEMMA ReleaseWithdraws ==
  ASSUME IInv, Settled, Books, NEW c \in Client, CommitRelease(c)
  PROVE  \E r \in Resv : Ledger!Withdraw(r)
<1> PICK t : t = txn[c]
  OBVIOUS
<1>1. t \in Txn /\ Ready(t) /\ Planned(t) /\ About(t)
  BY OnBooks
<1>2. Commit(c, "release") /\ t.op = "release" /\ t.pc = "commit"
  BY DEF CommitRelease, Commit
<1>3. /\ t.resv \in Resv /\ t.target \in {"RELEASED", "CANCELLED"} /\ t.made = <<>>
      /\ t.qty = resv[t.resv].qty /\ t.plan[1] = PartOf(t.resv)
  BY <1>1, <1>2 DEF Ready, Planned, About
<1> PICK r \in Resv : r = t.resv
  BY <1>3
<1>4. Active(r)
  <2>1. t.resv # 0
    BY <1>3 DEF Resv
  <2>2. QED
    BY <1>2, <2>1 DEF Settled, Knows
<1>5. resv[r].quant \in Quant /\ t.qty \in Nat /\ t.plan[1].quant = resv[r].quant
  <2>1. resv[r].quant \in Quant
    BY <1>4 DEF Books, RowsSound, Active
  <2>2. t.qty \in Nat /\ t.plan[1].quant = resv[r].quant
    BY <1>3, ResvFacts DEF IInv, PartOf
  <2>3. QED
    BY <2>1, <2>2
<1>6. reserved' = [reserved EXCEPT ![resv[r].quant] = @ - resv[r].qty] /\ quantity' = quantity
  <2> PICK q \in Quant : q = resv[r].quant
    BY <1>5
  <2>1. reserved' = [reserved EXCEPT ![q] = @ - t.qty] /\ quantity' = quantity
    BY <1>2, <1>3, <1>5, StockTaken
  <2>2. QED
    BY <1>3, <2>1
<1>7. /\ resv' = [resv EXCEPT ![r].status = t.target]
      /\ UNCHANGED <<status, fulfil, picked>>
  BY DEF CommitRelease
<1>8. Ledger!Withdraw(r)
  BY <1>3, <1>4, <1>6, <1>7 DEF Ledger!Withdraw, Ledger!Active, Active, Effective
<1>9. QED
  BY <1>8

(* confirmPick takes.                                                       *)
LEMMA PickTakes ==
  ASSUME IInv, IInv', Settled, Books, Books', ~LineOverride, NEW c \in Client, CommitConfirmPick(c)
  PROVE  \E r \in Resv, l \in Line : \E n \in 1..Ordered[l] : Ledger!Take(r, l, n)
<1> PICK t : t = txn[c]
  OBVIOUS
<1>1. PickEffect(c, t)
  BY PickRows
<1>2. /\ t.op = "confirmPick" /\ t.pc = "commit" /\ t.qty \in Nat /\ t.made = <<>>
      /\ t.line \in Line /\ t.resv \in Resv /\ t.order \in Order /\ t.line \in LinesOf(t.order)
      /\ t.plan[1].quant = resv[t.resv].quant /\ resv[t.resv].quant \in Quant
      /\ Active(t.resv) /\ t.qty <= resv[t.resv].qty
      /\ resv' = IF resv[t.resv].qty = t.qty THEN [resv EXCEPT ![t.resv].status = "PICKED"]
                                             ELSE [resv EXCEPT ![t.resv].qty = @ - t.qty]
      /\ picked' = [picked EXCEPT ![t.line] = picked[t.line] + t.qty]
      /\ resv[t.resv].line = t.line
  BY <1>1, Zenon DEF PickEffect
<1>3. /\ Commit(c, "confirmPick")
      /\ IF FullyPicked(t.order, picked') THEN UpdateOrderStatus(t.order, "PICKED")
                                          ELSE UNCHANGED <<status, fulfil>>
  BY DEF CommitConfirmPick
<1> PICK r \in Resv, l \in Line, n \in Nat : r = t.resv /\ l = t.line /\ n = t.qty
  BY <1>2
<1>4. n \in 1..Ordered[l] /\ Effective(t.order) = "PICKING"
  BY <1>2, OnBooks DEF About, Seen
<1>5. t.order = OrderOf[l] /\ resv[r].order = OrderOf[l]
  <2>1. l # 0
    BY DEF Line
  <2>2. QED
    BY <1>2, <2>1 DEF LinesOf, Books, RowsSound, Active
<1>6. picked[l] + n <= Ordered[l]
  <2>1. picked'[l] + Held(ForLine(l))' <= Ordered[l]
    BY DEF Books, LinesBooked
  <2>2. Held(ForLine(l))' \in Nat
    <3> PICK P : P = ForLine(l)
      OBVIOUS
    <3>1. Held(P)' \in Nat
      BY HeldStaysNat DEF IInv
    <3>2. QED
      BY <3>1 DEF Held, Worth
  <2>3. picked'[l] = picked[l] + n
    BY <1>2 DEF IInv, TypeOK
  <2>4. picked[l] \in Nat /\ n \in Nat /\ Ordered[l] \in Nat
    BY <1>2, OrderStockConstants DEF IInv, TypeOK
  <2>5. QED
    BY <2>1, <2>2, <2>3, <2>4
<1>7. /\ reserved' = [reserved EXCEPT ![resv[r].quant] = @ - n]
      /\ quantity' = [quantity EXCEPT ![resv[r].quant] = @ - n]
  <2> PICK q \in Quant : q = resv[r].quant
    BY <1>2
  <2>1. reserved' = [reserved EXCEPT ![q] = @ - t.qty] /\ quantity' = [quantity EXCEPT ![q] = @ - t.qty]
    BY <1>2, <1>3, StockTaken
  <2>2. QED
    BY <2>1
<1>8. [o \in Order |-> Effective(o)]' =
        IF \A k \in Line : OrderOf[k] = OrderOf[l] => picked'[k] >= Ordered[k]
        THEN [[o \in Order |-> Effective(o)] EXCEPT ![OrderOf[l]] = "PICKED"]
        ELSE [o \in Order |-> Effective(o)]
  <2>1. FullyPicked(t.order, picked') <=> \A k \in Line : OrderOf[k] = OrderOf[l] => picked'[k] >= Ordered[k]
    BY <1>5 DEF FullyPicked, LinesOf
  <2>2. CASE FullyPicked(t.order, picked')
    <3>1. /\ status' = [status EXCEPT ![t.order] = "PICKED"]
          /\ fulfil' = [fulfil EXCEPT ![t.order] = "PICKED"]
      BY <1>3, <2>2 DEF UpdateOrderStatus
    <3>2. \A o \in Order : Effective(o)' = IF o = t.order THEN "PICKED" ELSE Effective(o)
      BY <3>1 DEF Effective, IInv, TypeOK
    <3>3. QED
      BY <1>5, <2>1, <2>2, <3>2
  <2>3. CASE ~FullyPicked(t.order, picked')
    <3>1. \A o \in Order : Effective(o)' = Effective(o)
      BY <1>3, <2>3 DEF Effective
    <3>2. QED
      BY <2>1, <2>3, <3>1
  <2>4. QED
    BY <2>2, <2>3
<1>9. picked' = [picked EXCEPT ![l] = @ + n]
  BY <1>2
<1>10. Ledger!Take(r, l, n)
  <2>1. Active(r) /\ n <= resv[r].qty /\ Effective(OrderOf[l]) = "PICKING"
    BY <1>2, <1>4, <1>5
  <2>2. resv' = IF n = resv[r].qty THEN [resv EXCEPT ![r].status = "PICKED"]
                                   ELSE [resv EXCEPT ![r].qty = @ - n]
    BY <1>2
  <2>3. OrderOf[l] \in Order
    BY OrderStockConstants
  <2>4. [o \in Order |-> Effective(o)][OrderOf[l]] = "PICKING"
    BY <2>1, <2>3
  <2>5. QED
    BY <1>5, <1>6, <1>7, <1>8, <1>9, <2>1, <2>2, <2>4 DEF Ledger!Take, Ledger!Active, Active, Ledger!Complete
<1>11. QED
  BY <1>4, <1>10

(* The other transactions take nothing off the shelves.                     *)
LEMMA StockKept ==
  ASSUME IInv, Books, NEW c \in Client, NEW op, Commit(c, op),
         op \in {"releasePicking", "pack", "ship", "task"}
  PROVE  quantity' = quantity /\ reserved' = reserved
<1> PICK t : t = txn[c]
  OBVIOUS
<1>1. Booked(t, dQty[c], dRes[c]) /\ Planned(t) /\ t.op = op
  BY OnBooks DEF Commit
<1>2. t.made = <<>>
  BY <1>1 DEF Planned
<1>3. \A q \in Quant : dQty[c][q] = 0 /\ dRes[c][q] = 0
  <2>1. \A q \in Quant : Pieces(AtQuant(q), t.made) = 0
    BY <1>2, PiecesOfNone
  <2>2. \A q \in Quant : TakenAt(t, q) = 0
    BY <1>1 DEF TakenAt
  <2>3. QED
    BY <1>1, <2>1, <2>2 DEF Booked
<1>4. /\ quantity \in [Quant -> Nat] /\ reserved \in [Quant -> Nat]
      /\ quantity' = [q \in Quant |-> quantity[q] + dQty[c][q]]
      /\ reserved' = [q \in Quant |-> reserved[q] + dRes[c][q]]
  BY DEF Commit, IInv, TypeOK
<1>5. \A q \in Quant : quantity[q] + dQty[c][q] = quantity[q] /\ reserved[q] + dRes[c][q] = reserved[q]
  BY <1>3, <1>4
<1>6. QED
  BY <1>4, <1>5

(* The order moves on from the stage that was read under its lock.          *)
LEMMA StageAdvances ==
  ASSUME IInv, Settled, Books, NEW c \in Client,
         CommitReleasePicking(c) \/ CommitPack(c) \/ CommitShip(c)
  PROVE  \E o \in Order : Ledger!Advance(o)
<1> PICK t : t = txn[c]
  OBVIOUS
<1>1. PICK op \in {"releasePicking", "pack", "ship"} : Commit(c, op) /\ t.op = op /\ t.pc = "commit"
  BY DEF CommitReleasePicking, CommitPack, CommitShip, Commit
<1>2. t.order \in Order
  BY <1>1 DEF Settled, Holds, OnOrder
<1> PICK o \in Order : o = t.order
  BY <1>2
<1> PICK s : s = IF op = "releasePicking" THEN "PICKING" ELSE IF op = "pack" THEN "PACKED" ELSE "SHIPPED"
  OBVIOUS
<1>3. UpdateOrderStatus(o, s) /\ resv' = resv /\ picked' = picked
  BY <1>1 DEF CommitReleasePicking, CommitPack, CommitShip, Commit
<1>4. Effective(o) = IF op = "releasePicking" THEN "ALLOCATED" ELSE IF op = "pack" THEN "PICKED" ELSE "PACKED"
  <2>1. op = "releasePicking" => Effective(o) = "ALLOCATED"
    BY <1>1, OnBooks DEF Seen
  <2>2. op \in {"pack", "ship"} => Effective(o) = IF op = "pack" THEN "PICKED" ELSE "PACKED"
    BY <1>1 DEF Settled, Knows
  <2>3. QED
    BY <2>1, <2>2
<1>5. [x \in Order |-> Effective(x)]' = [[x \in Order |-> Effective(x)] EXCEPT ![o] = s]
  <2>1. /\ status' = [status EXCEPT ![o] = s] /\ fulfil' = [fulfil EXCEPT ![o] = s]
    BY <1>3 DEF UpdateOrderStatus
  <2>2. s # "UNSET"
    OBVIOUS
  <2>3. \A x \in Order : Effective(x)' = IF x = o THEN s ELSE Effective(x)
    BY <2>1, <2>2 DEF Effective, IInv, TypeOK
  <2>4. QED
    BY <2>3
<1>6. quantity' = quantity /\ reserved' = reserved
  BY <1>1, StockKept
<1>7. [x \in Order |-> Effective(x)][o] = Effective(o)
  OBVIOUS
<1>8. Ledger!Advance(o)
  <2>1. UNCHANGED <<quantity, reserved, resv, picked>>
    BY <1>3, <1>6
  <2>2. CASE op = "releasePicking"
    BY <1>4, <1>5, <1>7, <2>1, <2>2 DEF Ledger!Advance
  <2>3. CASE op = "pack"
    BY <1>4, <1>5, <1>7, <2>1, <2>3 DEF Ledger!Advance
  <2>4. CASE op = "ship"
    BY <1>4, <1>5, <1>7, <2>1, <2>4 DEF Ledger!Advance
  <2>5. QED
    BY <2>2, <2>3, <2>4
<1>9. QED
  BY <1>8

(* What shows nowhere in the ledger.                                        *)
LEMMA LedgerStutters ==
  ASSUME UNCHANGED <<quantity, reserved, resv, picked, status, fulfil>>
  PROVE  UNCHANGED Ledger!vars
BY DEF Ledger!vars, Effective

(* Before its commit a transaction changes nothing that others see.         *)
LEMMA OnlyCommitsShow ==
  ASSUME NEW c \in Client, DeskStep(c)
  PROVE  \/ CommitReserve(c) \/ CommitAllocate(c) \/ CommitRelease(c) \/ CommitConfirmPick(c)
         \/ CommitReleasePicking(c) \/ CommitPack(c) \/ CommitShip(c) \/ WriteTask(c)
         \/ UNCHANGED data
<1>1. CASE Reserving(c)
  <2>1. BeginReserve(c) => UNCHANGED data
    BY DEF BeginReserve, Begin
  <2>2. LockOrderToReserve(c) => UNCHANGED data
    BY DEF LockOrderToReserve, LockOrder
  <2>3. CheckRemainingQuantity(c) => UNCHANGED data
    BY DEF CheckRemainingQuantity, CheckRemaining
  <2>4. ReserveStockQuant(c) => UNCHANGED data
    BY DEF ReserveStockQuant
  <2>5. QED
    BY <1>1, <2>1, <2>2, <2>3, <2>4 DEF Reserving
<1>2. CASE Allocating(c)
  <2>1. BeginAllocate(c) => UNCHANGED data
    BY DEF BeginAllocate, Begin
  <2>2. LockOrderToAllocate(c) => UNCHANGED data
    BY DEF LockOrderToAllocate, LockOrder
  <2>3. FindAvailableStockQuants(c) => UNCHANGED data
    BY DEF FindAvailableStockQuants
  <2>4. NextLine(c) => UNCHANGED data
    BY DEF NextLine
  <2>5. QED
    BY <1>2, <2>1, <2>2, <2>3, <2>4 DEF Allocating
<1>3. CASE Releasing(c)
  <2>1. BeginRelease(c) => UNCHANGED data
    BY DEF BeginRelease, Begin
  <2>2. LockOrderToRelease(c) => UNCHANGED data
    BY DEF LockOrderToRelease, LockOrder
  <2>3. LockResvToRelease(c) => UNCHANGED data
    BY DEF LockResvToRelease, LockResv
  <2>4. ReleaseReservedStockQuant(c) => UNCHANGED data
    BY DEF ReleaseReservedStockQuant
  <2>5. QED
    BY <1>3, <2>1, <2>2, <2>3, <2>4 DEF Releasing
<1>4. CASE Picking(c)
  <2>1. BeginConfirmPick(c) => UNCHANGED data
    BY DEF BeginConfirmPick, Begin
  <2>2. LockOrderToPick(c) => UNCHANGED data
    BY DEF LockOrderToPick, LockOrder
  <2>3. LockResvToPick(c) => UNCHANGED data
    BY DEF LockResvToPick, LockResv
  <2>4. ApplyPickToQuant(c) => UNCHANGED data
    BY DEF ApplyPickToQuant
  <2>5. QED
    BY <1>4, <2>1, <2>2, <2>3, <2>4 DEF Picking
<1>5. CASE Staging(c)
  <2>1. ASSUME NEW op, BeginOnOrder(c, op) PROVE UNCHANGED data
    BY <2>1 DEF BeginOnOrder, Begin
  <2>2. LockOrderToReleasePicking(c) => UNCHANGED data
    BY DEF LockOrderToReleasePicking, LockOrder
  <2>3. LockOrderToPack(c) => UNCHANGED data
    BY DEF LockOrderToPack, LockOrder
  <2>4. LockOrderToShip(c) => UNCHANGED data
    BY DEF LockOrderToShip, LockOrder
  <2>5. QED
    BY <1>5, <2>1, <2>2, <2>3, <2>4 DEF Staging
<1>6. CASE Tasking(c)
  <2>1. ReadTask(c) => UNCHANGED data
    BY DEF ReadTask, Begin
  <2>2. ClaimTask(c) => UNCHANGED data
    BY DEF ClaimTask, Begin
  <2>3. LockTask(c) => UNCHANGED data
    BY DEF LockTask
  <2>4. QED
    BY <1>6, <2>1, <2>2, <2>3 DEF Tasking
<1>7. CASE Rollback(c)
  BY <1>7 DEF Rollback
<1>8. QED
  BY <1>1, <1>2, <1>3, <1>4, <1>5, <1>6, <1>7 DEF DeskStep

(* A transaction that names the line of its task does what the ledger does. *)
LEMMA StepsAreLedgerSteps ==
  ASSUME IInv, IInv', Settled, Books, Books', ~LineOverride, [Next]_vars
  PROVE  [Ledger!Next]_(Ledger!vars)
<1>1. ASSUME NEW c \in Client, DeskStep(c) PROVE Ledger!Next \/ UNCHANGED Ledger!vars
  <2>1. CASE CommitReserve(c) \/ CommitAllocate(c)
    BY <2>1, InsertPromises DEF Ledger!Next
  <2>2. CASE CommitRelease(c)
    BY <2>2, ReleaseWithdraws DEF Ledger!Next
  <2>3. CASE CommitConfirmPick(c)
    BY <2>3, PickTakes DEF Ledger!Next
  <2>4. CASE CommitReleasePicking(c) \/ CommitPack(c) \/ CommitShip(c)
    BY <2>4, StageAdvances DEF Ledger!Next
  <2>5. CASE WriteTask(c)
    <3>1. Commit(c, "task") /\ UNCHANGED <<resv, status, fulfil, picked>>
      BY <2>5 DEF WriteTask
    <3>2. quantity' = quantity /\ reserved' = reserved
      BY <3>1, StockKept
    <3>3. QED
      BY <3>1, <3>2, LedgerStutters
  <2>6. CASE UNCHANGED data
    BY <2>6, LedgerStutters DEF data
  <2>7. QED
    BY <1>1, <2>1, <2>2, <2>3, <2>4, <2>5, <2>6, OnlyCommitsShow
<1>2. CASE UNCHANGED vars
  BY <1>2, LedgerStutters DEF vars, data
<1>3. QED
  BY <1>1, <1>2 DEF Next

(* The empty desk is an empty ledger.                                       *)
LEMMA LedgerOpens == ASSUME Init PROVE Ledger!Init
BY DEF Init, Ledger!Init, Effective, NoResv, NoChange

(* Unless a pick names another line than its task's, every behaviour of the *)
(* interleaved transactions is one of the ledger, where each request looks  *)
(* and acts in one step: the row locks of the services are enough to make   *)
(* create, allocate, release, cancel, releasePicking, confirmPick, pack and *)
(* ship atomic as far as stock, reservations, lines and stages can tell.    *)
THEOREM DeskIsALedger == ASSUME ~LineOverride PROVE Spec => LedgerSpec
<1>1. Init => Ledger!Init
  BY LedgerOpens
<1>2. IInv /\ IInv' /\ Settled /\ Books /\ Books' /\ [Next]_vars => [Ledger!Next]_(Ledger!vars)
  BY StepsAreLedgerSteps
<1>3. QED
  BY <1>1, <1>2, StockStaysCovered, DeskStaysSettled, DeskBalances, PTL DEF Spec, LedgerSpec, Ledger!Spec
=============================================================================
