--------------------------- MODULE ServicesProofs ---------------------------
(* The services on the way in and out, for any number of requests and rows:  *)
(* warehouse orders, returns, serial numbers, and shipping beside waves.     *)
EXTENDS Waves, WarehouseOrders, Returns, Serials, SumLemmas, SequenceTheorems

-----------------------------------------------------------------------------
(* Warehouse orders: each transaction writes the order and all its lines.   *)
WorderRow == [st : WorderStatus, lines : [1..WorderLines -> WlineStatus]]
Transition == {"wrelease", "wcomplete", "wcancel"}

WInv ==
  /\ reqs = [c \in Client |-> reqs[c]]
  /\ worder \in Seq(WorderRow)
  /\ \A c \in Client : reqs[c].op \in Transition => reqs[c].order \in DOMAIN worder
  /\ ClosedOrderClosedLines

(* Each transaction replaces a row by one whose lines agree with it, and a  *)
(* request keeps the order it names.                                        *)
LEMMA WorderWritten ==
  ASSUME WInv, NEW o \in DOMAIN worder, NEW row \in WorderRow,
         worder' = [worder EXCEPT ![o] = row], NEW c \in Client,
         reqs' = [reqs EXCEPT ![c] = NoReq],
         \A i \in 1..WorderLines : /\ row.st = "COMPLETED" => row.lines[i] = "DONE"
                                   /\ row.st = "CANCELLED" => row.lines[i] \in {"DONE", "CANCELLED"}
  PROVE  WInv'
<1>1. worder' \in Seq(WorderRow) /\ DOMAIN worder' = DOMAIN worder
  BY ExceptSeq DEF WInv
<1>2. \A p \in DOMAIN worder : worder'[p] = IF p = o THEN row ELSE worder[p]
  OBVIOUS
<1>3. ClosedOrderClosedLines'
  BY <1>1, <1>2 DEF WInv, ClosedOrderClosedLines
<1>4. \A d \in Client : reqs'[d] = IF d = c THEN NoReq ELSE reqs[d]
  BY DEF WInv
<1>5. reqs' = [d \in Client |-> reqs'[d]]
  BY DEF WInv
<1>6. \A d \in Client : reqs'[d].op \in Transition => reqs'[d].order \in DOMAIN worder'
  BY <1>1, <1>4 DEF WInv, NoReq, Transition
<1>7. QED
  BY <1>1, <1>3, <1>5, <1>6 DEF WInv

(* A request that writes no order begins, moves on or ends.                 *)
LEMMA WorderStays ==
  ASSUME WInv, worder' = worder, NEW c \in Client, NEW r, reqs' = [reqs EXCEPT ![c] = r],
         r.op \in Transition => r.order \in DOMAIN worder
  PROVE  WInv'
<1>1. \A d \in Client : reqs'[d] = IF d = c THEN r ELSE reqs[d]
  BY DEF WInv
<1>2. reqs' = [d \in Client |-> reqs'[d]]
  BY DEF WInv
<1>3. QED
  BY <1>1, <1>2 DEF WInv, ClosedOrderClosedLines

(* No order and no request.                                                 *)
LEMMA WorderInitial == ReqInit /\ WorderInit => WInv
BY DEF ReqInit, WorderInit, WInv, NoReq, Transition, ClosedOrderClosedLines, WorderRow

(* Step by step.                                                            *)
LEMMA WorderInductive == WInv /\ [WorderNext]_<<reqVars, worderVars>> => WInv'
<1> SUFFICES ASSUME WInv, [WorderNext]_<<reqVars, worderVars>> PROVE WInv'
  OBVIOUS
<1> USE WorderConstants
<1>1. ASSUME CreateOrder PROVE WInv'
  <2> DEFINE row == [st |-> "DRAFT", lines |-> AllLines("OPEN")]
  <2>1. row \in WorderRow
    BY DEF WorderRow, WorderStatus, WlineStatus, AllLines
  <2>2. worder' = Append(worder, row) /\ reqs' = reqs /\ row.st = "DRAFT"
    BY <1>1 DEF CreateOrder, Once
  <2> HIDE DEF row
  <2>3. worder' \in Seq(WorderRow) /\ DOMAIN worder' = DOMAIN worder \cup {Len(worder) + 1}
    BY <2>1, <2>2 DEF WInv
  <2>4. /\ \A p \in DOMAIN worder : worder'[p] = worder[p]
        /\ worder'[Len(worder) + 1] = row
    BY <2>1, <2>2 DEF WInv
  <2>5. ClosedOrderClosedLines'
    BY <2>2, <2>3, <2>4 DEF WInv, ClosedOrderClosedLines
  <2>6. QED
    BY <2>2, <2>3, <2>5 DEF WInv
<1>2. ASSUME NEW c \in Client, NEW o \in DOMAIN worder, BeginTransition(c, o) PROVE WInv'
  <2>1. PICK op \in Transition : Begin(c, [op |-> op, pc |-> "commit", order |-> o]) /\ worder' = worder
    BY <1>2 DEF BeginTransition, Transition, worderVars
  <2> DEFINE r == [op |-> op, pc |-> "commit", order |-> o]
  <2>2. reqs' = [reqs EXCEPT ![c] = r] /\ r.order \in DOMAIN worder
    BY <2>1 DEF Begin
  <2> HIDE DEF r
  <2>3. QED
    BY <2>1, <2>2, WorderStays
<1>3. ASSUME NEW c \in Client, ReleaseOrder(c) PROVE WInv'
  <2> DEFINE row == [st |-> "RELEASED", lines |-> AllLines("IN_PROGRESS")]
  <2>1. reqs[c].order \in DOMAIN worder
    BY <1>3 DEF ReleaseOrder, At, WInv, Transition
  <2>2. row \in WorderRow /\ row.st = "RELEASED"
    BY DEF WorderRow, WorderStatus, WlineStatus, AllLines
  <2>3. worder' = [worder EXCEPT ![reqs[c].order] = row] /\ reqs' = [reqs EXCEPT ![c] = NoReq]
    BY <1>3 DEF ReleaseOrder, Finish, Advance
  <2> HIDE DEF row
  <2>4. QED
    BY <2>1, <2>2, <2>3, WorderWritten
<1>4. ASSUME NEW c \in Client, CompleteOrder(c) PROVE WInv'
  <2> DEFINE row == [st |-> "COMPLETED", lines |-> AllLines("DONE")]
  <2>1. reqs[c].order \in DOMAIN worder
    BY <1>4 DEF CompleteOrder, At, WInv, Transition
  <2>2. row \in WorderRow /\ row.st = "COMPLETED" /\ \A i \in 1..WorderLines : row.lines[i] = "DONE"
    BY DEF WorderRow, WorderStatus, WlineStatus, AllLines
  <2>3. worder' = [worder EXCEPT ![reqs[c].order] = row] /\ reqs' = [reqs EXCEPT ![c] = NoReq]
    BY <1>4 DEF CompleteOrder, Finish, Advance
  <2> HIDE DEF row
  <2>4. QED
    BY <2>1, <2>2, <2>3, WorderWritten
<1>5. ASSUME NEW c \in Client, CancelOrder(c) PROVE WInv'
  <2> DEFINE old == worder[reqs[c].order].lines
             row == [st |-> "CANCELLED", lines |-> [i \in 1..WorderLines |->
                       IF old[i] = "DONE" THEN "DONE" ELSE "CANCELLED"]]
  <2>1. reqs[c].order \in DOMAIN worder
    BY <1>5 DEF CancelOrder, At, WInv, Transition
  <2>2. /\ row \in WorderRow /\ row.st = "CANCELLED"
        /\ \A i \in 1..WorderLines : row.lines[i] \in {"DONE", "CANCELLED"}
    BY DEF WorderRow, WorderStatus, WlineStatus
  <2>3. worder' = [worder EXCEPT ![reqs[c].order] = row] /\ reqs' = [reqs EXCEPT ![c] = NoReq]
    BY <1>5 DEF CancelOrder, Finish, Advance
  <2> HIDE DEF row
  <2>4. QED
    BY <2>1, <2>2, <2>3, WorderWritten
<1>6. ASSUME NEW c \in Client, StartTask(c) \/ (Abort(c) /\ UNCHANGED worderVars) PROVE WInv'
  <2>1. worder' = worder /\ reqs' = [reqs EXCEPT ![c] = NoReq]
    BY <1>6 DEF StartTask, Abort, Finish, Advance, worderVars
  <2>2. NoReq.op \notin Transition
    BY DEF NoReq, Transition
  <2>3. QED
    BY <2>1, <2>2, WorderStays
<1>7. ASSUME NEW c \in Client, NEW t \in DOMAIN wtask, BeginStart(c, t) PROVE WInv'
  <2> DEFINE r == [op |-> "wstart", pc |-> "commit", task |-> t]
  <2>1. worder' = worder /\ reqs' = [reqs EXCEPT ![c] = r] /\ r.op \notin Transition
    BY <1>7 DEF BeginStart, Begin, worderVars, Transition
  <2> HIDE DEF r
  <2>2. QED
    BY <2>1, WorderStays
<1>8. CASE UNCHANGED <<reqVars, worderVars>>
  BY <1>8 DEF reqVars, worderVars, WInv, ClosedOrderClosedLines
<1>9. QED
  BY <1>1, <1>2, <1>3, <1>4, <1>5, <1>6, <1>7, <1>8 DEF WorderNext, WorderStep

(* Whichever of release, complete and cancel commits last, the lines agree  *)
(* with the order.                                                          *)
THEOREM ClosedOrdersClosedLines == WorderSpec => []ClosedOrderClosedLines
<1>1. WInv => ClosedOrderClosedLines
  BY DEF WInv
<1>2. QED
  BY <1>1, WorderInitial, WorderInductive, PTL DEF WorderSpec

-----------------------------------------------------------------------------
(* The rows of a table, some of them rewritten where they stand.            *)
LEMMA RowsRewritten ==
  ASSUME NEW R, NEW Q, NEW f \in Seq(R), NEW g, g = [i \in DOMAIN f |-> g[i]],
         \A i \in DOMAIN f : g[i] \in Q
  PROVE  g \in Seq(Q) /\ Len(g) = Len(f) /\ DOMAIN g = DOMAIN f
<1>1. Len(f) \in Nat /\ DOMAIN f = 1..Len(f)
  BY LenProperties
<1>2. g \in [1..Len(f) -> Q]
  BY <1>1
<1>3. g \in Seq(Q) /\ Len(g) = Len(f)
  BY <1>1, <1>2
<1>4. QED
  BY <1>1, <1>3, LenProperties

(* and some inserted after them.                                            *)
LEMMA RowsInserted ==
  ASSUME NEW R, NEW f \in Seq(R), NEW g \in Seq(R), NEW h, h = f \o g
  PROVE  /\ h \in Seq(R) /\ Len(h) = Len(f) + Len(g)
         /\ DOMAIN f \subseteq DOMAIN h
         /\ \A i \in DOMAIN f : h[i] = f[i]
         /\ \A i \in DOMAIN h : i \notin DOMAIN f => i - Len(f) \in DOMAIN g /\ h[i] = g[i - Len(f)]
<1>1. /\ Len(f) \in Nat /\ Len(g) \in Nat /\ DOMAIN f = 1..Len(f) /\ DOMAIN g = 1..Len(g)
  BY LenProperties
<1>2. /\ h \in Seq(R) /\ Len(h) = Len(f) + Len(g)
      /\ \A i \in 1..(Len(f) + Len(g)) : h[i] = IF i <= Len(f) THEN f[i] ELSE g[i - Len(f)]
  BY ConcatProperties
<1>3. DOMAIN h = 1..(Len(f) + Len(g))
  BY <1>2, LenProperties
<1>4. QED
  BY <1>1, <1>2, <1>3

(* The linked tasks name a line of an order.                                *)
WtaskRow == [order : Nat, line : 1..WorderLines, st : WtaskStatus]
WTyped   == wtask \in Seq(WtaskRow) /\ \A t \in DOMAIN wtask : wtask[t].order \in DOMAIN worder

(* Typed so, the rows have the types of the service.                        *)
LEMMA WorderTyped == WInv /\ WTyped => WorderTypeOK
<1> SUFFICES ASSUME WInv, WTyped PROVE WorderTypeOK
  OBVIOUS
<1>1. \A o \in DOMAIN worder : worder[o] \in WorderRow
  BY ElementOfSeq, LenProperties DEF WInv
<1>2. ASSUME NEW t \in DOMAIN wtask
      PROVE  wtask[t] \in [order : DOMAIN worder, line : 1..WorderLines, st : WtaskStatus]
  <2>1. wtask[t] \in WtaskRow /\ wtask[t].order \in DOMAIN worder
    BY ElementOfSeq, LenProperties DEF WTyped
  <2>2. QED
    BY <2>1 DEF WtaskRow
<1>3. QED
  BY <1>1, <1>2 DEF WorderTypeOK, WorderRow

(* Orders are never deleted.                                                *)
LEMMA WordersStay == WInv /\ [WorderNext]_<<reqVars, worderVars>> => DOMAIN worder \subseteq DOMAIN worder'
<1> SUFFICES ASSUME WInv, [WorderNext]_<<reqVars, worderVars>> PROVE DOMAIN worder \subseteq DOMAIN worder'
  OBVIOUS
<1>1. ASSUME CreateOrder PROVE DOMAIN worder \subseteq DOMAIN worder'
  <2> DEFINE row == [st |-> "DRAFT", lines |-> AllLines("OPEN")]
  <2>1. row \in WorderRow /\ worder' = Append(worder, row)
    BY <1>1 DEF CreateOrder, WorderRow, WorderStatus, WlineStatus, AllLines
  <2> HIDE DEF row
  <2>2. QED
    BY <2>1 DEF WInv
<1>2. ASSUME NEW c \in Client, ReleaseOrder(c) \/ CompleteOrder(c) \/ CancelOrder(c)
      PROVE  DOMAIN worder \subseteq DOMAIN worder'
  BY <1>2 DEF ReleaseOrder, CompleteOrder, CancelOrder
<1>3. ASSUME UNCHANGED worder PROVE DOMAIN worder \subseteq DOMAIN worder'
  BY <1>3
<1>4. QED
  BY <1>1, <1>2, <1>3, Zenon
     DEF WorderNext, WorderStep, StartTask, BeginTransition, BeginStart, worderVars

(* The status of a task is all that changes once it is linked.              *)
LEMMA WorderTypesKept == WInv /\ WTyped /\ [WorderNext]_<<reqVars, worderVars>> => WTyped'
<1> SUFFICES ASSUME WInv, WTyped, [WorderNext]_<<reqVars, worderVars>> PROVE WTyped'
  OBVIOUS
<1>a. /\ wtask \in Seq(WtaskRow) /\ Len(wtask) \in Nat /\ DOMAIN wtask = 1..Len(wtask)
      /\ \A t \in DOMAIN wtask : wtask[t] \in WtaskRow /\ wtask[t].order \in DOMAIN worder
      /\ DOMAIN worder \subseteq DOMAIN worder'
  BY ElementOfSeq, LenProperties, WordersStay DEF WTyped
<1>b. \A q \in WtaskRow, st \in WtaskStatus : /\ [q EXCEPT !.st = st] \in WtaskRow
                                              /\ [q EXCEPT !.st = st].order = q.order
  BY DEF WtaskRow
<1>c. ASSUME NEW g, g = [t \in DOMAIN wtask |-> g[t]],
             \A t \in DOMAIN wtask : g[t] = wtask[t] \/ \E st \in WtaskStatus : g[t] = [wtask[t] EXCEPT !.st = st],
             wtask' = g
      PROVE  WTyped'
  <2>1. ASSUME NEW t \in DOMAIN wtask PROVE g[t] \in WtaskRow /\ g[t].order = wtask[t].order
    <3>1. wtask[t] \in WtaskRow
      BY <1>a
    <3>2. CASE g[t] = wtask[t]
      BY <3>1, <3>2
    <3>3. ASSUME NEW st \in WtaskStatus, g[t] = [wtask[t] EXCEPT !.st = st]
          PROVE  g[t] \in WtaskRow /\ g[t].order = wtask[t].order
      BY <1>b, <3>1, <3>3, Zenon
    <3>4. QED
      BY <1>c, <3>2, <3>3, Zenon
  <2>2. g \in Seq(WtaskRow) /\ DOMAIN g = DOMAIN wtask
    BY <1>a, <1>c, <2>1, RowsRewritten
  <2>3. QED
    BY <1>a, <1>c, <2>1, <2>2 DEF WTyped
<1>1. ASSUME NEW c \in Client, ReleaseOrder(c) PROVE WTyped'
  <2>1. reqs[c].order \in DOMAIN worder
    BY <1>1 DEF ReleaseOrder, At, WInv, Transition
  <2>2. reqs[c].order \in Nat
    BY <2>1, LenProperties DEF WInv
  <2> DEFINE g == [i \in 1..WorderLines |-> [order |-> reqs[c].order, line |-> i, st |-> "OPEN"]]
  <2>3. \A i \in 1..WorderLines : g[i] \in WtaskRow /\ g[i].order = reqs[c].order
    BY <2>2 DEF WtaskRow, WtaskStatus
  <2>4. g = [i \in 1..WorderLines |-> g[i]]
    OBVIOUS
  <2>5. wtask' = wtask \o g
    BY <1>1 DEF ReleaseOrder
  <2> HIDE DEF g
  <2>6. g \in Seq(WtaskRow) /\ DOMAIN g = 1..WorderLines
    <3>1. g \in [1..WorderLines -> WtaskRow] /\ WorderLines \in Nat
      BY <2>3, <2>4, WorderConstants
    <3>2. QED
      BY <3>1
  <2>7. /\ wtask' \in Seq(WtaskRow)
        /\ \A t \in DOMAIN wtask : wtask'[t] = wtask[t]
        /\ \A t \in DOMAIN wtask' : t \notin DOMAIN wtask => t - Len(wtask) \in DOMAIN g /\ wtask'[t] = g[t - Len(wtask)]
    <3>1. PICK h : h = wtask \o g
      OBVIOUS
    <3>2. wtask \in Seq(WtaskRow) /\ g \in Seq(WtaskRow) /\ wtask' = h
      BY <1>a, <2>5, <2>6, <3>1
    <3>3. /\ h \in Seq(WtaskRow)
          /\ \A i \in DOMAIN wtask : h[i] = wtask[i]
          /\ \A i \in DOMAIN h : i \notin DOMAIN wtask => i - Len(wtask) \in DOMAIN g /\ h[i] = g[i - Len(wtask)]
      BY <3>1, <3>2, RowsInserted
    <3>4. QED
      BY <3>2, <3>3, Zenon
  <2>8. ASSUME NEW t \in DOMAIN wtask' PROVE wtask'[t].order \in DOMAIN worder
    <3>1. CASE t \in DOMAIN wtask
      BY <1>a, <2>7, <3>1
    <3>2. CASE t \notin DOMAIN wtask
      BY <2>1, <2>3, <2>6, <2>7, <3>2
    <3>3. QED
      BY <3>1, <3>2
  <2>9. QED
    BY <1>a, <2>7, <2>8 DEF WTyped
<1>2. ASSUME NEW o, NEW S, NEW st \in WtaskStatus, wtask' = LinkedTasks(o, S, st) PROVE WTyped'
  <2>1. /\ LinkedTasks(o, S, st) = [t \in DOMAIN wtask |-> LinkedTasks(o, S, st)[t]]
        /\ \A t \in DOMAIN wtask : \/ LinkedTasks(o, S, st)[t] = wtask[t]
                                   \/ LinkedTasks(o, S, st)[t] = [wtask[t] EXCEPT !.st = st]
    BY DEF LinkedTasks
  <2>2. QED
    BY <1>2, <1>c, <2>1
<1>3. ASSUME NEW c \in Client, CompleteOrder(c) \/ CancelOrder(c) PROVE WTyped'
  BY <1>2, <1>3 DEF CompleteOrder, CancelOrder, WtaskStatus
<1>4. ASSUME NEW c \in Client, StartTask(c) PROVE WTyped'
  <2>1. PICK g : g = [wtask EXCEPT ![reqs[c].task].st = "IN_PROGRESS"]
    OBVIOUS
  <2>2. /\ g = [t \in DOMAIN wtask |-> g[t]]
        /\ \A t \in DOMAIN wtask : g[t] = wtask[t] \/ g[t] = [wtask[t] EXCEPT !.st = "IN_PROGRESS"]
    BY <2>1
  <2>3. wtask' = g /\ "IN_PROGRESS" \in WtaskStatus
    BY <1>4, <2>1 DEF StartTask, WtaskStatus
  <2>4. QED
    BY <1>c, <2>2, <2>3
<1>5. ASSUME UNCHANGED wtask PROVE WTyped'
  BY <1>5, <1>a DEF WTyped
<1>6. QED
  BY <1>1, <1>3, <1>4, <1>5, Zenon
     DEF WorderNext, WorderStep, CreateOrder, BeginTransition, BeginStart, worderVars

(* Warehouse orders, their lines and the tasks linked to them are well      *)
(* formed: a task names an order there is, whatever request releases it.    *)
THEOREM WorderTypeCorrect == WorderSpec => []WorderTypeOK
<1>1. WorderInit => WTyped
  BY DEF WorderInit, WTyped
<1>2. QED
  BY <1>1, WorderInitial, WorderInductive, WorderTypesKept, WorderTyped, PTL DEF WorderSpec

-----------------------------------------------------------------------------
(* Returns: what a request is going to write was right when it read.        *)
RlineRow == [rec : Nat, ins : Nat, disp : BOOLEAN, st : RLineStatus]

Inspecting(r) ==
  /\ r = [op |-> "inspect", pc |-> r.pc, line |-> r.line, n |-> r.n, key |-> r.key, ins |-> r.ins]
  /\ r.line \in RLine /\ r.ins \in 0..Expected[r.line]

RInv ==
  /\ reqs = [c \in Client |-> reqs[c]]
  /\ rline \in [RLine -> RlineRow]
  /\ \A c \in Client :
       /\ reqs[c].op = "receive" =>
            /\ reqs[c].line \in RLine /\ reqs[c].rec \in 0..Expected[reqs[c].line]
            /\ reqs[c].st \in RLineStatus
       /\ reqs[c].op = "inspect" => Inspecting(reqs[c])
  /\ ReturnWithinExpected

(* A request that begins, moves on or ends, with one line perhaps written.  *)
LEMMA ReturnStep ==
  ASSUME RInv, NEW c \in Client, NEW r, reqs' = [reqs EXCEPT ![c] = r],
         NEW i \in RLine, NEW row \in RlineRow, rline' = [rline EXCEPT ![i] = row],
         row.rec <= Expected[i], row.ins <= Expected[i],
         r.op = "receive" => /\ r.line \in RLine /\ r.rec \in 0..Expected[r.line]
                             /\ r.st \in RLineStatus,
         r.op = "inspect" => Inspecting(r)
  PROVE  RInv'
<1>1. \A d \in Client : reqs'[d] = IF d = c THEN r ELSE reqs[d]
  BY DEF RInv
<1>2. reqs' = [d \in Client |-> reqs'[d]]
  BY DEF RInv
<1>3. \A j \in RLine : rline'[j] = IF j = i THEN row ELSE rline[j]
  BY DEF RInv
<1>4. rline' \in [RLine -> RlineRow]
  BY DEF RInv
<1>5. ReturnWithinExpected'
  BY <1>3 DEF RInv, ReturnWithinExpected
<1>6. QED
  BY <1>1, <1>2, <1>4, <1>5 DEF RInv

(* The same when no line is written.                                        *)
LEMMA LinesStay ==
  ASSUME RInv, NEW c \in Client, NEW r, reqs' = [reqs EXCEPT ![c] = r], rline' = rline,
         r.op = "receive" => /\ r.line \in RLine /\ r.rec \in 0..Expected[r.line]
                             /\ r.st \in RLineStatus,
         r.op = "inspect" => Inspecting(r)
  PROVE  RInv'
<1>1. \A d \in Client : reqs'[d] = IF d = c THEN r ELSE reqs[d]
  BY DEF RInv
<1>2. reqs' = [d \in Client |-> reqs'[d]]
  BY DEF RInv
<1>3. QED
  BY <1>1, <1>2 DEF RInv, ReturnWithinExpected

(* Nothing is received and nothing inspected.                               *)
LEMMA ReturnsInitial == ReqInit /\ ReturnsInit => RInv
<1> SUFFICES ASSUME ReqInit, ReturnsInit PROVE RInv
  OBVIOUS
<1>1. \A i \in RLine : Expected[i] \in Nat
  BY ReturnConstants DEF RLine
<1>2. QED
  BY <1>1 DEF ReqInit, ReturnsInit, RInv, NoReq, RlineRow, RLineStatus, ReturnWithinExpected

(* Statement by statement.                                                  *)
LEMMA ReturnsInductive == RInv /\ [ReturnsNext]_<<reqVars, returnVars>> => RInv'
<1> SUFFICES ASSUME RInv, [ReturnsNext]_<<reqVars, returnVars>> PROVE RInv'
  OBVIOUS
<1>0. \A i \in RLine : /\ Expected[i] \in Nat /\ rline[i] \in RlineRow
                       /\ rline[i].rec <= Expected[i] /\ rline[i].ins <= Expected[i]
  BY ReturnConstants DEF RLine, RInv, ReturnWithinExpected
<1>1. ASSUME NEW c \in Client, NEW i \in RLine, BeginReceive(c, i) PROVE RInv'
  <2>1. PICK n \in 1..Expected[i] :
          /\ rline[i].rec + n <= Expected[i]
          /\ Begin(c, [op |-> "receive", pc |-> "line", line |-> i, rec |-> rline[i].rec + n,
                 st |-> NextLineStatus(i, rline[i].rec + n, rline[i].ins, rline[i].disp)])
          /\ UNCHANGED returnVars
    BY <1>1 DEF BeginReceive
  <2>2. PICK st : st = NextLineStatus(i, rline[i].rec + n, rline[i].ins, rline[i].disp)
    OBVIOUS
  <2>3. st \in RLineStatus
    BY <2>2 DEF NextLineStatus, RLineStatus
  <2> DEFINE r == [op |-> "receive", pc |-> "line", line |-> i, rec |-> rline[i].rec + n, st |-> st]
  <2>4. reqs' = [reqs EXCEPT ![c] = r] /\ rline' = rline
    BY <2>1, <2>2 DEF Begin, returnVars
  <2>5. r.op = "receive" /\ r.line \in RLine /\ r.rec \in 0..Expected[r.line] /\ r.st \in RLineStatus
    BY <1>0, <2>1, <2>3 DEF RlineRow
  <2> HIDE DEF r
  <2>6. QED
    BY <2>4, <2>5, LinesStay
<1>2. ASSUME NEW c \in Client, NEW i \in RLine, BeginInspect(c, i) PROVE RInv'
  <2>1. PICK n \in 1..Expected[i], s \in StockStatus : \E a \in 0..n :
          /\ rline[i].rec > 0 /\ n <= rline[i].rec - rline[i].ins
          /\ Begin(c, [op |-> "inspect", pc |-> IF s # "none" /\ a > 0 THEN "stock" ELSE "line",
                 line |-> i, n |-> a, key |-> <<s, a>>, ins |-> rline[i].ins + n])
          /\ UNCHANGED returnVars
    BY <1>2 DEF BeginInspect
  <2>2. PICK a \in 0..n :
          /\ n <= rline[i].rec - rline[i].ins
          /\ Begin(c, [op |-> "inspect", pc |-> IF s # "none" /\ a > 0 THEN "stock" ELSE "line",
                 line |-> i, n |-> a, key |-> <<s, a>>, ins |-> rline[i].ins + n])
          /\ UNCHANGED returnVars
    BY <2>1
  <2> DEFINE r == [op |-> "inspect", pc |-> IF s # "none" /\ a > 0 THEN "stock" ELSE "line",
                   line |-> i, n |-> a, key |-> <<s, a>>, ins |-> rline[i].ins + n]
  <2>3. reqs' = [reqs EXCEPT ![c] = r] /\ rline' = rline
    BY <2>2 DEF Begin, returnVars
  <2>4. r.op = "inspect" /\ Inspecting(r)
    BY <1>0, <2>2 DEF RlineRow, Inspecting
  <2> HIDE DEF r
  <2>5. QED
    BY <2>3, <2>4, LinesStay
<1>3. ASSUME NEW c \in Client, WriteReceived(c) PROVE RInv'
  <2>1. PICK i \in RLine : i = reqs[c].line
    BY <1>3 DEF WriteReceived, At, RInv
  <2> DEFINE row == [rline[i] EXCEPT !.rec = reqs[c].rec, !.st = reqs[c].st]
  <2>2. reqs[c].rec \in 0..Expected[i] /\ reqs[c].st \in RLineStatus
    BY <1>3, <2>1 DEF WriteReceived, At, RInv
  <2>3. row \in RlineRow /\ row.rec <= Expected[i] /\ row.ins <= Expected[i]
    <3>1. PICK x : x = reqs[c].rec
      OBVIOUS
    <3>2. PICK st \in RLineStatus : st = reqs[c].st
      BY <2>2
    <3>3. x \in Nat /\ x <= Expected[i]
      BY <1>0, <2>2, <3>1
    <3>4. row = [rline[i] EXCEPT !.rec = x, !.st = st]
      BY <3>1, <3>2
    <3>5. QED
      BY <1>0, <3>3, <3>4 DEF RlineRow
  <2>4. rline' = [rline EXCEPT ![i] = row]
    BY <1>3, <2>1 DEF WriteReceived, RInv
  <2>5. reqs' = [reqs EXCEPT ![c] = Refreshing]
    BY <1>3 DEF WriteReceived, Advance
  <2>6. Refreshing.op \notin {"receive", "inspect"}
    BY DEF Refreshing
  <2> HIDE DEF row
  <2>7. QED
    BY <2>3, <2>4, <2>5, <2>6, ReturnStep
<1>4. ASSUME NEW c \in Client, AddStock(c) \/ PostMovement(c) PROVE RInv'
  <2>1. PICK pc \in {"movement", "line"} :
          rline' = rline /\ reqs' = [reqs EXCEPT ![c] = [reqs[c] EXCEPT !.pc = pc]]
    BY <1>4 DEF AddStock, PostMovement, Advance
  <2> DEFINE r == [reqs[c] EXCEPT !.pc = pc]
  <2>2. reqs[c].op = "inspect" /\ Inspecting(reqs[c])
    BY <1>4 DEF AddStock, PostMovement, At, RInv
  <2>3. r.op = "inspect" /\ Inspecting(r)
    BY <2>2 DEF Inspecting
  <2>4. reqs' = [reqs EXCEPT ![c] = r]
    BY <2>1
  <2> HIDE DEF r
  <2>5. QED
    BY <2>1, <2>3, <2>4, LinesStay
<1>5. ASSUME NEW c \in Client, WriteInspected(c) PROVE RInv'
  <2>1. PICK i \in RLine : i = reqs[c].line
    BY <1>5 DEF WriteInspected, At, RInv, Inspecting
  <2> DEFINE row == [rline[i] EXCEPT !.ins = reqs[c].ins, !.disp = TRUE, !.st = "CLOSED"]
  <2>2. reqs[c].ins \in 0..Expected[i]
    BY <1>5, <2>1 DEF WriteInspected, At, RInv, Inspecting
  <2>3. row \in RlineRow /\ row.rec <= Expected[i] /\ row.ins <= Expected[i]
    <3>1. PICK x : x = reqs[c].ins
      OBVIOUS
    <3>2. x \in Nat /\ x <= Expected[i]
      BY <1>0, <2>2, <3>1
    <3>3. row = [rline[i] EXCEPT !.ins = x, !.disp = TRUE, !.st = "CLOSED"]
      BY <3>1
    <3>4. QED
      BY <1>0, <3>2, <3>3 DEF RlineRow, RLineStatus
  <2>4. rline' = [rline EXCEPT ![i] = row]
    BY <1>5, <2>1 DEF WriteInspected, RInv
  <2>5. reqs' = [reqs EXCEPT ![c] = Refreshing]
    BY <1>5 DEF WriteInspected, Advance
  <2>6. Refreshing.op \notin {"receive", "inspect"}
    BY DEF Refreshing
  <2> HIDE DEF row
  <2>7. QED
    BY <2>3, <2>4, <2>5, <2>6, ReturnStep
<1>6. ASSUME NEW c \in Client, ReadLines(c) PROVE RInv'
  <2> DEFINE r == [op |-> "refreshReturn", pc |-> "write", st |-> NextOrderStatus]
  <2>1. rline' = rline /\ reqs' = [reqs EXCEPT ![c] = r] /\ r.op = "refreshReturn"
    BY <1>6 DEF ReadLines, Advance, returnVars
  <2> HIDE DEF r
  <2>2. QED
    BY <2>1, LinesStay
<1>7. ASSUME NEW c \in Client, WriteOrderStatus(c) \/ (Abort(c) /\ UNCHANGED returnVars) PROVE RInv'
  <2>1. rline' = rline /\ reqs' = [reqs EXCEPT ![c] = NoReq] /\ NoReq.op = "none"
    BY <1>7 DEF WriteOrderStatus, Abort, Finish, Advance, returnVars, NoReq
  <2>2. QED
    BY <2>1, LinesStay
<1>8. CASE UNCHANGED <<reqVars, returnVars>>
  BY <1>8 DEF reqVars, returnVars, RInv, ReturnWithinExpected
<1>9. QED
  BY <1>1, <1>2, <1>3, <1>4, <1>5, <1>6, <1>7, <1>8 DEF ReturnsNext, ReturnsStep

(* Absolute quantities overwrite each other, and no line ever says that     *)
(* more was received or inspected than the return announced.                *)
THEOREM ReturnsStayWithinExpected == ReturnsSpec => []ReturnWithinExpected
<1>1. RInv => ReturnWithinExpected
  BY DEF RInv
<1>2. QED
  BY <1>1, ReturnsInitial, ReturnsInductive, PTL DEF ReturnsSpec

-----------------------------------------------------------------------------
(* What requests have added to the stock of a line and not yet posted as a  *)
(* movement: a request may die in between, a movement may be posted already.*)
StockRow  == [stock : Nat, posted : Nat, keys : SUBSET (StockStatus \X Nat)]
Moving(i) == {c \in Client : reqs[c].op = "inspect" /\ reqs[c].pc = "movement" /\ reqs[c].line = i}
Carried   == [c \in Client |-> reqs[c].n]
Owed(i)   == SumOf(Carried, Moving(i))

(* What a request of the service brings along.                              *)
Brings(r) == /\ r.op = "inspect" => r.n \in Nat /\ r.key \in StockStatus \X Nat
             /\ r.op = "refreshReturn" /\ r.pc = "write" => r.st \in RmaStatus

RTyped ==
  /\ rma \in RmaStatus
  /\ restock \in [RLine -> StockRow]
  /\ \A c \in Client : Brings(reqs[c])
  /\ \A i \in RLine : IsFiniteSet(Moving(i)) /\ restock[i].posted + Owed(i) <= restock[i].stock

(* Numbers that sum up to a number.                                         *)
LEMMA OwedNat ==
  ASSUME RTyped, NEW i \in RLine
  PROVE  /\ Owed(i) \in Nat /\ IsFiniteSet(Moving(i))
         /\ \A c \in Moving(i) : Carried[c] \in Nat /\ Carried[c] <= Owed(i)
<1>1. \A c \in Moving(i) : Carried[c] \in Nat
  BY DEF RTyped, Brings, Moving, Carried
<1>2. IsFiniteSet(Moving(i))
  BY DEF RTyped
<1>3. QED
  BY <1>1, <1>2, SumNat DEF Owed

(* The types of the service follow.                                         *)
LEMMA ReturnsTyped == RInv /\ RTyped => ReturnsTypeOK
<1> SUFFICES ASSUME RInv, RTyped PROVE ReturnsTypeOK
  OBVIOUS
<1>1. ASSUME NEW i \in RLine PROVE restock[i].posted <= restock[i].stock
  <2>1. PICK row \in StockRow : row = restock[i]
    BY DEF RTyped
  <2>2. PICK n \in Nat : n = Owed(i)
    BY OwedNat
  <2>3. row.posted + n <= row.stock
    BY <2>1, <2>2 DEF RTyped
  <2>4. row.posted <= row.stock
    BY <2>3 DEF StockRow
  <2>5. QED
    BY <2>1, <2>4
<1>2. rline \in [RLine -> RlineRow] /\ rma \in RmaStatus
  BY DEF RInv, RTyped
<1>3. QED
  BY <1>1, <1>2 DEF ReturnsTypeOK, RlineRow

(* A request of one client changes; it is not, or no longer, between the    *)
(* stock and the movement.                                                  *)
LEMMA MovedOn ==
  ASSUME RInv, RTyped, NEW c \in Client, NEW r, reqs' = [reqs EXCEPT ![c] = r],
         ~(r.op = "inspect" /\ r.pc = "movement"), NEW i \in RLine
  PROVE  /\ IsFiniteSet(Moving(i)')
         /\ Owed(i)' = IF c \in Moving(i) THEN Owed(i) - reqs[c].n ELSE Owed(i)
<1>1. \A d \in Client : reqs'[d] = IF d = c THEN r ELSE reqs[d]
  BY DEF RInv
<1>2. Moving(i)' = Moving(i) \ {c}
  BY <1>1 DEF Moving
<1>3. \A d \in Moving(i) \ {c} : Carried[d] = Carried'[d]
  BY <1>1 DEF Moving, Carried
<1>4. /\ Owed(i) \in Nat /\ IsFiniteSet(Moving(i))
      /\ \A d \in Moving(i) : Carried[d] \in Nat
  BY OwedNat
<1>5. IsFiniteSet(Moving(i) \ {c})
  BY <1>4, FS_Subset
<1>6. Owed(i)' = SumOf(Carried, Moving(i) \ {c})
  <2>1. PICK f, g, S : f = Carried /\ g = Carried' /\ S = Moving(i) \ {c}
    OBVIOUS
  <2>2. SumOf(f, S) = SumOf(g, S)
    BY <1>3, <1>5, <2>1, SumSame
  <2>3. QED
    BY <1>2, <2>1, <2>2 DEF Owed
<1>7. CASE c \in Moving(i)
  <2>1. PICK f, S : f = Carried /\ S = Moving(i)
    OBVIOUS
  <2>2. SumOf(f, S) = f[c] + SumOf(f, S \ {c}) /\ \A d \in S : f[d] \in Int
    BY <1>4, <1>7, <2>1, SumAdd
  <2>3. SumOf(f, S \ {c}) \in Int
    BY <1>5, <2>1, <2>2, SumInt
  <2>4. f[c] = reqs[c].n /\ f[c] \in Nat
    BY <1>4, <1>7, <2>1 DEF Carried
  <2>5. PICK a, b, n : a = SumOf(f, S) /\ b = SumOf(f, S \ {c}) /\ n = f[c]
    OBVIOUS
  <2>6. a = n + b /\ n \in Int /\ b \in Int
    BY <2>2, <2>3, <2>4, <2>5
  <2>7. b = a - n
    BY <2>6
  <2>8. QED
    BY <1>2, <1>5, <1>6, <1>7, <2>1, <2>4, <2>5, <2>7 DEF Owed
<1>8. CASE c \notin Moving(i)
  <2>1. Moving(i) \ {c} = Moving(i)
    BY <1>8
  <2>2. QED
    BY <1>2, <1>5, <1>6, <1>8, <2>1 DEF Owed
<1>9. QED
  BY <1>7, <1>8

(* Nothing is written to stock.                                             *)
LEMMA StockStays ==
  ASSUME RInv, RTyped, NEW c \in Client, NEW r, reqs' = [reqs EXCEPT ![c] = r],
         ~(r.op = "inspect" /\ r.pc = "movement"), Brings(r), restock' = restock, rma' \in RmaStatus
  PROVE  RTyped'
<1>1. \A d \in Client : reqs'[d] = IF d = c THEN r ELSE reqs[d]
  BY DEF RInv
<1>2. \A d \in Client : Brings(reqs'[d])
  BY <1>1 DEF RTyped
<1>3. ASSUME NEW i \in RLine
      PROVE  IsFiniteSet(Moving(i)') /\ restock[i].posted + Owed(i)' <= restock[i].stock
  <2>1. PICK row \in StockRow : row = restock[i]
    BY DEF RTyped
  <2>2. PICK n \in Nat : n = Owed(i)
    BY OwedNat
  <2>3. PICK m : m = Owed(i)'
    OBVIOUS
  <2>4. IsFiniteSet(Moving(i)') /\ m = IF c \in Moving(i) THEN n - reqs[c].n ELSE n
    BY <2>2, <2>3, MovedOn
  <2>5. c \in Moving(i) => reqs[c].n \in Nat /\ reqs[c].n <= n
    BY <2>2, OwedNat DEF Carried
  <2>6. m \in Int /\ m <= n
    BY <2>4, <2>5
  <2>7. row.posted + n <= row.stock
    BY <2>1, <2>2 DEF RTyped
  <2>8. row.posted + m <= row.stock
    BY <2>6, <2>7 DEF StockRow
  <2>9. QED
    BY <2>1, <2>3, <2>4, <2>8
<1>4. QED
  BY <1>2, <1>3 DEF RTyped

(* Statement by statement: a movement posts what was added to the stock.    *)
LEMMA ReturnTypesKept == RInv /\ RTyped /\ [ReturnsNext]_<<reqVars, returnVars>> => RTyped'
<1> SUFFICES ASSUME RInv, RTyped, [ReturnsNext]_<<reqVars, returnVars>> PROVE RTyped'
  OBVIOUS
<1>0. \A i \in RLine : Expected[i] \in Nat
  BY ReturnConstants DEF RLine
<1>1. ASSUME NEW c \in Client, NEW i \in RLine, BeginReceive(c, i) PROVE RTyped'
  <2>1. PICK n \in 1..Expected[i] :
          /\ Begin(c, [op |-> "receive", pc |-> "line", line |-> i, rec |-> rline[i].rec + n,
                 st |-> NextLineStatus(i, rline[i].rec + n, rline[i].ins, rline[i].disp)])
          /\ UNCHANGED returnVars
    BY <1>1 DEF BeginReceive
  <2>2. PICK r : r = [op |-> "receive", pc |-> "line", line |-> i, rec |-> rline[i].rec + n,
                 st |-> NextLineStatus(i, rline[i].rec + n, rline[i].ins, rline[i].disp)]
    OBVIOUS
  <2>3. reqs' = [reqs EXCEPT ![c] = r] /\ restock' = restock /\ rma' = rma
    BY <2>1, <2>2 DEF Begin, returnVars
  <2>4. r.op = "receive"
    BY <2>2, Zenon
  <2>5. Brings(r) /\ r.op # "inspect"
    BY <2>4 DEF Brings
  <2>6. QED
    BY <2>3, <2>5, StockStays DEF RTyped
<1>2. ASSUME NEW c \in Client, NEW i \in RLine, BeginInspect(c, i) PROVE RTyped'
  <2>1. PICK n \in 1..Expected[i], s \in StockStatus : \E a \in 0..n :
          /\ Begin(c, [op |-> "inspect", pc |-> IF s # "none" /\ a > 0 THEN "stock" ELSE "line",
                 line |-> i, n |-> a, key |-> <<s, a>>, ins |-> rline[i].ins + n])
          /\ UNCHANGED returnVars
    BY <1>2 DEF BeginInspect
  <2>2. PICK a \in 0..n :
          /\ Begin(c, [op |-> "inspect", pc |-> IF s # "none" /\ a > 0 THEN "stock" ELSE "line",
                 line |-> i, n |-> a, key |-> <<s, a>>, ins |-> rline[i].ins + n])
          /\ UNCHANGED returnVars
    BY <2>1
  <2>3. PICK pc \in {"stock", "line"} : pc = IF s # "none" /\ a > 0 THEN "stock" ELSE "line"
    OBVIOUS
  <2>4. PICK r : r = [op |-> "inspect", pc |-> pc, line |-> i, n |-> a, key |-> <<s, a>>, ins |-> rline[i].ins + n]
    OBVIOUS
  <2>5. reqs' = [reqs EXCEPT ![c] = r] /\ restock' = restock /\ rma' = rma
    BY <2>2, <2>3, <2>4 DEF Begin, returnVars
  <2>6. r.op = "inspect" /\ r.pc = pc /\ r.n = a /\ r.key = <<s, a>>
    BY <2>4, Zenon
  <2>7. a \in Nat /\ pc # "movement"
    BY <1>0, <2>3
  <2>8. Brings(r) /\ r.pc # "movement"
    BY <2>6, <2>7 DEF Brings
  <2>9. QED
    BY <2>5, <2>8, StockStays DEF RTyped
<1>3. ASSUME NEW c \in Client, WriteReceived(c) \/ WriteInspected(c) PROVE RTyped'
  <2>1. reqs' = [reqs EXCEPT ![c] = Refreshing] /\ restock' = restock /\ rma' = rma
    BY <1>3 DEF WriteReceived, WriteInspected, Advance
  <2>2. Refreshing.op # "inspect" /\ Brings(Refreshing)
    BY DEF Refreshing, Brings
  <2>3. QED
    BY <2>1, <2>2, StockStays DEF RTyped
<1>4. ASSUME NEW c \in Client, AddStock(c) PROVE RTyped'
  <2>1. PICK r : r = [reqs[c] EXCEPT !.pc = "movement"]
    OBVIOUS
  <2>2. reqs' = [reqs EXCEPT ![c] = r] /\ rma' = rma /\ reqs[c].op = "inspect" /\ reqs[c].pc = "stock"
    BY <1>4, <2>1 DEF AddStock, At, Advance
  <2>3. PICK i \in RLine : i = reqs[c].line
    BY <2>2 DEF RInv, Inspecting
  <2>4. PICK n \in Nat : n = reqs[c].n
    BY <2>2 DEF RTyped, Brings
  <2>5. /\ r.op = "inspect" /\ r.n = n /\ r.key = reqs[c].key /\ r.line = i
        /\ (r.pc = "movement" \/ r = reqs[c])
    BY <2>1, <2>2, <2>3, <2>4 DEF RInv, Inspecting
  <2>6. Brings(r)
    BY <2>2, <2>5 DEF RTyped, Brings
  <2>7. \A d \in Client : reqs'[d] = IF d = c THEN r ELSE reqs[d]
    BY <2>2 DEF RInv
  <2>8. PICK row \in StockRow : row = restock[i]
    BY DEF RTyped
  <2>9. PICK new : new = [row EXCEPT !.stock = @ + n]
    OBVIOUS
  <2>10. new \in StockRow /\ new.posted = row.posted /\ new.stock = row.stock + n
    BY <2>9 DEF StockRow
  <2>11. restock' = [restock EXCEPT ![i] = new]
    BY <1>4, <2>3, <2>4, <2>8, <2>9 DEF AddStock
  <2>12. /\ restock' \in [RLine -> StockRow]
         /\ \A j \in RLine : restock'[j] = IF j = i THEN new ELSE restock[j]
    BY <2>10, <2>11 DEF RTyped
  <2>13. ASSUME NEW j \in RLine
         PROVE  IsFiniteSet(Moving(j)') /\ restock'[j].posted + Owed(j)' <= restock'[j].stock
    <3>1. CASE r.pc = "movement" /\ j = i
      <4>1. Moving(i)' = Moving(i) \cup {c} /\ c \notin Moving(i)
        BY <2>2, <2>5, <2>7, <3>1 DEF Moving
      <4>2. PICK f, S, g : f = Carried /\ S = Moving(i) /\ g = Carried'
        OBVIOUS
      <4>3. IsFiniteSet(S) /\ SumOf(f, S) = Owed(i) /\ SumOf(f, S) \in Nat /\ \A d \in S : f[d] \in Nat
        BY <4>2, OwedNat DEF Owed
      <4>4. (\A d \in S : f[d] = g[d]) /\ g[c] = n
        BY <2>5, <2>7, <4>1, <4>2 DEF Carried, Moving
      <4>5. SumOf(f, S) = SumOf(g, S)
        BY <4>3, <4>4, SumSame
      <4>6. PICK T : T = S \cup {c}
        OBVIOUS
      <4>7. T \ {c} = S /\ IsFiniteSet(T) /\ c \in T /\ \A d \in T : g[d] \in Int
        BY <4>1, <4>2, <4>3, <4>4, <4>6, FS_AddElement
      <4>8. SumOf(g, T) = g[c] + SumOf(g, T \ {c})
        BY <4>7, SumAdd
      <4>9. Owed(i)' = SumOf(g, T)
        BY <4>1, <4>2, <4>6 DEF Owed
      <4>10. PICK o \in Nat : o = Owed(i)
        BY OwedNat
      <4>11. Owed(i)' = n + o
        BY <4>3, <4>4, <4>5, <4>7, <4>8, <4>9, <4>10
      <4>12. row.posted + o <= row.stock
        BY <2>8, <4>10 DEF RTyped
      <4>13. new.posted + (n + o) <= new.stock
        BY <2>10, <4>12 DEF StockRow
      <4>14. IsFiniteSet(Moving(j)')
        BY <3>1, <4>1, <4>2, <4>6, <4>7
      <4>15. QED
        BY <2>12, <3>1, <4>11, <4>13, <4>14
    <3>2. CASE r.pc = "movement" /\ j # i
      <4>1. Moving(j)' = Moving(j) /\ \A d \in Moving(j) : d # c
        BY <2>2, <2>3, <2>5, <2>7, <3>2 DEF Moving
      <4>2. PICK f, S, g : f = Carried /\ S = Moving(j) /\ g = Carried'
        OBVIOUS
      <4>3. IsFiniteSet(S) /\ \A d \in S : f[d] = g[d]
        BY <2>7, <4>1, <4>2, OwedNat DEF Carried, Moving
      <4>4. SumOf(f, S) = SumOf(g, S)
        BY <4>3, SumSame
      <4>5. Owed(j)' = Owed(j)
        BY <4>1, <4>2, <4>4 DEF Owed
      <4>6. QED
        BY <2>12, <3>2, <4>1, <4>5 DEF RTyped
    <3>3. CASE r.pc # "movement"
      <4>1. FALSE
        BY <2>1, <2>2, <3>3
      <4>2. QED
        BY <4>1
    <3>4. QED
      BY <3>1, <3>2, <3>3
  <2>14. \A d \in Client : Brings(reqs'[d])
    BY <2>6, <2>7 DEF RTyped
  <2>15. QED
    BY <2>2, <2>12, <2>13, <2>14 DEF RTyped
<1>5. ASSUME NEW c \in Client, PostMovement(c) PROVE RTyped'
  <2>1. PICK r : r = [reqs[c] EXCEPT !.pc = "line"]
    OBVIOUS
  <2>2. /\ reqs' = [reqs EXCEPT ![c] = r] /\ rma' = rma
        /\ reqs[c].op = "inspect" /\ reqs[c].pc = "movement"
    BY <1>5, <2>1 DEF PostMovement, At, Advance
  <2>3. PICK i \in RLine : i = reqs[c].line
    BY <2>2 DEF RInv, Inspecting
  <2>4. PICK n \in Nat : n = reqs[c].n
    BY <2>2 DEF RTyped, Brings
  <2>5. /\ r.op = "inspect" /\ r.n = n /\ r.key = reqs[c].key /\ r.pc = "line"
        /\ reqs[c].key \in StockStatus \X Nat
    BY <2>1, <2>2, <2>3, <2>4 DEF RInv, Inspecting, RTyped, Brings
  <2>6. Brings(r) /\ r.pc # "movement"
    BY <2>5 DEF Brings
  <2>7. \A d \in Client : reqs'[d] = IF d = c THEN r ELSE reqs[d]
    BY <2>2 DEF RInv
  <2>8. \A d \in Client : Brings(reqs'[d])
    BY <2>6, <2>7 DEF RTyped
  <2>9. CASE restock' = restock
    BY <2>2, <2>6, <2>9, StockStays DEF RTyped
  <2>10. CASE restock' = [restock EXCEPT ![i].posted = @ + n, ![i].keys = @ \cup {reqs[c].key}]
    <3>1. PICK row \in StockRow : row = restock[i]
      BY DEF RTyped
    <3>2. PICK key \in StockStatus \X Nat : key = reqs[c].key
      BY <2>5
    <3>3. PICK new : new = [row EXCEPT !.posted = @ + n, !.keys = @ \cup {key}]
      OBVIOUS
    <3>4. new \in StockRow /\ new.posted = row.posted + n /\ new.stock = row.stock
      <4>1. PICK mid : mid = [row EXCEPT !.posted = row.posted + n]
        OBVIOUS
      <4>2. /\ mid \in StockRow /\ mid.posted = row.posted + n /\ mid.stock = row.stock
            /\ mid.keys = row.keys
        BY <4>1 DEF StockRow
      <4>3. PICK keys \in SUBSET (StockStatus \X Nat) : keys = row.keys \cup {key}
        BY DEF StockRow
      <4>4. new = [mid EXCEPT !.keys = keys]
        BY <3>3, <4>1, <4>2, <4>3 DEF StockRow
      <4>5. QED
        BY <4>2, <4>4 DEF StockRow
    <3>5. restock' = [restock EXCEPT ![i] = new]
      BY <2>10, <3>1, <3>2, <3>3 DEF RTyped
    <3>6. /\ restock' \in [RLine -> StockRow]
          /\ \A j \in RLine : restock'[j] = IF j = i THEN new ELSE restock[j]
      BY <3>4, <3>5 DEF RTyped
    <3>7. ASSUME NEW j \in RLine
          PROVE  IsFiniteSet(Moving(j)') /\ restock'[j].posted + Owed(j)' <= restock'[j].stock
      <4>1. /\ IsFiniteSet(Moving(j)')
            /\ Owed(j)' = IF c \in Moving(j) THEN Owed(j) - reqs[c].n ELSE Owed(j)
        BY <2>2, <2>6, MovedOn
      <4>2. c \in Moving(j) <=> j = i
        BY <2>2, <2>3 DEF Moving
      <4>3. CASE j = i
        <5>1. PICK o \in Nat : o = Owed(i)
          BY OwedNat
        <5>2. Owed(i)' = o - n
          BY <2>4, <4>1, <4>2, <4>3, <5>1
        <5>3. row.posted + o <= row.stock
          BY <3>1, <5>1 DEF RTyped
        <5>4. new.posted + (o - n) <= new.stock
          BY <3>4, <5>3 DEF StockRow
        <5>5. QED
          BY <3>6, <4>1, <4>3, <5>2, <5>4
      <4>4. CASE j # i
        BY <3>6, <4>1, <4>2, <4>4 DEF RTyped
      <4>5. QED
        BY <4>3, <4>4
    <3>8. QED
      BY <2>2, <2>8, <3>6, <3>7 DEF RTyped
  <2>11. QED
    BY <1>5, <2>3, <2>4, <2>9, <2>10 DEF PostMovement
<1>6. ASSUME NEW c \in Client, ReadLines(c) PROVE RTyped'
  <2>1. NextOrderStatus \in RmaStatus
    BY DEF NextOrderStatus, RmaStatus
  <2>2. PICK st \in RmaStatus : st = NextOrderStatus
    BY <2>1
  <2>3. PICK r : r = [op |-> "refreshReturn", pc |-> "write", st |-> st]
    OBVIOUS
  <2>4. reqs' = [reqs EXCEPT ![c] = r] /\ restock' = restock /\ rma' = rma
    BY <1>6, <2>2, <2>3 DEF ReadLines, Advance, returnVars
  <2>5. r.op = "refreshReturn" /\ r.st = st
    BY <2>3, Zenon
  <2>6. r.op # "inspect" /\ Brings(r)
    BY <2>5 DEF Brings
  <2>7. QED
    BY <2>4, <2>6, StockStays DEF RTyped
<1>7. ASSUME NEW c \in Client, WriteOrderStatus(c) \/ (Abort(c) /\ UNCHANGED returnVars) PROVE RTyped'
  <2>1. reqs' = [reqs EXCEPT ![c] = NoReq] /\ restock' = restock
    BY <1>7 DEF WriteOrderStatus, Abort, Finish, Advance, returnVars
  <2>2. NoReq.op # "inspect" /\ Brings(NoReq)
    BY DEF NoReq, Brings
  <2>3. rma' \in RmaStatus
    BY <1>7 DEF WriteOrderStatus, At, RTyped, Brings, returnVars
  <2>4. QED
    BY <2>1, <2>2, <2>3, StockStays
<1>8. CASE UNCHANGED <<reqVars, returnVars>>
  <2>1. reqs' = reqs /\ restock' = restock /\ rma' = rma
    BY <1>8 DEF reqVars, returnVars
  <2>2. \A i \in RLine : Moving(i)' = Moving(i) /\ Carried' = Carried
    BY <2>1 DEF Moving, Carried
  <2>3. \A i \in RLine : Owed(i)' = Owed(i)
    BY <2>2 DEF Owed
  <2>4. QED
    BY <2>1, <2>2, <2>3 DEF RTyped
<1>9. QED
  BY <1>1, <1>2, <1>3, <1>4, <1>5, <1>6, <1>7, <1>8 DEF ReturnsNext, ReturnsStep

(* Nothing is in stock and nothing is owed.                                 *)
LEMMA ReturnsTypedFirst == ReqInit /\ ReturnsInit => RTyped
<1> SUFFICES ASSUME ReqInit, ReturnsInit PROVE RTyped
  OBVIOUS
<1>1. \A c \in Client : reqs[c].op = "none"
  BY DEF ReqInit, NoReq
<1>2. \A i \in RLine : Moving(i) = {}
  BY <1>1 DEF Moving
<1>3. \A i \in RLine : IsFiniteSet(Moving(i)) /\ Owed(i) = 0
  BY <1>2, FS_EmptySet, SumEmpty DEF Owed
<1>4. \A c \in Client : Brings(reqs[c])
  BY <1>1 DEF Brings
<1>5. QED
  BY <1>3, <1>4 DEF RTyped, ReturnsInit, StockRow, RmaStatus

(* Lines and header keep their statuses, and no movement is posted for      *)
(* pieces that were not added to the stock before: with inspections that    *)
(* die after any statement, what is posted stays within what is in stock.   *)
THEOREM ReturnsTypeCorrect == ReturnsSpec => []ReturnsTypeOK
  BY ReturnsInitial, ReturnsTypedFirst, ReturnsInductive, ReturnTypesKept, ReturnsTyped, PTL
     DEF ReturnsSpec

-----------------------------------------------------------------------------
(* Serial numbers.                                                          *)
SerialRow == [st : SerialStatus \cup {"NONE"}, order : SerialOrder \cup {NoOrder},
              bin : Bin \cup {NoBin}]
GoneStatus == {"PICKED", "PACKED", "SHIPPED"}
Gone(o) == {s \in Serial : serial[s].st \in GoneStatus /\ serial[s].order = o}

(* What a request knows while it holds its locks; of the serials, as long   *)
(* as none was named wrongly.                                               *)
PickKnows(r) ==
  /\ r.order \in SerialOrder /\ r.serials \subseteq Serial /\ r.bin \in Bin
  /\ pickst[r.order] = "PICKING" /\ r.saw \in Nat /\ r.saw + Cardinality(r.serials) <= Needed
  /\ r.order \notin scanned => r.saw = taken[r.order]
  /\ ~misnamed => \A s \in r.serials : serial[s].st = "AVAILABLE" /\ serial[s].bin = r.bin

PackKnows(r) ==
  /\ r.order \in SerialOrder /\ r.serials \subseteq Serial
  /\ pickst[r.order] \in DOMAIN SerialStep
  /\ r.order \notin scanned => Cardinality(r.serials) = taken[r.order]
  /\ ~misnamed => r.serials \subseteq Serialled(r.order, pickst[r.order])

ReceiveKnows(r) ==
  /\ r.serials \subseteq Serial /\ r.bin \in Bin /\ r.st \in {"AVAILABLE", "HELD"}
  /\ ~misnamed /\ r.known => \A s \in r.serials : serial[s].st = "EXPECTED"

Knows(r) == /\ r.op = "serialPick" => PickKnows(r)
            /\ r.op = "serialPack" => PackKnows(r)
            /\ r.op = "serialReceive" => ReceiveKnows(r)

SerialTypes ==
  /\ reqs = [c \in Client |-> reqs[c]]
  /\ serial \in [Serial -> SerialRow]
  /\ pickst \in [SerialOrder -> {"PICKING", "PICKED", "PACKED", "SHIPPED"}]
  /\ taken \in [SerialOrder -> 0..Needed]
  /\ misnamed \in BOOLEAN

SerialLocks ==
  \A c, d \in Client : c # d =>
    /\ reqs[c].op \in {"serialPick", "serialPack"} /\ reqs[d].op \in {"serialPick", "serialPack"}
         => reqs[c].order # reqs[d].order
    /\ reqs[c].op \in {"serialPick", "serialReceive"} /\ reqs[d].op \in {"serialPick", "serialReceive"}
         => reqs[c].bin # reqs[d].bin
    /\ ~misnamed /\ reqs[c].op = "serialReceive" /\ reqs[d].op = "serialReceive"
         => reqs[c].serials \cap reqs[d].serials = {}

SInv == /\ SerialTypes /\ SerialLocks
        /\ \A c \in Client : Knows(reqs[c])
        /\ ~misnamed => \A o \in SerialOrder \ scanned :
             /\ Cardinality(Gone(o)) = taken[o]
             /\ pickst[o] \in {"PACKED", "SHIPPED"} => Gone(o) = Serialled(o, pickst[o])

(* The serials of a line are finitely many.                                 *)
LEMMA GoneFinite ==
  ASSUME NEW o
  PROVE  /\ Gone(o) \subseteq Serial /\ IsFiniteSet(Gone(o)) /\ Cardinality(Gone(o)) \in Nat
         /\ Gone(o) = Serialled(o, "PICKED") \cup Serialled(o, "PACKED") \cup Serialled(o, "SHIPPED")
<1>1. Gone(o) \subseteq Serial
  BY DEF Gone
<1>2. IsFiniteSet(Gone(o))
  BY <1>1, SerialConstants, FS_Subset
<1>3. Cardinality(Gone(o)) \in Nat
  BY <1>2, FS_CardinalityType
<1>4. QED
  BY <1>1, <1>2, <1>3 DEF Gone, GoneStatus, Serialled

(* A step that touches no serial of a line, and makes none one.             *)
LEMMA GoneStays ==
  ASSUME \A s \in Serial : serial[s].st \in GoneStatus \/ serial'[s].st \in GoneStatus
                           => serial'[s].st = serial[s].st /\ serial'[s].order = serial[s].order
  PROVE  \A o : /\ Gone(o)' = Gone(o)
                /\ \A st \in GoneStatus : Serialled(o, st)' = Serialled(o, st)
BY DEF Gone, Serialled

(* A request that begins or ends.                                           *)
LEMMA SerialRequest ==
  ASSUME SInv, NEW c \in Client, NEW r, reqs' = [reqs EXCEPT ![c] = r],
         UNCHANGED <<serial, pickst, taken, scanned>>,
         misnamed' \in BOOLEAN, misnamed => misnamed',
         Knows(r)',
         \A d \in Client : d # c =>
           /\ r.op \in {"serialPick", "serialPack"} /\ reqs[d].op \in {"serialPick", "serialPack"}
                => r.order # reqs[d].order
           /\ r.op \in {"serialPick", "serialReceive"} /\ reqs[d].op \in {"serialPick", "serialReceive"}
                => r.bin # reqs[d].bin
           /\ ~misnamed' /\ r.op = "serialReceive" /\ reqs[d].op = "serialReceive"
                => r.serials \cap reqs[d].serials = {}
  PROVE  SInv'
<1>1. \A d \in Client : reqs'[d] = IF d = c THEN r ELSE reqs[d]
  BY DEF SInv, SerialTypes
<1>2. SerialTypes'
  BY DEF SInv, SerialTypes
<1>3. SerialLocks'
  <2> SUFFICES ASSUME NEW a \in Client, NEW b \in Client, a # b
               PROVE  /\ reqs'[a].op \in {"serialPick", "serialPack"} /\ reqs'[b].op \in {"serialPick", "serialPack"}
                           => reqs'[a].order # reqs'[b].order
                      /\ reqs'[a].op \in {"serialPick", "serialReceive"} /\ reqs'[b].op \in {"serialPick", "serialReceive"}
                           => reqs'[a].bin # reqs'[b].bin
                      /\ ~misnamed' /\ reqs'[a].op = "serialReceive" /\ reqs'[b].op = "serialReceive"
                           => reqs'[a].serials \cap reqs'[b].serials = {}
    BY DEF SerialLocks
  <2>1. CASE a # c /\ b # c
    BY <1>1, <2>1 DEF SInv, SerialLocks
  <2>2. CASE a = c
    BY <1>1, <2>2
  <2>3. CASE b = c
    BY <1>1, <2>3
  <2>4. QED
    BY <2>1, <2>2, <2>3
<1>4. \A d \in Client : Knows(reqs[d])'
  <2> SUFFICES ASSUME NEW d \in Client PROVE Knows(reqs[d])'
    OBVIOUS
  <2>1. CASE d = c
    BY <1>1, <2>1
  <2>2. CASE d # c
    <3>1. reqs'[d] = reqs[d] /\ Knows(reqs[d])
      BY <1>1, <2>2 DEF SInv
    <3>2. QED
      BY <3>1 DEF Knows, PickKnows, PackKnows, ReceiveKnows, Serialled
  <2>3. QED
    BY <2>1, <2>2
<1>5. \A o : Gone(o)' = Gone(o) /\ \A st : Serialled(o, st)' = Serialled(o, st)
  BY DEF Gone, Serialled
<1>6. QED
  BY <1>2, <1>3, <1>4, <1>5 DEF SInv

(* A request that commits: the others still know what they knew, and keep   *)
(* their locks.                                                             *)
LEMMA SerialCommit ==
  ASSUME SInv, NEW c \in Client, reqs' = [reqs EXCEPT ![c] = NoReq], SerialTypes', UNCHANGED misnamed,
         \A d \in Client : d # c => Knows(reqs[d])',
         ~misnamed => \A o \in SerialOrder \ scanned' :
             /\ Cardinality(Gone(o)') = taken'[o]
             /\ pickst'[o] \in {"PACKED", "SHIPPED"} => Gone(o)' = Serialled(o, pickst[o])'
  PROVE  SInv'
<1>1. \A d \in Client : reqs'[d] = IF d = c THEN NoReq ELSE reqs[d]
  BY DEF SInv, SerialTypes
<1>2. SerialLocks'
  BY <1>1 DEF SInv, SerialLocks, NoReq
<1>3. \A d \in Client : Knows(reqs[d])'
  <2> SUFFICES ASSUME NEW d \in Client PROVE Knows(reqs[d])'
    OBVIOUS
  <2>1. CASE d # c
    <3>1. Knows(reqs[d])' /\ reqs'[d] = reqs[d]
      BY <1>1, <2>1
    <3>2. QED
      BY <3>1
  <2>2. CASE d = c
    <3>1. reqs'[d].op = "none"
      BY <1>1, <2>2 DEF NoReq
    <3>2. QED
      BY <3>1 DEF Knows
  <2>3. QED
    BY <2>1, <2>2
<1>4. QED
  BY <1>2, <1>3 DEF SInv

(* No serial number has been captured.                                      *)
LEMMA SerialsInitial == ReqInit /\ SerialsInit => SInv
<1> SUFFICES ASSUME ReqInit, SerialsInit PROVE SInv
  OBVIOUS
<1>1. \A o : Gone(o) = {}
  BY DEF SerialsInit, Gone, GoneStatus
<1>2. SerialTypes
  <2>1. reqs = [c \in Client |-> reqs[c]]
    BY DEF ReqInit
  <2>2. [st |-> "NONE", order |-> NoOrder, bin |-> NoBin] \in SerialRow
    BY DEF SerialRow
  <2>3. serial \in [Serial -> SerialRow]
    BY <2>2 DEF SerialsInit
  <2>4. 0 \in 0..Needed
    BY SerialConstants
  <2>5. taken \in [SerialOrder -> 0..Needed]
    BY <2>4 DEF SerialsInit
  <2>6. pickst \in [SerialOrder -> {"PICKING", "PICKED", "PACKED", "SHIPPED"}] /\ misnamed \in BOOLEAN
    BY DEF SerialsInit
  <2>7. QED
    BY <2>1, <2>3, <2>5, <2>6 DEF SerialTypes
<1>3. SerialLocks /\ \A c \in Client : Knows(reqs[c])
  BY DEF ReqInit, NoReq, SerialLocks, Knows
<1>4. Cardinality({}) = 0
  BY FS_EmptySet
<1>5. \A o \in SerialOrder : taken[o] = 0 /\ pickst[o] = "PICKING"
  BY DEF SerialsInit
<1>6. QED
  BY <1>1, <1>2, <1>3, <1>4, <1>5 DEF SInv

(* The steps that are single statements.                                    *)
LEMMA SerialStatements ==
  ASSUME SInv, CreateSerial \/ UpdateSerial \/ ScannerPick
  PROVE  SInv'
<1>0. /\ reqs' = reqs /\ \A d \in Client : Knows(reqs[d])
      /\ serial \in [Serial -> SerialRow] /\ misnamed \in BOOLEAN
  BY DEF CreateSerial, UpdateSerial, ScannerPick, Once, SInv, SerialTypes
<1>1. ASSUME CreateSerial PROVE SInv'
  <2>1. PICK s \in Serial, b \in Bin \cup {NoBin}, st \in {"EXPECTED", "AVAILABLE"} :
          /\ serial[s].st = "NONE"
          /\ serial' = SetSerials({s}, LAMBDA x : [st |-> st, order |-> NoOrder, bin |-> b])
    BY <1>1 DEF CreateSerial
  <2>2. UNCHANGED <<pickst, taken, scanned, misnamed>>
    BY <1>1 DEF CreateSerial
  <2>3. \A t \in Serial : serial'[t] = IF t = s THEN [st |-> st, order |-> NoOrder, bin |-> b] ELSE serial[t]
    BY <2>1 DEF SetSerials
  <2>4. serial' \in [Serial -> SerialRow]
    BY <1>0, <2>1 DEF SetSerials, SerialRow, SerialStatus
  <2>5. \A o : Gone(o)' = Gone(o) /\ \A t \in GoneStatus : Serialled(o, t)' = Serialled(o, t)
    <3>1. \A t \in Serial : serial[t].st \in GoneStatus \/ serial'[t].st \in GoneStatus
                           => serial'[t].st = serial[t].st /\ serial'[t].order = serial[t].order
      <4> SUFFICES ASSUME NEW t \in Serial
                   PROVE  serial[t].st \in GoneStatus \/ serial'[t].st \in GoneStatus
                           => serial'[t].st = serial[t].st /\ serial'[t].order = serial[t].order
        OBVIOUS
      <4>1. CASE t = s
        <5>1. serial'[s] = [st |-> st, order |-> NoOrder, bin |-> b] /\ serial[s].st = "NONE"
          BY <2>1, <2>3
        <5>2. serial'[t].st = st /\ serial[t].st = "NONE"
          BY <4>1, <5>1
        <5>3. QED
          BY <5>2 DEF GoneStatus
      <4>2. CASE t # s
        <5>1. serial'[t] = serial[t]
          BY <2>3, <4>2
        <5>2. QED
          BY <5>1
      <4>3. QED
        BY <4>1, <4>2
    <3>2. QED
      BY <3>1, GoneStays
  <2>6. \A d \in Client : Knows(reqs[d])'
    <3> SUFFICES ASSUME NEW d \in Client PROVE Knows(reqs[d])'
      OBVIOUS
    <3>1. reqs'[d] = reqs[d] /\ Knows(reqs[d])
      BY <1>0
    <3>2. reqs[d].op = "serialPick" => PickKnows(reqs[d])'
      BY <2>1, <2>2, <2>3, <3>1 DEF Knows, PickKnows
    <3>3. reqs[d].op = "serialPack" => PackKnows(reqs[d])'
      <4> SUFFICES ASSUME reqs[d].op = "serialPack" PROVE PackKnows(reqs[d])'
        OBVIOUS
      <4>1. PackKnows(reqs[d])
        BY <3>1 DEF Knows
      <4>2. pickst[reqs[d].order] \in GoneStatus
        BY <4>1 DEF PackKnows, SerialStep, GoneStatus
      <4>3. Serialled(reqs[d].order, pickst[reqs[d].order])' = Serialled(reqs[d].order, pickst[reqs[d].order])
        <5>1. PICK x : x = reqs[d].order
          OBVIOUS
        <5>2. PICK q : q = pickst[x]
          OBVIOUS
        <5>3. Serialled(x, q)' = Serialled(x, q)
          BY <2>5, <4>2, <5>1, <5>2
        <5>4. reqs'[d].order = x /\ pickst'[x] = q
          BY <2>2, <3>1, <5>1, <5>2
        <5>5. QED
          BY <5>1, <5>2, <5>3, <5>4
      <4>4. QED
        BY <2>2, <3>1, <4>1, <4>3 DEF PackKnows
    <3>4. reqs[d].op = "serialReceive" => ReceiveKnows(reqs[d])'
      BY <2>1, <2>2, <2>3, <3>1 DEF Knows, ReceiveKnows
    <3>5. QED
      BY <3>1, <3>2, <3>3, <3>4 DEF Knows
  <2>7. SerialTypes' /\ SerialLocks'
    BY <1>0, <2>2, <2>4 DEF SInv, SerialTypes, SerialLocks
  <2>8. ~misnamed' => \A o \in SerialOrder \ scanned' :
             /\ Cardinality(Gone(o)') = taken'[o]
             /\ pickst'[o] \in {"PACKED", "SHIPPED"} => Gone(o)' = Serialled(o, pickst[o])'
    <3> SUFFICES ASSUME ~misnamed, NEW o \in SerialOrder \ scanned
                 PROVE  /\ Cardinality(Gone(o)') = taken[o]
                        /\ pickst[o] \in {"PACKED", "SHIPPED"} => Gone(o)' = Serialled(o, pickst[o])'
      BY <2>2
    <3>1. Cardinality(Gone(o)) = taken[o] /\ (pickst[o] \in {"PACKED", "SHIPPED"} => Gone(o) = Serialled(o, pickst[o]))
      BY DEF SInv
    <3>2. Gone(o)' = Gone(o)
      BY <2>5
    <3>3. pickst[o] \in {"PACKED", "SHIPPED"} => Serialled(o, pickst[o])' = Serialled(o, pickst[o])
      <4>1. PICK q : q = pickst[o]
        OBVIOUS
      <4>2. q \in {"PACKED", "SHIPPED"} => Serialled(o, q)' = Serialled(o, q)
        BY <2>5 DEF GoneStatus
      <4>3. pickst'[o] = q
        BY <2>2, <4>1
      <4>4. QED
        BY <4>1, <4>2, <4>3
    <3>4. QED
      BY <3>1, <3>2, <3>3
  <2>9. QED
    BY <2>6, <2>7, <2>8 DEF SInv
<1>2. ASSUME UpdateSerial PROVE SInv'
  <2>1. PICK s \in Serial, st \in SerialStatus : serial' = [serial EXCEPT ![s].st = st]
    BY <1>2 DEF UpdateSerial
  <2>2. misnamed' = TRUE /\ UNCHANGED <<pickst, taken, scanned>>
    BY <1>2 DEF UpdateSerial
  <2>3. serial' \in [Serial -> SerialRow]
    <3>1. [serial[s] EXCEPT !.st = st] \in SerialRow
      BY <1>0 DEF SerialRow
    <3>2. serial' = [serial EXCEPT ![s] = [serial[s] EXCEPT !.st = st]]
      BY <2>1
    <3>3. QED
      BY <1>0, <3>1, <3>2
  <2>4. \A d \in Client : Knows(reqs[d])'
    BY <1>0, <2>2 DEF Knows, PickKnows, PackKnows, ReceiveKnows
  <2>5. SerialTypes' /\ SerialLocks'
    BY <1>0, <2>2, <2>3 DEF SInv, SerialTypes, SerialLocks
  <2>6. QED
    BY <2>2, <2>4, <2>5 DEF SInv
<1>3. ASSUME ScannerPick PROVE SInv'
  <2>1. PICK o \in SerialOrder :
          /\ taken[o] < Needed
          /\ taken' = [taken EXCEPT ![o] = @ + 1]
          /\ scanned' = scanned \cup {o}
          /\ \/ SerialOrderFree(o) /\ pickst' = [pickst EXCEPT ![o] = "PICKED"]
             \/ UNCHANGED pickst
    BY <1>3 DEF ScannerPick
  <2>2. UNCHANGED <<serial, misnamed>>
    BY <1>3 DEF ScannerPick
  <2>3. SerialTypes'
    BY <1>0, <2>1, <2>2, SerialConstants DEF SInv, SerialTypes
  <2>4. SerialLocks'
    BY <1>0, <2>2 DEF SInv, SerialLocks
  <2>5. ASSUME NEW p \in SerialOrder, p # o PROVE taken'[p] = taken[p] /\ pickst'[p] = pickst[p]
    BY <2>1, <2>5 DEF SInv, SerialTypes
  <2>6. ASSUME NEW d \in Client, reqs[d].op \in {"serialPick", "serialPack"}, reqs[d].order = o
        PROVE  pickst' = pickst
    BY <2>1, <2>6 DEF SerialOrderFree, Holding
  <2>7. \A d \in Client : Knows(reqs[d])'
    <3> SUFFICES ASSUME NEW d \in Client PROVE Knows(reqs[d])'
      OBVIOUS
    <3>1. reqs'[d] = reqs[d] /\ Knows(reqs[d])
      BY <1>0
    <3>2. reqs[d].op = "serialPick" => PickKnows(reqs[d])'
      BY <2>1, <2>2, <2>5, <2>6, <3>1 DEF Knows, PickKnows
    <3>3. reqs[d].op = "serialPack" => PackKnows(reqs[d])'
      BY <2>1, <2>2, <2>5, <2>6, <3>1 DEF Knows, PackKnows, Serialled
    <3>4. reqs[d].op = "serialReceive" => ReceiveKnows(reqs[d])'
      BY <2>2, <3>1 DEF Knows, ReceiveKnows
    <3>5. QED
      BY <3>1, <3>2, <3>3, <3>4 DEF Knows
  <2>8. \A p : Gone(p)' = Gone(p) /\ \A st : Serialled(p, st)' = Serialled(p, st)
    BY <2>2 DEF Gone, Serialled
  <2>9. ~misnamed' => \A p \in SerialOrder \ scanned' :
             /\ Cardinality(Gone(p)') = taken'[p]
             /\ pickst'[p] \in {"PACKED", "SHIPPED"} => Gone(p)' = Serialled(p, pickst[p])'
    <3> SUFFICES ASSUME ~misnamed, NEW p \in SerialOrder \ scanned, p # o
                 PROVE  /\ Cardinality(Gone(p)') = taken'[p]
                        /\ pickst'[p] \in {"PACKED", "SHIPPED"} => Gone(p)' = Serialled(p, pickst[p])'
      BY <2>1, <2>2
    <3>1. taken'[p] = taken[p] /\ pickst'[p] = pickst[p]
      BY <2>5
    <3>2. Cardinality(Gone(p)) = taken[p] /\ (pickst[p] \in {"PACKED", "SHIPPED"} => Gone(p) = Serialled(p, pickst[p]))
      BY DEF SInv
    <3>3. Serialled(p, pickst[p])' = Serialled(p, pickst[p])
      BY <2>2, <3>1 DEF Serialled
    <3>4. QED
      BY <2>8, <3>1, <3>2, <3>3
  <2>10. QED
    BY <2>3, <2>4, <2>7, <2>9 DEF SInv
<1>4. QED
  BY <1>1, <1>2, <1>3

(* The requests.                                                            *)
LEMMA SerialBegins ==
  ASSUME SInv, NEW c \in Client,
         BeginSerialReceive(c) \/ BeginSerialPick(c) \/ BeginSerialTransition(c)
           \/ (Abort(c) /\ UNCHANGED serialVars)
  PROVE  SInv'
<1>0. serial \in [Serial -> SerialRow] /\ misnamed \in BOOLEAN /\ taken \in [SerialOrder -> 0..Needed]
  BY DEF SInv, SerialTypes
<1>1. ASSUME BeginSerialReceive(c) PROVE SInv'
  <2>1. PICK s \in Serial, b \in Bin, st \in {"AVAILABLE", "HELD"} :
          /\ serial[s].st \in {"NONE", "EXPECTED"}
          /\ \A d \in Holding({"serialReceive", "serialPick"}) : reqs[d].bin # b
          /\ Begin(c, [op |-> "serialReceive", pc |-> "commit", serials |-> {s}, bin |-> b,
                       st |-> st, known |-> serial[s].st # "NONE"])
          /\ misnamed' = (misnamed \/ \E d \in Holding({"serialReceive"}) : s \in reqs[d].serials)
          /\ UNCHANGED <<serial, pickst, taken, scanned>>
    BY <1>1 DEF BeginSerialReceive
  <2>2. PICK known \in BOOLEAN : known = (serial[s].st # "NONE")
    OBVIOUS
  <2>3. PICK r : r = [op |-> "serialReceive", pc |-> "commit", serials |-> {s}, bin |-> b,
                       st |-> st, known |-> known]
    OBVIOUS
  <2>4. reqs' = [reqs EXCEPT ![c] = r]
    BY <2>1, <2>2, <2>3 DEF Begin
  <2>5. /\ r.op = "serialReceive" /\ r.serials = {s} /\ r.bin = b /\ r.st = st /\ r.known = known
    BY <2>3
  <2>6. Knows(r)'
    BY <2>1, <2>2, <2>5 DEF Knows, ReceiveKnows
  <2>7. \A d \in Client : d # c =>
           /\ r.op \in {"serialPick", "serialPack"} /\ reqs[d].op \in {"serialPick", "serialPack"}
                => r.order # reqs[d].order
           /\ r.op \in {"serialPick", "serialReceive"} /\ reqs[d].op \in {"serialPick", "serialReceive"}
                => r.bin # reqs[d].bin
           /\ ~misnamed' /\ r.op = "serialReceive" /\ reqs[d].op = "serialReceive"
                => r.serials \cap reqs[d].serials = {}
    BY <2>1, <2>5 DEF Holding
  <2>8. misnamed' \in BOOLEAN /\ (misnamed => misnamed')
    BY <1>0, <2>1
  <2>9. QED
    BY <2>1, <2>4, <2>6, <2>7, <2>8, SerialRequest
<1>2. ASSUME BeginSerialPick(c) PROVE SInv'
  <2>1. PICK o \in SerialOrder, b \in Bin, S \in SUBSET Serial :
          /\ pickst[o] = "PICKING" /\ taken[o] + Cardinality(S) <= Needed
          /\ SerialOrderFree(o) /\ QuantFree(b)
          /\ \A s \in S : serial[s].st = "AVAILABLE"
          /\ Begin(c, [op |-> "serialPick", pc |-> "commit", order |-> o, bin |-> b, serials |-> S,
                       saw |-> taken[o]])
          /\ misnamed' = (misnamed \/ \E s \in S : serial[s].bin # b)
          /\ UNCHANGED <<serial, pickst, taken, scanned>>
    BY <1>2 DEF BeginSerialPick
  <2>2. PICK r : r = [op |-> "serialPick", pc |-> "commit", order |-> o, bin |-> b, serials |-> S,
                      saw |-> taken[o]]
    OBVIOUS
  <2>3. reqs' = [reqs EXCEPT ![c] = r]
    BY <2>1, <2>2 DEF Begin
  <2>4. /\ r.op = "serialPick" /\ r.order = o /\ r.bin = b /\ r.serials = S /\ r.saw = taken[o]
        /\ taken[o] \in Nat
    BY <1>0, <2>2, SerialConstants
  <2>5. Knows(r)'
    <3>1. ~misnamed' => \A s \in S : serial[s].bin = b
      BY <2>1
    <3>2. PickKnows(r)'
      BY <2>1, <2>4, <3>1 DEF PickKnows
    <3>3. QED
      BY <2>4, <3>2 DEF Knows
  <2>6. \A d \in Client : d # c =>
           /\ r.op \in {"serialPick", "serialPack"} /\ reqs[d].op \in {"serialPick", "serialPack"}
                => r.order # reqs[d].order
           /\ r.op \in {"serialPick", "serialReceive"} /\ reqs[d].op \in {"serialPick", "serialReceive"}
                => r.bin # reqs[d].bin
           /\ ~misnamed' /\ r.op = "serialReceive" /\ reqs[d].op = "serialReceive"
                => r.serials \cap reqs[d].serials = {}
    BY <2>1, <2>4 DEF Holding, SerialOrderFree, QuantFree
  <2>7. misnamed' \in BOOLEAN /\ (misnamed => misnamed')
    BY <1>0, <2>1
  <2>8. QED
    BY <2>1, <2>3, <2>5, <2>6, <2>7, SerialRequest
<1>3. ASSUME BeginSerialTransition(c) PROVE SInv'
  <2>1. PICK o \in SerialOrder : \E S \in SUBSET Serialled(o, pickst[o]) :
          /\ pickst[o] \in DOMAIN SerialStep /\ SerialOrderFree(o) /\ ExactSerials(S, o)
          /\ Begin(c, [op |-> "serialPack", pc |-> "commit", order |-> o, serials |-> S])
          /\ UNCHANGED serialVars
    BY <1>3 DEF BeginSerialTransition
  <2>2. PICK S \in SUBSET Serialled(o, pickst[o]) :
          /\ pickst[o] \in DOMAIN SerialStep /\ SerialOrderFree(o) /\ ExactSerials(S, o)
          /\ Begin(c, [op |-> "serialPack", pc |-> "commit", order |-> o, serials |-> S])
          /\ UNCHANGED serialVars
    BY <2>1
  <2>3. PICK r : r = [op |-> "serialPack", pc |-> "commit", order |-> o, serials |-> S]
    OBVIOUS
  <2>4. reqs' = [reqs EXCEPT ![c] = r] /\ UNCHANGED <<serial, pickst, taken, scanned, misnamed>>
    BY <2>2, <2>3 DEF Begin, serialVars
  <2>5. r.op = "serialPack" /\ r.order = o /\ r.serials = S
    BY <2>3
  <2>6. Knows(r)'
    <3>1. Serialled(o, pickst[o])' = Serialled(o, pickst[o]) /\ Serialled(o, pickst[o]) \subseteq Serial
      BY <2>4 DEF Serialled
    <3>2. PackKnows(r)'
      BY <2>2, <2>4, <2>5, <3>1 DEF PackKnows, ExactSerials
    <3>3. QED
      BY <2>5, <3>2 DEF Knows
  <2>7. \A d \in Client : d # c =>
           /\ r.op \in {"serialPick", "serialPack"} /\ reqs[d].op \in {"serialPick", "serialPack"}
                => r.order # reqs[d].order
           /\ r.op \in {"serialPick", "serialReceive"} /\ reqs[d].op \in {"serialPick", "serialReceive"}
                => r.bin # reqs[d].bin
           /\ ~misnamed' /\ r.op = "serialReceive" /\ reqs[d].op = "serialReceive"
                => r.serials \cap reqs[d].serials = {}
    BY <2>2, <2>5 DEF Holding, SerialOrderFree
  <2>8. QED
    BY <1>0, <2>4, <2>6, <2>7, SerialRequest
<1>4. ASSUME Abort(c), UNCHANGED serialVars PROVE SInv'
  <2>1. reqs' = [reqs EXCEPT ![c] = NoReq] /\ UNCHANGED <<serial, pickst, taken, scanned, misnamed>>
    BY <1>4 DEF Abort, Finish, Advance, serialVars
  <2>2. NoReq.op = "none" /\ Knows(NoReq)'
    BY DEF NoReq, Knows
  <2>3. QED
    BY <1>0, <2>1, <2>2, SerialRequest
<1>5. QED
  BY <1>1, <1>2, <1>3, <1>4

(* A receipt touches serials that are not yet anyone's.                     *)
LEMMA SerialReceived ==
  ASSUME SInv, NEW c \in Client, RecordReceiveSerials(c)
  PROVE  SInv'
<1>1. PICK r : r = reqs[c]
  OBVIOUS
<1> DEFINE new(s) == [st |-> r.st, order |-> serial[s].order, bin |-> r.bin]
<1>2. /\ serial \in [Serial -> SerialRow] /\ misnamed \in BOOLEAN
  BY DEF SInv, SerialTypes
<1>3. ReceiveKnows(r) /\ r.op = "serialReceive"
  BY <1>1 DEF RecordReceiveSerials, At, SInv, Knows
<1>4. /\ r.known \/ \A s \in r.serials : serial[s].st = "NONE"
      /\ serial' = [s \in Serial |-> IF s \in r.serials THEN new(s) ELSE serial[s]]
      /\ reqs' = [reqs EXCEPT ![c] = NoReq]
      /\ UNCHANGED <<pickst, taken, scanned, misnamed>>
  BY <1>1 DEF RecordReceiveSerials, SetSerials, Finish, Advance
<1>5. serial' \in [Serial -> SerialRow]
  <2>1. \A s \in Serial : s \in r.serials => new(s) \in SerialRow
    BY <1>2, <1>3 DEF ReceiveKnows, SerialRow, SerialStatus
  <2> HIDE DEF new
  <2>2. QED
    BY <1>2, <1>4, <2>1
<1>6. \A s \in Serial : serial'[s] = IF s \in r.serials THEN new(s) ELSE serial[s]
  BY <1>4
<1>7. ~misnamed => \A s \in r.serials : serial[s].st \in {"NONE", "EXPECTED"} /\ serial'[s].st \in {"AVAILABLE", "HELD"}
  BY <1>3, <1>4, <1>6 DEF ReceiveKnows
<1> HIDE DEF new
<1>8. ~misnamed => \A o : Gone(o)' = Gone(o) /\ \A st \in GoneStatus : Serialled(o, st)' = Serialled(o, st)
  <2> SUFFICES ASSUME ~misnamed
               PROVE  \A s \in Serial : serial[s].st \in GoneStatus \/ serial'[s].st \in GoneStatus
                           => serial'[s].st = serial[s].st /\ serial'[s].order = serial[s].order
    BY GoneStays
  <2>1. \A s \in r.serials : serial[s].st \notin GoneStatus /\ serial'[s].st \notin GoneStatus
    BY <1>7 DEF GoneStatus
  <2>2. QED
    BY <1>6, <2>1
<1>9. ASSUME NEW d \in Client, d # c PROVE Knows(reqs[d])'
  <2>1. reqs'[d] = reqs[d] /\ Knows(reqs[d])
    BY <1>4, <1>9 DEF SInv, SerialTypes
  <2>2. reqs[d].op = "serialPick" => PickKnows(reqs[d])'
    <3> SUFFICES ASSUME reqs[d].op = "serialPick" PROVE PickKnows(reqs[d])'
      OBVIOUS
    <3>1. PickKnows(reqs[d])
      BY <2>1 DEF Knows
    <3>2. ~misnamed => \A s \in reqs[d].serials : s \notin r.serials
      BY <1>7, <3>1 DEF PickKnows
    <3>3. ~misnamed => \A s \in reqs[d].serials : serial'[s] = serial[s]
      BY <1>6, <3>1, <3>2 DEF PickKnows
    <3>4. QED
      BY <1>4, <2>1, <3>1, <3>3 DEF PickKnows
  <2>3. reqs[d].op = "serialPack" => PackKnows(reqs[d])'
    <3> SUFFICES ASSUME reqs[d].op = "serialPack" PROVE PackKnows(reqs[d])'
      OBVIOUS
    <3>1. PackKnows(reqs[d])
      BY <2>1 DEF Knows
    <3>2. PICK x : x = reqs[d].order
      OBVIOUS
    <3>3. PICK q : q = pickst[x]
      OBVIOUS
    <3>4. q \in GoneStatus
      BY <3>1, <3>2, <3>3 DEF PackKnows, SerialStep, GoneStatus
    <3>5. ~misnamed => Serialled(x, q)' = Serialled(x, q)
      BY <1>8, <3>4
    <3>6. reqs'[d].order = x /\ pickst'[x] = q
      BY <1>4, <2>1, <3>2, <3>3
    <3>7. ~misnamed => Serialled(reqs[d].order, pickst[reqs[d].order])'
                         = Serialled(reqs[d].order, pickst[reqs[d].order])
      BY <3>2, <3>3, <3>5, <3>6
    <3>8. QED
      BY <1>4, <2>1, <3>1, <3>7 DEF PackKnows
  <2>4. reqs[d].op = "serialReceive" => ReceiveKnows(reqs[d])'
    <3> SUFFICES ASSUME reqs[d].op = "serialReceive" PROVE ReceiveKnows(reqs[d])'
      OBVIOUS
    <3>1. ReceiveKnows(reqs[d])
      BY <2>1 DEF Knows
    <3>2. ~misnamed => \A s \in reqs[d].serials : s \notin r.serials
      BY <1>1, <1>3, <1>9 DEF SInv, SerialLocks
    <3>3. ~misnamed => \A s \in reqs[d].serials : serial'[s] = serial[s]
      BY <1>6, <3>1, <3>2 DEF ReceiveKnows
    <3>4. QED
      BY <1>4, <2>1, <3>1, <3>3 DEF ReceiveKnows
  <2>5. QED
    BY <2>1, <2>2, <2>3, <2>4 DEF Knows
<1>10. SerialTypes'
  BY <1>2, <1>4, <1>5 DEF SInv, SerialTypes
<1>11. ~misnamed => \A o \in SerialOrder \ scanned' :
             /\ Cardinality(Gone(o)') = taken'[o]
             /\ pickst'[o] \in {"PACKED", "SHIPPED"} => Gone(o)' = Serialled(o, pickst[o])'
  <2> SUFFICES ASSUME ~misnamed, NEW o \in SerialOrder \ scanned
               PROVE  /\ Cardinality(Gone(o)') = taken[o]
                      /\ pickst[o] \in {"PACKED", "SHIPPED"} => Gone(o)' = Serialled(o, pickst[o])'
    BY <1>4
  <2>1. Cardinality(Gone(o)) = taken[o] /\ (pickst[o] \in {"PACKED", "SHIPPED"} => Gone(o) = Serialled(o, pickst[o]))
    BY DEF SInv
  <2>2. PICK q : q = pickst[o]
    OBVIOUS
  <2>3. q \in {"PACKED", "SHIPPED"} => Serialled(o, q)' = Serialled(o, q)
    BY <1>8 DEF GoneStatus
  <2>4. pickst'[o] = q
    BY <1>4, <2>2
  <2>5. Gone(o)' = Gone(o)
    BY <1>8
  <2>6. QED
    BY <2>1, <2>2, <2>3, <2>4, <2>5
<1>12. QED
  BY <1>4, <1>9, <1>10, <1>11, SerialCommit

(* A pick adds its serials to those of its line, one for each piece, and no  *)
(* other request holds one of them.                                         *)
LEMMA SerialPicked ==
  ASSUME SInv, NEW c \in Client, CommitSerialPick(c)
  PROVE  SInv'
<1>1. PICK r : r = reqs[c]
  OBVIOUS
<1>2. PICK o \in SerialOrder : o = r.order
  BY <1>1 DEF CommitSerialPick, At, SInv, Knows, PickKnows
<1>3. PickKnows(r) /\ r.op = "serialPick"
  BY <1>1 DEF CommitSerialPick, At, SInv, Knows
<1>4. PICK S \in SUBSET Serial : S = r.serials
  BY <1>3 DEF PickKnows
<1>5. IsFiniteSet(S) /\ Cardinality(S) \in Nat
  BY SerialConstants, FS_Subset, FS_CardinalityType
<1>6. PICK n \in 0..Needed : n = r.saw + Cardinality(S)
  BY <1>3, <1>4, <1>5, SerialConstants DEF PickKnows
<1>7. /\ serial' = [s \in Serial |-> IF s \in S THEN [st |-> "PICKED", order |-> o, bin |-> NoBin] ELSE serial[s]]
      /\ taken' = [taken EXCEPT ![o] = n]
      /\ pickst' = IF n = Needed THEN [pickst EXCEPT ![o] = "PICKED"] ELSE pickst
      /\ reqs' = [reqs EXCEPT ![c] = NoReq]
      /\ UNCHANGED <<scanned, misnamed>>
  BY <1>1, <1>2, <1>4, <1>6 DEF CommitSerialPick, SetSerials, Finish, Advance
<1>8. /\ serial \in [Serial -> SerialRow] /\ misnamed \in BOOLEAN
      /\ taken \in [SerialOrder -> 0..Needed]
      /\ pickst \in [SerialOrder -> {"PICKING", "PICKED", "PACKED", "SHIPPED"}]
  BY DEF SInv, SerialTypes
<1>9. SerialTypes'
  <2>1. [st |-> "PICKED", order |-> o, bin |-> NoBin] \in SerialRow
    BY DEF SerialRow, SerialStatus
  <2>2. serial' \in [Serial -> SerialRow]
    BY <1>7, <1>8, <2>1
  <2>3. QED
    BY <1>7, <1>8, <2>2 DEF SInv, SerialTypes
<1>10. \A s \in Serial : serial'[s] = IF s \in S THEN [st |-> "PICKED", order |-> o, bin |-> NoBin] ELSE serial[s]
  BY <1>7
<1>11. \A p \in SerialOrder : p # o => taken'[p] = taken[p] /\ pickst'[p] = pickst[p]
  BY <1>7, <1>8
<1>12. ~misnamed => \A s \in S : serial[s].st = "AVAILABLE" /\ serial[s].bin = r.bin
  BY <1>3, <1>4 DEF PickKnows
<1>13. ASSUME NEW d \in Client, d # c PROVE Knows(reqs[d])'
  <2>1. reqs'[d] = reqs[d] /\ Knows(reqs[d])
    BY <1>7, <1>13 DEF SInv, SerialTypes
  <2>2. reqs[d].op = "serialPick" => PickKnows(reqs[d])'
    <3> SUFFICES ASSUME reqs[d].op = "serialPick" PROVE PickKnows(reqs[d])'
      OBVIOUS
    <3>1. PickKnows(reqs[d])
      BY <2>1 DEF Knows
    <3>2. reqs[d].order # o /\ reqs[d].bin # r.bin
      BY <1>1, <1>2, <1>3, <1>13 DEF SInv, SerialLocks
    <3>3. ~misnamed => \A s \in reqs[d].serials : s \notin S
      BY <1>12, <3>1, <3>2 DEF PickKnows
    <3>4. ~misnamed => \A s \in reqs[d].serials : serial'[s] = serial[s]
      BY <1>10, <3>1, <3>3 DEF PickKnows
    <3>5. taken'[reqs[d].order] = taken[reqs[d].order] /\ pickst'[reqs[d].order] = pickst[reqs[d].order]
      BY <1>11, <3>1, <3>2 DEF PickKnows
    <3>6. QED
      BY <1>7, <2>1, <3>1, <3>4, <3>5 DEF PickKnows
  <2>3. reqs[d].op = "serialPack" => PackKnows(reqs[d])'
    <3> SUFFICES ASSUME reqs[d].op = "serialPack" PROVE PackKnows(reqs[d])'
      OBVIOUS
    <3>1. PackKnows(reqs[d])
      BY <2>1 DEF Knows
    <3>2. reqs[d].order # o
      BY <1>1, <1>2, <1>3, <1>13 DEF SInv, SerialLocks
    <3>3. taken'[reqs[d].order] = taken[reqs[d].order] /\ pickst'[reqs[d].order] = pickst[reqs[d].order]
      BY <1>11, <3>1, <3>2 DEF PackKnows
    <3>4. ~misnamed => reqs[d].serials \subseteq Serialled(reqs[d].order, pickst[reqs[d].order])'
      <4> SUFFICES ASSUME ~misnamed, NEW s \in reqs[d].serials
                   PROVE  s \in Serialled(reqs[d].order, pickst[reqs[d].order])'
        OBVIOUS
      <4>1. s \in Serial /\ serial[s].st = pickst[reqs[d].order] /\ serial[s].order = reqs[d].order
        BY <3>1 DEF PackKnows, Serialled
      <4>2. pickst[reqs[d].order] # "AVAILABLE"
        BY <3>1 DEF PackKnows, SerialStep
      <4>3. serial'[s] = serial[s]
        BY <1>10, <1>12, <4>1, <4>2
      <4>4. QED
        BY <2>1, <3>3, <4>1, <4>3 DEF Serialled
    <3>5. QED
      BY <1>7, <2>1, <3>1, <3>3, <3>4 DEF PackKnows
  <2>4. reqs[d].op = "serialReceive" => ReceiveKnows(reqs[d])'
    <3> SUFFICES ASSUME reqs[d].op = "serialReceive" PROVE ReceiveKnows(reqs[d])'
      OBVIOUS
    <3>1. ReceiveKnows(reqs[d])
      BY <2>1 DEF Knows
    <3>2. ~misnamed /\ reqs[d].known => \A s \in reqs[d].serials : s \notin S
      BY <1>12, <3>1 DEF ReceiveKnows
    <3>3. ~misnamed /\ reqs[d].known => \A s \in reqs[d].serials : serial'[s] = serial[s]
      BY <1>10, <3>1, <3>2 DEF ReceiveKnows
    <3>4. QED
      BY <1>7, <2>1, <3>1, <3>3 DEF ReceiveKnows
  <2>5. QED
    BY <2>1, <2>2, <2>3, <2>4 DEF Knows
<1>14. ASSUME ~misnamed, NEW p \in SerialOrder \ scanned
       PROVE  /\ Cardinality(Gone(p)') = taken'[p]
              /\ pickst'[p] \in {"PACKED", "SHIPPED"} => Gone(p)' = Serialled(p, pickst[p])'
  <2>1. Cardinality(Gone(p)) = taken[p] /\ (pickst[p] \in {"PACKED", "SHIPPED"} => Gone(p) = Serialled(p, pickst[p]))
    BY <1>14 DEF SInv
  <2>2. CASE p = o
    <3>1. Gone(o)' = Gone(o) \cup S /\ Gone(o) \cap S = {}
      BY <1>10, <1>12, <1>14 DEF Gone, GoneStatus
    <3>2. Cardinality(Gone(o) \cup S) = Cardinality(Gone(o)) + Cardinality(S)
      <4>1. IsFiniteSet(Gone(o)) /\ Cardinality(Gone(o) \cap S) = 0
        BY <3>1, GoneFinite, FS_EmptySet
      <4>2. Cardinality(Gone(o) \cup S) = Cardinality(Gone(o)) + Cardinality(S) - Cardinality(Gone(o) \cap S)
        BY <1>5, <4>1, FS_Union
      <4>3. PICK k \in Nat : k = Cardinality(Gone(o))
        BY GoneFinite
      <4>4. PICK m \in Nat : m = Cardinality(S)
        BY <1>5
      <4>5. QED
        BY <4>1, <4>2, <4>3, <4>4
    <3>3. taken'[o] = n /\ r.saw = taken[o]
      BY <1>2, <1>3, <1>7, <1>8, <1>14, <2>2 DEF PickKnows
    <3>4. pickst'[o] \in {"PICKING", "PICKED"}
      BY <1>2, <1>3, <1>7, <1>8 DEF PickKnows
    <3>5. QED
      BY <1>6, <2>1, <2>2, <3>1, <3>2, <3>3, <3>4
  <2>3. CASE p # o
    <3>1. \A s \in S : serial[s].st \notin GoneStatus
      BY <1>12, <1>14 DEF GoneStatus
    <3>2. Gone(p)' = Gone(p)
      BY <1>10, <2>3, <3>1 DEF Gone
    <3>3. PICK q : q = pickst[p]
      OBVIOUS
    <3>4. q \in {"PACKED", "SHIPPED"} => Serialled(p, q)' = Serialled(p, q)
      BY <1>10, <2>3, <3>1 DEF Serialled, GoneStatus
    <3>5. taken'[p] = taken[p] /\ pickst'[p] = q
      BY <1>11, <2>3, <3>3
    <3>6. QED
      BY <2>1, <3>2, <3>3, <3>4, <3>5
  <2>4. QED
    BY <2>2, <2>3
<1>15. QED
  BY <1>7, <1>9, <1>13, <1>14, SerialCommit

(* A transition takes all serials of its line along.                        *)
LEMMA SerialMoved ==
  ASSUME SInv, NEW c \in Client, TransitionOrderSerials(c)
  PROVE  SInv'
<1>1. PICK r : r = reqs[c]
  OBVIOUS
<1>2. PackKnows(r) /\ r.op = "serialPack"
  BY <1>1 DEF TransitionOrderSerials, At, SInv, Knows
<1>3. PICK o \in SerialOrder : o = r.order
  BY <1>2 DEF PackKnows
<1>4. PICK S \in SUBSET Serial : S = r.serials
  BY <1>2 DEF PackKnows
<1>5. PICK from \in {"PICKED", "PACKED"} : from = pickst[o]
  BY <1>2, <1>3 DEF PackKnows, SerialStep
<1>6. PICK to \in {"PACKED", "SHIPPED"} : to = SerialStep[from]
  BY DEF SerialStep
<1>7. /\ serial' = [s \in Serial |-> IF s \in S THEN [serial[s] EXCEPT !.st = to, !.order = o] ELSE serial[s]]
      /\ pickst' = [pickst EXCEPT ![o] = to]
      /\ reqs' = [reqs EXCEPT ![c] = NoReq]
      /\ UNCHANGED <<taken, scanned, misnamed>>
  BY <1>1, <1>3, <1>4, <1>5, <1>6 DEF TransitionOrderSerials, SetSerials, Finish, Advance
<1>8. /\ serial \in [Serial -> SerialRow] /\ misnamed \in BOOLEAN
      /\ taken \in [SerialOrder -> 0..Needed]
      /\ pickst \in [SerialOrder -> {"PICKING", "PICKED", "PACKED", "SHIPPED"}]
  BY DEF SInv, SerialTypes
<1>9. \A s \in Serial : /\ s \in S => serial'[s].st = to /\ serial'[s].order = o /\ serial'[s] \in SerialRow
                        /\ s \notin S => serial'[s] = serial[s]
  <2> SUFFICES ASSUME NEW s \in Serial
               PROVE  /\ s \in S => serial'[s].st = to /\ serial'[s].order = o /\ serial'[s] \in SerialRow
                      /\ s \notin S => serial'[s] = serial[s]
    OBVIOUS
  <2>1. serial[s] \in SerialRow
    BY <1>8
  <2>2. serial'[s] = IF s \in S THEN [serial[s] EXCEPT !.st = to, !.order = o] ELSE serial[s]
    BY <1>7
  <2>3. to \in SerialStatus
    BY DEF SerialStatus
  <2>4. QED
    BY <2>1, <2>2, <2>3 DEF SerialRow
<1>10. SerialTypes'
  <2>1. serial' \in [Serial -> SerialRow]
    <3>1. serial' = [s \in Serial |-> serial'[s]]
      BY <1>7
    <3>2. \A s \in Serial : serial'[s] \in SerialRow
      BY <1>8, <1>9
    <3>3. QED
      BY <3>1, <3>2
  <2>2. QED
    BY <1>7, <1>8, <2>1 DEF SInv, SerialTypes
<1>11. \A p \in SerialOrder : p # o => pickst'[p] = pickst[p]
  BY <1>7, <1>8
<1>12. pickst'[o] = to
  BY <1>7, <1>8
<1>13. ~misnamed => \A s \in S : serial[s].st = from /\ serial[s].order = o
  BY <1>2, <1>3, <1>4, <1>5 DEF PackKnows, Serialled
<1>14. ASSUME NEW d \in Client, d # c PROVE Knows(reqs[d])'
  <2>1. reqs'[d] = reqs[d] /\ Knows(reqs[d])
    BY <1>7, <1>14 DEF SInv, SerialTypes
  <2>2. reqs[d].op = "serialPick" => PickKnows(reqs[d])'
    <3> SUFFICES ASSUME reqs[d].op = "serialPick" PROVE PickKnows(reqs[d])'
      OBVIOUS
    <3>1. PickKnows(reqs[d])
      BY <2>1 DEF Knows
    <3>2. reqs[d].order # o
      BY <1>1, <1>2, <1>3, <1>14 DEF SInv, SerialLocks
    <3>3. ~misnamed => \A s \in reqs[d].serials : s \notin S
      BY <1>13, <3>1 DEF PickKnows
    <3>4. ~misnamed => \A s \in reqs[d].serials : serial'[s] = serial[s]
      BY <1>9, <3>1, <3>3 DEF PickKnows
    <3>5. pickst'[reqs[d].order] = pickst[reqs[d].order]
      BY <1>11, <3>1, <3>2 DEF PickKnows
    <3>6. PICK q : q = reqs[d]
      OBVIOUS
    <3>7. taken'[q.order] = taken[q.order]
      BY <1>7
    <3>8. PickKnows(q)'
      BY <1>7, <2>1, <3>1, <3>4, <3>5, <3>6, <3>7 DEF PickKnows
    <3>9. QED
      BY <2>1, <3>6, <3>8
  <2>3. reqs[d].op = "serialPack" => PackKnows(reqs[d])'
    <3> SUFFICES ASSUME reqs[d].op = "serialPack" PROVE PackKnows(reqs[d])'
      OBVIOUS
    <3>1. PackKnows(reqs[d])
      BY <2>1 DEF Knows
    <3>2. reqs[d].order # o
      BY <1>1, <1>2, <1>3, <1>14 DEF SInv, SerialLocks
    <3>3. pickst'[reqs[d].order] = pickst[reqs[d].order]
      BY <1>11, <3>1, <3>2 DEF PackKnows
    <3>4. ~misnamed => reqs[d].serials \subseteq Serialled(reqs[d].order, pickst[reqs[d].order])'
      <4> SUFFICES ASSUME ~misnamed, NEW s \in reqs[d].serials
                   PROVE  s \in Serialled(reqs[d].order, pickst[reqs[d].order])'
        OBVIOUS
      <4>1. s \in Serial /\ serial[s].st = pickst[reqs[d].order] /\ serial[s].order = reqs[d].order
        BY <3>1 DEF PackKnows, Serialled
      <4>2. serial'[s] = serial[s]
        BY <1>9, <1>13, <3>2, <4>1
      <4>3. QED
        BY <2>1, <3>3, <4>1, <4>2 DEF Serialled
    <3>5. PICK q : q = reqs[d]
      OBVIOUS
    <3>6. taken'[q.order] = taken[q.order]
      BY <1>7
    <3>7. PackKnows(q)'
      BY <1>7, <2>1, <3>1, <3>3, <3>4, <3>5, <3>6 DEF PackKnows, Serialled
    <3>8. QED
      BY <2>1, <3>5, <3>7
  <2>4. reqs[d].op = "serialReceive" => ReceiveKnows(reqs[d])'
    <3> SUFFICES ASSUME reqs[d].op = "serialReceive" PROVE ReceiveKnows(reqs[d])'
      OBVIOUS
    <3>1. ReceiveKnows(reqs[d])
      BY <2>1 DEF Knows
    <3>2. ~misnamed /\ reqs[d].known => \A s \in reqs[d].serials : s \notin S
      BY <1>13, <3>1 DEF ReceiveKnows
    <3>3. ~misnamed /\ reqs[d].known => \A s \in reqs[d].serials : serial'[s] = serial[s]
      BY <1>9, <3>1, <3>2 DEF ReceiveKnows
    <3>4. QED
      BY <1>7, <2>1, <3>1, <3>3 DEF ReceiveKnows
  <2>5. QED
    BY <2>1, <2>2, <2>3, <2>4 DEF Knows
<1>15. ASSUME ~misnamed, NEW p \in SerialOrder \ scanned
       PROVE  /\ Cardinality(Gone(p)') = taken'[p]
              /\ pickst'[p] \in {"PACKED", "SHIPPED"} => Gone(p)' = Serialled(p, pickst[p])'
  <2>1. Cardinality(Gone(p)) = taken[p] /\ (pickst[p] \in {"PACKED", "SHIPPED"} => Gone(p) = Serialled(p, pickst[p]))
    BY <1>15 DEF SInv
  <2>2. Gone(p)' = Gone(p)
    <3>1. \A s \in S : serial[s].st \in GoneStatus /\ serial'[s].st \in GoneStatus
                       /\ serial'[s].order = serial[s].order
      BY <1>9, <1>13, <1>15 DEF GoneStatus
    <3>2. QED
      BY <1>9, <3>1 DEF Gone
  <2>3. CASE p = o
    <3>1. S \subseteq Gone(o)
      BY <1>13, <1>15 DEF Gone, GoneStatus
    <3>2. Cardinality(S) = Cardinality(Gone(o))
      BY <1>2, <1>3, <1>4, <1>15, <2>1, <2>3 DEF PackKnows
    <3>3. S = Gone(o)
      BY <3>1, <3>2, GoneFinite, FS_Subset
    <3>4. Serialled(o, to)' = S
      <4>1. \A s \in Serial : s \notin S => ~ (serial'[s].st = to /\ serial'[s].order = o)
        BY <1>9, <3>3 DEF Gone, GoneStatus
      <4>2. QED
        BY <1>9, <4>1 DEF Serialled
    <3>5. Serialled(o, pickst[o])' = Serialled(o, to)'
      BY <1>12
    <3>6. QED
      BY <1>7, <2>1, <2>2, <2>3, <3>3, <3>4, <3>5
  <2>4. CASE p # o
    <3>1. PICK q : q = pickst[p]
      OBVIOUS
    <3>2. Serialled(p, q)' = Serialled(p, q)
      BY <1>9, <1>13, <1>15, <2>4 DEF Serialled
    <3>3. pickst'[p] = q
      BY <1>11, <2>4, <3>1
    <3>4. QED
      BY <1>7, <2>1, <2>2, <3>1, <3>2, <3>3
  <2>5. QED
    BY <2>3, <2>4
<1>16. QED
  BY <1>7, <1>10, <1>14, <1>15, SerialCommit

(* All steps together.                                                      *)
LEMMA SerialsInductive == SInv /\ [SerialsNext]_<<reqVars, serialVars>> => SInv'
<1> SUFFICES ASSUME SInv, [SerialsNext]_<<reqVars, serialVars>> PROVE SInv'
  OBVIOUS
<1>1. CASE UNCHANGED <<reqVars, serialVars>>
  <2>1. UNCHANGED <<reqs, serial, pickst, taken, scanned, misnamed>>
    BY <1>1 DEF reqVars, serialVars
  <2>2. SerialTypes' /\ SerialLocks'
    BY <2>1 DEF SInv, SerialTypes, SerialLocks
  <2>3. \A o, st : Gone(o)' = Gone(o) /\ Serialled(o, st)' = Serialled(o, st)
    BY <2>1 DEF Gone, Serialled
  <2>4. \A o : Serialled(o, pickst[o])' = Serialled(o, pickst[o])
    BY <2>1 DEF Serialled
  <2>5. \A d \in Client : Knows(reqs[d])'
    BY <2>1 DEF SInv, Knows, PickKnows, PackKnows, ReceiveKnows, Serialled
  <2>6. QED
    BY <2>1, <2>2, <2>3, <2>4, <2>5 DEF SInv
<1>2. QED
  BY <1>1, SerialStatements, SerialBegins, SerialReceived, SerialPicked, SerialMoved
     DEF SerialsNext, SerialsStep

(* The serials gone with an order are those its status names.               *)
LEMMA GoneSuffices == SInv => OneSerialPerPiece
<1> SUFFICES ASSUME SInv, ~misnamed, NEW o \in SerialOrder \ scanned
             PROVE  /\ Cardinality(Serialled(o, "PICKED") \cup Serialled(o, "PACKED") \cup Serialled(o, "SHIPPED")) = taken[o]
                    /\ pickst[o] \in {"PACKED", "SHIPPED"} => Cardinality(Serialled(o, pickst[o])) = taken[o]
  BY DEF OneSerialPerPiece
<1>1. Cardinality(Gone(o)) = taken[o] /\ (pickst[o] \in {"PACKED", "SHIPPED"} => Gone(o) = Serialled(o, pickst[o]))
  BY DEF SInv
<1>2. QED
  BY <1>1, GoneFinite

(* A line picked at the desk has one serial for each piece, and they go     *)
(* with the order: the row locks of the quant and the order suffice.        *)
THEOREM SerialPerPiece == SerialsSpec => []OneSerialPerPiece
  BY GoneSuffices, SerialsInitial, SerialsInductive, PTL DEF SerialsSpec

(* The scanner picks for orders there are.                                  *)
LEMMA ScannedKept ==
  scanned \subseteq SerialOrder /\ [SerialsNext]_<<reqVars, serialVars>> => (scanned \subseteq SerialOrder)'
<1> SUFFICES ASSUME scanned \subseteq SerialOrder, [SerialsNext]_<<reqVars, serialVars>>
             PROVE  (scanned \subseteq SerialOrder)'
  OBVIOUS
<1>1. ASSUME ScannerPick PROVE (scanned \subseteq SerialOrder)'
  BY <1>1 DEF ScannerPick
<1>2. ASSUME UNCHANGED scanned PROVE (scanned \subseteq SerialOrder)'
  BY <1>2
<1>3. QED
  BY <1>1, <1>2, Zenon
     DEF SerialsNext, SerialsStep, CreateSerial, UpdateSerial, BeginSerialReceive, RecordReceiveSerials,
         BeginSerialPick, CommitSerialPick, BeginSerialTransition, TransitionOrderSerials, serialVars

(* The invariant and the scanner's orders are what the types ask.           *)
LEMMA SerialsTyped == SInv /\ scanned \subseteq SerialOrder => SerialsTypeOK
  BY DEF SInv, SerialTypes, SerialsTypeOK, SerialRow

(* No line takes more than was ordered, whoever picks, and a serial stands  *)
(* for one order and one quant at most.                                     *)
THEOREM SerialsTypeCorrect == SerialsSpec => []SerialsTypeOK
<1>1. SerialsInit => scanned \subseteq SerialOrder
  BY DEF SerialsInit
<1>2. QED
  BY <1>1, SerialsInitial, SerialsInductive, ScannedKept, SerialsTyped, PTL DEF SerialsSpec

-----------------------------------------------------------------------------
(* Shipping beside waves.                                                   *)
ShipRow == [order : Order, st : ShipmentStatus]
PackRow == [ship : Nat, st : PackageStatus, has : [Line -> 0..Ordered]]
ContentsIn(rows, P, l) == MapThenSumSet(LAMBDA p : rows[p].has[l], P)
Locking == {"pack", "release"}

ShipTypes ==
  /\ reqs = [c \in Client |-> reqs[c]]
  /\ order \in [Order -> OrderStatus]
  /\ picked \in [Order -> [Line -> 0..Ordered]]
  /\ ship \in Seq(ShipRow) /\ pack \in Seq(PackRow)
  /\ \A p \in DOMAIN pack : /\ pack[p].ship \in DOMAIN ship
                            /\ \E l \in Line : pack[p].has[l] > 0
  /\ \A c \in Client : reqs[c].op \in {"pack", "stage", "ship"} => reqs[c].ship \in DOMAIN ship

OrderLocks ==
  \A c, d \in Client : reqs[c].op \in Locking /\ reqs[d].op \in Locking /\ c # d
                       => reqs[c].locks \cap reqs[d].locks = {}

Shape(r) ==
  /\ r.op = "release" => r = [op |-> "release", pc |-> r.pc, wave |-> r.wave, done |-> r.done,
                              found |-> r.found, new |-> r.new, locks |-> r.locks]
  /\ r.op \in {"stage", "ship"} => r = [op |-> r.op, pc |-> r.pc, ship |-> r.ship]

(* What a packer computed under the lock is still so, and an order that a   *)
(* release has updated stays where it was.                                  *)
Planned(r) ==
  /\ r.op = "pack" /\ r.pc = "commit" =>
       LET o == ship[r.ship].order IN
       /\ r.locks = {o} /\ r.has \in [Line -> 0..Ordered]
       /\ \E l \in Line : r.has[l] > 0
       /\ \A l \in Line : Contents(PackagesOf(o), l) + r.has[l] <= picked[o][l]
  /\ r.op = "release" => \A o \in r.locks \cap Order : order[o] \in {"ALLOCATED", "PICKING"}
  /\ Shape(r)

(* A shipment that left, or of which a request has found everything packed. *)
Cleared(s) == \/ Packages(s, {"SHIPPED"}) # {}
              \/ \E c \in Client : At(c, "ship", "commit") /\ reqs[c].ship = s

OneCleared ==
  \A s, t \in DOMAIN ship :
    /\ Cleared(s) => Packages(s, PackageStatus) # {}
    /\ Cleared(s) /\ Cleared(t) /\ ship[s].order = ship[t].order => s = t

PInv == /\ ShipTypes /\ OrderLocks
        /\ \A c \in Client : Planned(reqs[c])
        /\ PackedWithinPicked /\ OneCleared

(* What a list of packages holds of a line is the sum over them.            *)
LEMMA ContentsIsSum ==
  ASSUME NEW rows \in Seq(PackRow), NEW P \in SUBSET DOMAIN rows, NEW l \in Line
  PROVE  /\ ContentsIn(rows, P, l) = SumOf([p \in DOMAIN rows |-> rows[p].has[l]], P)
         /\ IsFiniteSet(P) /\ ContentsIn(rows, P, l) \in Nat
         /\ \A p \in DOMAIN rows : rows[p].has[l] \in Nat
<1> DEFINE f == [p \in DOMAIN rows |-> rows[p].has[l]]
           Rec(g) == g = [s \in SUBSET P |-> IF s = {} THEN 0 ELSE rows[First(s)].has[l] + g[s \ {First(s)}]]
<1>1. IsFiniteSet(P)
  <2>1. DOMAIN rows = 1..Len(rows) /\ Len(rows) \in Nat
    OBVIOUS
  <2>2. IsFiniteSet(1..Len(rows))
    BY <2>1, FS_Interval
  <2>3. QED
    BY <2>1, <2>2, FS_Subset
<1>2. \A p \in DOMAIN rows : rows[p].has[l] \in Nat
  <2> SUFFICES ASSUME NEW p \in DOMAIN rows PROVE rows[p].has[l] \in Nat
    OBVIOUS
  <2>1. rows[p] \in PackRow
    OBVIOUS
  <2>2. rows[p].has[l] \in 0..Ordered
    BY <2>1 DEF PackRow
  <2>3. QED
    BY <2>2, ShippingConstants
<1>3. \A s \in SUBSET P : s # {} => First(s) \in DOMAIN rows
  BY DEF First
<1>4. \A g : Rec(g) <=> Sums(g, f, P)
  BY <1>3 DEF Sums
<1>5. ContentsIn(rows, P, l) = (CHOOSE g : Rec(g))[P]
  BY DEF ContentsIn, MapThenSumSet, MapThenFoldSet, First
<1>6. \A p \in P : f[p] \in Nat
  BY <1>2
<1> HIDE DEF Rec, f
<1>7. \E g : Rec(g)
  BY <1>1, <1>4, TableExists
<1>8. Sums(CHOOSE g : Rec(g), f, P)
  BY <1>4, <1>7
<1>9. (CHOOSE g : Rec(g))[P] = Table(f, P)[P]
  BY <1>1, <1>8, TableExists, TablesAgree
<1>10. SumOf(f, P) = Table(f, P)[P]
  BY <1>1, SumIsTable
<1>11. SumOf(f, P) \in Nat
  BY <1>1, <1>6, SumNat
<1>12. QED
  BY <1>1, <1>2, <1>5, <1>9, <1>10, <1>11 DEF f

(* The sum depends on the contents of the packages counted.                 *)
LEMMA ContentsSame ==
  ASSUME NEW rows \in Seq(PackRow), NEW more \in Seq(PackRow), NEW P, NEW l \in Line,
         P \subseteq DOMAIN rows, P \subseteq DOMAIN more,
         \A p \in P : more[p].has = rows[p].has
  PROVE  ContentsIn(more, P, l) = ContentsIn(rows, P, l)
<1> DEFINE f == [p \in DOMAIN rows |-> rows[p].has[l]]
           g == [p \in DOMAIN more |-> more[p].has[l]]
<1>1. \A p \in P : f[p] = g[p]
  OBVIOUS
<1>2. /\ ContentsIn(rows, P, l) = SumOf(f, P) /\ ContentsIn(more, P, l) = SumOf(g, P)
      /\ IsFiniteSet(P)
  BY ContentsIsSum
<1> HIDE DEF f, g
<1>3. QED
  BY <1>1, <1>2, SumSame

(* A package more.                                                          *)
LEMMA ContentsAdd ==
  ASSUME NEW rows \in Seq(PackRow), NEW P \in SUBSET DOMAIN rows, NEW p \in DOMAIN rows, p \notin P,
         NEW l \in Line
  PROVE  ContentsIn(rows, P \cup {p}, l) = ContentsIn(rows, P, l) + rows[p].has[l]
<1> DEFINE f == [q \in DOMAIN rows |-> rows[q].has[l]]
           Q == P \cup {p}
<1>1. /\ ContentsIn(rows, P, l) = SumOf(f, P) /\ ContentsIn(rows, Q, l) = SumOf(f, Q)
      /\ IsFiniteSet(Q) /\ \A q \in DOMAIN rows : f[q] \in Nat
      /\ ContentsIn(rows, P, l) \in Nat
  BY ContentsIsSum
<1>2. f[p] = rows[p].has[l] /\ p \in Q /\ Q \ {p} = P /\ \A q \in Q : f[q] \in Int
  BY <1>1
<1> HIDE DEF f, Q
<1>3. SumOf(f, Q) = f[p] + SumOf(f, Q \ {p})
  BY <1>1, <1>2, SumAdd
<1>4. PICK a \in Nat : a = SumOf(f, P)
  BY <1>1
<1>5. PICK b \in Nat : b = f[p]
  BY <1>1
<1>6. ContentsIn(rows, Q, l) = a + b
  <2>1. SumOf(f, Q \ {p}) = a
    BY <1>2, <1>4
  <2>2. SumOf(f, Q) = b + a
    BY <1>3, <1>5, <2>1
  <2>3. QED
    BY <1>1, <2>2
<1>7. QED
  BY <1>1, <1>2, <1>4, <1>5, <1>6 DEF Q

(* A part of the packages and one beside it hold no more than them all.     *)
LEMMA ContentsPart ==
  ASSUME NEW rows \in Seq(PackRow), NEW Q \in SUBSET DOMAIN rows, NEW P \in SUBSET Q, NEW p \in Q \ P,
         NEW l \in Line
  PROVE  ContentsIn(rows, P, l) + rows[p].has[l] <= ContentsIn(rows, Q, l)
<1> DEFINE f == [q \in DOMAIN rows |-> rows[q].has[l]]
           R == Q \ (P \cup {p})
           B == P \cup {p}
<1>1. /\ ContentsIn(rows, Q, l) = SumOf(f, Q) /\ ContentsIn(rows, B, l) = SumOf(f, B)
      /\ IsFiniteSet(R) /\ IsFiniteSet(B) /\ \A q \in DOMAIN rows : f[q] \in Nat
  BY ContentsIsSum
<1>2. B \cap R = {} /\ Q = B \cup R /\ \A q \in B \cup R : f[q] \in Int
  BY <1>1
<1>3. \A q \in R : f[q] \in Nat
  BY <1>1
<1>4. \A q \in B : f[q] \in Nat
  BY <1>1
<1>5. ContentsIn(rows, B, l) = ContentsIn(rows, P, l) + rows[p].has[l]
  BY ContentsAdd
<1> HIDE DEF f, R, B
<1>6. SumOf(f, B \cup R) = SumOf(f, B) + SumOf(f, R)
  BY <1>1, <1>2, SumJoin
<1>7. PICK a \in Nat : a = SumOf(f, B)
  BY <1>1, <1>4, SumNat
<1>8. PICK b \in Nat : b = SumOf(f, R)
  BY <1>1, <1>3, SumNat
<1>9. ContentsIn(rows, Q, l) = a + b /\ ContentsIn(rows, B, l) = a
  BY <1>1, <1>2, <1>6, <1>7, <1>8
<1>10. QED
  BY <1>5, <1>9

-----------------------------------------------------------------------------
(* The rows of packages, written by their statuses.                         *)
LEMMA PackFacts ==
  ASSUME ShipTypes
  PROVE  /\ DOMAIN pack = 1..Len(pack) /\ Len(pack) \in Nat
         /\ \A p \in DOMAIN pack : /\ pack[p] \in PackRow /\ pack[p].ship \in DOMAIN ship
                                   /\ pack[p].st \in PackageStatus
                                   /\ ship[pack[p].ship].order \in Order
         /\ \A s \in DOMAIN ship : ship[s] \in ShipRow /\ ship[s].order \in Order
<1>1. DOMAIN pack = 1..Len(pack) /\ Len(pack) \in Nat /\ \A p \in DOMAIN pack : pack[p] \in PackRow
  BY DEF ShipTypes
<1>2. \A s \in DOMAIN ship : ship[s] \in ShipRow
  BY DEF ShipTypes
<1>3. QED
  BY <1>1, <1>2 DEF ShipTypes, PackRow, ShipRow

(* The model's sums in terms of the above.                                  *)
LEMMA ContentsOfRows == \A P, l : Contents(P, l) = ContentsIn(pack, P, l)
BY DEF Contents, ContentsIn

(* What lies in the packages is a number.                                   *)
LEMMA PackedNat ==
  ASSUME ShipTypes, NEW o, NEW l \in Line
  PROVE  Contents(PackagesOf(o), l) \in Nat /\ PackagesOf(o) \subseteq DOMAIN pack
<1>1. PackagesOf(o) \in SUBSET DOMAIN pack
  BY DEF PackagesOf
<1>2. pack \in Seq(PackRow)
  BY DEF ShipTypes
<1>3. QED
  BY <1>1, <1>2, ContentsIsSum, ContentsOfRows

(* A request that reads and writes no row of shipping: it begins, ends or   *)
(* moves on, with locks nobody else has.                                    *)
LEMMA ShippingRequest ==
  ASSUME PInv, NEW c \in Client, NEW r, reqs' = [reqs EXCEPT ![c] = r],
         UNCHANGED <<order, picked, ship, pack>>,
         r.op \in {"pack", "stage", "ship"} => r.ship \in DOMAIN ship,
         r.op \in Locking => \A d \in Client : d # c /\ reqs[d].op \in Locking
                                               => r.locks \cap reqs[d].locks = {},
         Planned(r),
         r.op = "ship" /\ r.pc = "commit" =>
           \/ At(c, "ship", "commit") /\ reqs[c].ship = r.ship
           \/ /\ Packages(r.ship, PackageStatus) # {}
              /\ \A t \in DOMAIN ship : Cleared(t) /\ ship[t].order = ship[r.ship].order => t = r.ship
  PROVE  PInv'
<1>1. \A d \in Client : reqs'[d] = IF d = c THEN r ELSE reqs[d]
  BY DEF PInv, ShipTypes
<1>2. UNCHANGED <<order, picked, ship, pack>>
  OBVIOUS
<1>3. ShipTypes'
  <2>1. \A d \in Client : reqs'[d].op \in {"pack", "stage", "ship"} => reqs'[d].ship \in DOMAIN ship
    BY <1>1 DEF PInv, ShipTypes
  <2>2. reqs' = [d \in Client |-> reqs'[d]]
    BY DEF PInv, ShipTypes
  <2>3. QED
    BY <1>2, <2>1, <2>2 DEF PInv, ShipTypes
<1>4. OrderLocks'
  <2> SUFFICES ASSUME NEW a \in Client, NEW b \in Client, reqs'[a].op \in Locking, reqs'[b].op \in Locking, a # b
               PROVE  reqs'[a].locks \cap reqs'[b].locks = {}
    BY DEF OrderLocks
  <2>1. CASE a # c /\ b # c
    BY <1>1, <2>1 DEF PInv, OrderLocks
  <2>2. CASE a = c
    <3>1. r.locks \cap reqs[b].locks = {}
      BY <1>1, <2>2
    <3>2. QED
      BY <1>1, <2>2, <3>1
  <2>3. CASE b = c
    <3>1. r.locks \cap reqs[a].locks = {}
      BY <1>1, <2>3
    <3>2. QED
      BY <1>1, <2>3, <3>1
  <2>4. QED
    BY <2>1, <2>2, <2>3
<1>5. \A o, l : Contents(PackagesOf(o), l)' = Contents(PackagesOf(o), l)
  <2> SUFFICES ASSUME NEW o, NEW l PROVE Contents(PackagesOf(o), l)' = Contents(PackagesOf(o), l)
    OBVIOUS
  <2>1. Contents(PackagesOf(o), l)' = ContentsIn(pack', PackagesOf(o)', l)
    BY DEF Contents, ContentsIn, MapThenSumSet, MapThenFoldSet
  <2>2. PackagesOf(o)' = PackagesOf(o)
    BY <1>2 DEF PackagesOf
  <2>3. QED
    BY <1>2, <2>1, <2>2, ContentsOfRows
<1>6. \A d \in Client : Planned(reqs[d])'
  <2> SUFFICES ASSUME NEW d \in Client PROVE Planned(reqs[d])'
    OBVIOUS
  <2>1. PICK q : q = reqs'[d]
    OBVIOUS
  <2>2. Planned(q)
    <3>1. q = r \/ q = reqs[d]
      BY <1>1, <2>1
    <3>2. QED
      BY <3>1 DEF PInv
  <2>3. Planned(q)'
    BY <1>2, <1>5, <2>2 DEF Planned
  <2>4. QED
    BY <2>1, <2>3 DEF Planned
<1>7. PackedWithinPicked'
  BY <1>2, <1>5 DEF PInv, PackedWithinPicked
<1>8. OneCleared'
  <2>1. \A s : Packages(s, PackageStatus)' = Packages(s, PackageStatus)
    BY <1>2 DEF Packages
  <2>2. \A s \in DOMAIN ship : Cleared(s)' => Cleared(s) \/ (r.op = "ship" /\ r.pc = "commit" /\ r.ship = s)
    BY <1>1, <1>2 DEF Cleared, At, Packages
  <2>3. ASSUME r.op = "ship", r.pc = "commit", ~ Cleared(r.ship)
        PROVE  /\ Packages(r.ship, PackageStatus) # {}
               /\ \A t \in DOMAIN ship : Cleared(t) /\ ship[t].order = ship[r.ship].order => t = r.ship
    BY <2>3 DEF Cleared
  <2>4. QED
    BY <1>2, <2>1, <2>2, <2>3 DEF PInv, OneCleared
<1>9. QED
  BY <1>3, <1>4, <1>6, <1>7, <1>8 DEF PInv

(* A statement without a request: shipments may be added, more may be       *)
(* picked, and an order that a release has updated goes on being picked.    *)
LEMMA ShippingStatement ==
  ASSUME PInv, reqs' = reqs, pack' = pack,
         order' \in [Order -> OrderStatus], picked' \in [Order -> [Line -> 0..Ordered]],
         \A o \in Order : order'[o] = order[o] \/ \A d \in Client : reqs[d].op = "release" => o \notin reqs[d].locks,
         \A o \in Order, l \in Line : picked[o][l] <= picked'[o][l],
         ship' \in Seq(ShipRow), DOMAIN ship \subseteq DOMAIN ship',
         \A s \in DOMAIN ship : ship'[s] = ship[s]
  PROVE  PInv'
<1>0. ShipTypes
  BY DEF PInv
<1>1. ShipTypes'
  BY DEF PInv, ShipTypes
<1>2. OrderLocks'
  BY DEF PInv, OrderLocks
<1>3. \A o : PackagesOf(o)' = PackagesOf(o)
  BY <1>0, PackFacts DEF PackagesOf
<1>4. \A o, l : Contents(PackagesOf(o), l)' = Contents(PackagesOf(o), l)
  <2> SUFFICES ASSUME NEW o, NEW l PROVE Contents(PackagesOf(o), l)' = Contents(PackagesOf(o), l)
    OBVIOUS
  <2>1. Contents(PackagesOf(o), l)' = ContentsIn(pack', PackagesOf(o)', l)
    BY DEF Contents, ContentsIn, MapThenSumSet, MapThenFoldSet
  <2>2. QED
    BY <1>3, <2>1, ContentsOfRows
<1>5. \A o \in Order, l \in Line : /\ Contents(PackagesOf(o), l) \in Nat /\ picked[o][l] \in Nat
                                   /\ picked'[o][l] \in Nat
  BY <1>0, PackedNat, ShippingConstants DEF ShipTypes
<1>6. PackedWithinPicked'
  <2> SUFFICES ASSUME NEW o \in Order, NEW l \in Line
               PROVE  Contents(PackagesOf(o), l)' <= picked'[o][l]
    BY DEF PackedWithinPicked
  <2>1. Contents(PackagesOf(o), l) <= picked[o][l]
    BY DEF PInv, PackedWithinPicked
  <2>2. PICK k \in Nat : k = Contents(PackagesOf(o), l)
    BY <1>5
  <2>3. Contents(PackagesOf(o), l)' = k
    BY <1>4, <2>2
  <2>4. QED
    BY <1>5, <2>1, <2>2, <2>3
<1>7. \A d \in Client : Planned(reqs[d])'
  <2> SUFFICES ASSUME NEW d \in Client PROVE Planned(reqs[d])'
    OBVIOUS
  <2>1. PICK q : q = reqs[d]
    OBVIOUS
  <2>2. Planned(q) /\ (q.op = "pack" => q.ship \in DOMAIN ship)
    BY <2>1 DEF PInv, ShipTypes
  <2>3. ASSUME q.op = "pack", q.pc = "commit"
        PROVE  \E o :
               /\ ship'[q.ship].order = o
               /\ q.locks = {o} /\ q.has \in [Line -> 0..Ordered]
               /\ \E l \in Line : q.has[l] > 0
               /\ \A l \in Line : Contents(PackagesOf(o), l)' + q.has[l] <= picked'[o][l]
    <3>1. PICK o \in Order : o = ship[q.ship].order
      BY <1>0, <2>2, <2>3, PackFacts
    <3>2. ship'[q.ship].order = o
      BY <2>2, <2>3, <3>1
    <3>3. /\ q.locks = {o} /\ q.has \in [Line -> 0..Ordered] /\ \E l \in Line : q.has[l] > 0
          /\ \A l \in Line : Contents(PackagesOf(o), l) + q.has[l] <= picked[o][l]
      BY <2>2, <2>3, <3>1 DEF Planned
    <3>4. ASSUME NEW l \in Line PROVE Contents(PackagesOf(o), l)' + q.has[l] <= picked'[o][l]
      <4>1. PICK k \in Nat : k = Contents(PackagesOf(o), l)
        BY <1>5
      <4>2. q.has[l] \in Nat /\ k + q.has[l] <= picked[o][l]
        BY <3>3, <4>1, ShippingConstants
      <4>3. Contents(PackagesOf(o), l)' = k
        BY <1>4, <4>1
      <4>4. QED
        BY <1>5, <4>2, <4>3
    <3>5. QED
      BY <3>2, <3>3, <3>4
  <2>4. ASSUME q.op = "release" PROVE \A o \in q.locks \cap Order : order'[o] \in {"ALLOCATED", "PICKING"}
    BY <2>1, <2>2, <2>4 DEF Planned
  <2>5. Shape(q)'
    BY <2>2 DEF Planned, Shape
  <2>6. Planned(q)'
    BY <2>3, <2>4, <2>5 DEF Planned
  <2>7. reqs'[d] = q
    BY <2>1
  <2>8. QED
    BY <2>6, <2>7 DEF Planned
<1>8. OneCleared'
  <2>1. \A s, S : Packages(s, S)' = Packages(s, S)
    BY DEF Packages
  <2>2. \A s : Cleared(s)' = Cleared(s)
    BY <2>1 DEF Cleared, At
  <2>3. \A s : Cleared(s) => s \in DOMAIN ship
    BY <1>0, PackFacts DEF Cleared, At, Packages, ShipTypes
  <2>4. QED
    BY <2>1, <2>2, <2>3 DEF PInv, OneCleared
<1>9. QED
  BY <1>1, <1>2, <1>6, <1>7, <1>8 DEF PInv

(* A commit that keeps what the packages hold and where they belong.        *)
LEMMA ShippingWritten ==
  ASSUME PInv, NEW c \in Client, reqs' = [reqs EXCEPT ![c] = NoReq], picked' = picked,
         order' \in [Order -> OrderStatus],
         \A o \in Order : order'[o] \in {"ALLOCATED", "PICKING"} \/ order'[o] = order[o]
           \/ \A d \in Client : d # c /\ reqs[d].op = "release" => o \notin reqs[d].locks,
         ship' \in Seq(ShipRow), DOMAIN ship' = DOMAIN ship,
         \A s \in DOMAIN ship : ship'[s].order = ship[s].order,
         pack' \in Seq(PackRow), DOMAIN pack' = DOMAIN pack,
         \A p \in DOMAIN pack : pack'[p].ship = pack[p].ship /\ pack'[p].has = pack[p].has,
         \A s \in DOMAIN ship : Cleared(s)' => Cleared(s)
  PROVE  PInv'
<1>0. ShipTypes
  BY DEF PInv
<1>1. \A d \in Client : reqs'[d] = IF d = c THEN NoReq ELSE reqs[d]
  BY DEF PInv, ShipTypes
<1>2. ShipTypes'
  <2>1. \A d \in Client : reqs'[d].op \in {"pack", "stage", "ship"} => reqs'[d].ship \in DOMAIN ship'
    BY <1>1 DEF PInv, ShipTypes, NoReq
  <2>2. reqs' = [d \in Client |-> reqs'[d]]
    BY DEF PInv, ShipTypes
  <2>3. \A p \in DOMAIN pack' : /\ pack'[p].ship \in DOMAIN ship'
                                /\ \E l \in Line : pack'[p].has[l] > 0
    BY <1>0 DEF ShipTypes
  <2>4. QED
    BY <2>1, <2>2, <2>3 DEF PInv, ShipTypes
<1>3. OrderLocks'
  BY <1>1 DEF PInv, OrderLocks, NoReq, Locking
<1>4. \A o : PackagesOf(o)' = PackagesOf(o) /\ PackagesOf(o) \subseteq DOMAIN pack
  BY <1>0, PackFacts DEF PackagesOf
<1>5. \A o : \A l \in Line : Contents(PackagesOf(o), l)' = Contents(PackagesOf(o), l)
  <2> SUFFICES ASSUME NEW o, NEW l \in Line PROVE Contents(PackagesOf(o), l)' = Contents(PackagesOf(o), l)
    OBVIOUS
  <2>1. Contents(PackagesOf(o), l)' = ContentsIn(pack', PackagesOf(o)', l)
    BY DEF Contents, ContentsIn, MapThenSumSet, MapThenFoldSet
  <2>2. PICK P : P = PackagesOf(o)
    OBVIOUS
  <2>3. PICK rows \in Seq(PackRow) : rows = pack
    BY <1>0 DEF ShipTypes
  <2>4. PICK more \in Seq(PackRow) : more = pack'
    OBVIOUS
  <2>5. P \subseteq DOMAIN rows /\ P \subseteq DOMAIN more /\ \A p \in P : more[p].has = rows[p].has
    BY <1>4, <2>2, <2>3, <2>4
  <2>6. ContentsIn(more, P, l) = ContentsIn(rows, P, l)
    BY <2>5, ContentsSame
  <2>7. QED
    BY <1>4, <2>1, <2>2, <2>3, <2>4, <2>6, ContentsOfRows
<1>6. PackedWithinPicked'
  <2> SUFFICES ASSUME NEW o \in Order, NEW l \in Line
               PROVE  Contents(PackagesOf(o), l)' <= picked'[o][l]
    BY DEF PackedWithinPicked
  <2>1. Contents(PackagesOf(o), l) <= picked[o][l]
    BY DEF PInv, PackedWithinPicked
  <2>2. QED
    BY <1>5, <2>1
<1>7. \A d \in Client : Planned(reqs[d])'
  <2> SUFFICES ASSUME NEW d \in Client PROVE Planned(reqs[d])'
    OBVIOUS
  <2>0. CASE d = c
    <3>1. reqs'[d].op = "none"
      BY <1>1, <2>0 DEF NoReq
    <3>2. QED
      BY <3>1 DEF Planned, Shape
  <2>1. CASE d # c
    <3>1. PICK q : q = reqs[d] /\ q = reqs'[d]
      BY <1>1, <2>1
    <3>2. Planned(q) /\ (q.op = "pack" => q.ship \in DOMAIN ship)
      BY <3>1 DEF PInv, ShipTypes
    <3>3. ASSUME q.op = "pack", q.pc = "commit"
          PROVE  \E o :
                 /\ ship'[q.ship].order = o
                 /\ q.locks = {o} /\ q.has \in [Line -> 0..Ordered]
                 /\ \E l \in Line : q.has[l] > 0
                 /\ \A l \in Line : Contents(PackagesOf(o), l)' + q.has[l] <= picked'[o][l]
      <4>1. PICK o : o = ship[q.ship].order
        OBVIOUS
      <4>2. ship'[q.ship].order = o
        BY <3>2, <3>3, <4>1
      <4>3. /\ q.locks = {o} /\ q.has \in [Line -> 0..Ordered] /\ \E l \in Line : q.has[l] > 0
            /\ \A l \in Line : Contents(PackagesOf(o), l) + q.has[l] <= picked[o][l]
        BY <3>2, <3>3, <4>1 DEF Planned
      <4>4. \A l \in Line : Contents(PackagesOf(o), l)' + q.has[l] <= picked'[o][l]
        BY <1>5, <4>3
      <4>5. QED
        BY <4>2, <4>3, <4>4
    <3>4. ASSUME q.op = "release" PROVE \A o \in q.locks \cap Order : order'[o] \in {"ALLOCATED", "PICKING"}
      BY <2>1, <3>1, <3>2, <3>4 DEF Planned
    <3>5. Shape(q)'
      BY <3>2 DEF Planned, Shape
    <3>6. Planned(q)'
      BY <3>3, <3>4, <3>5 DEF Planned
    <3>7. QED
      BY <3>1, <3>6 DEF Planned
  <2>2. QED
    BY <2>0, <2>1
<1>8. OneCleared'
  <2>1. \A s \in DOMAIN ship : Packages(s, PackageStatus)' = Packages(s, PackageStatus)
    <3>1. \A p \in DOMAIN pack' : pack'[p] \in PackRow
      OBVIOUS
    <3>2. \A p \in DOMAIN pack' : pack'[p].st \in PackageStatus
      BY <3>1 DEF PackRow
    <3>3. \A p \in DOMAIN pack : pack[p].st \in PackageStatus
      BY <1>0, PackFacts
    <3>4. QED
      BY <3>2, <3>3 DEF Packages
  <2>2. QED
    BY <2>1 DEF PInv, OneCleared
<1>9. QED
  BY <1>2, <1>3, <1>6, <1>7, <1>8 DEF PInv

(* Nothing is picked and no package exists.                                 *)
LEMMA ShippingInitial == ReqInit /\ ShippingInit => PInv
<1> SUFFICES ASSUME ReqInit, ShippingInit PROVE PInv
  OBVIOUS
<1>1. pack = <<>> /\ ship = <<>> /\ DOMAIN pack = {} /\ DOMAIN ship = {}
  BY DEF ShippingInit
<1>2. \A c \in Client : reqs[c].op = "none"
  BY DEF ReqInit, NoReq
<1>3. ShipTypes
  <2>1. 0 \in 0..Ordered
    BY ShippingConstants
  <2>2. picked \in [Order -> [Line -> 0..Ordered]] /\ order \in [Order -> OrderStatus]
    BY <2>1 DEF ShippingInit, OrderStatus
  <2>3. reqs = [c \in Client |-> reqs[c]]
    BY DEF ReqInit
  <2>4. ship \in Seq(ShipRow) /\ pack \in Seq(PackRow)
    BY <1>1
  <2>5. QED
    BY <1>1, <1>2, <2>2, <2>3, <2>4 DEF ShipTypes
<1>4. OrderLocks
  BY <1>2 DEF OrderLocks, Locking
<1>5. \A c \in Client : Planned(reqs[c])
  BY <1>2 DEF Planned, Shape
<1>6. PackedWithinPicked
  <2> SUFFICES ASSUME NEW o \in Order, NEW l \in Line
               PROVE  Contents(PackagesOf(o), l) <= picked[o][l]
    BY DEF PackedWithinPicked
  <2>1. PackagesOf(o) = {}
    BY <1>1 DEF PackagesOf
  <2>2. PICK rows \in Seq(PackRow) : rows = pack
    BY <1>3 DEF ShipTypes
  <2>3. ContentsIn(rows, {}, l) = SumOf([p \in DOMAIN rows |-> rows[p].has[l]], {})
    BY ContentsIsSum
  <2>4. ContentsIn(rows, {}, l) = 0
    BY <2>3, SumEmpty
  <2>5. picked[o][l] = 0
    BY DEF ShippingInit
  <2>6. QED
    BY <2>1, <2>2, <2>4, <2>5, ContentsOfRows
<1>7. OneCleared
  BY <1>1 DEF OneCleared
<1>8. QED
  BY <1>3, <1>4, <1>5, <1>6, <1>7 DEF PInv

(* A pick changes the status of its own order, whose row it then needs, and *)
(* sets it to PICKING only where it was ALLOCATED or PICKING.               *)
LEMMA PickWrites ==
  ASSUME ShipTypes, NEW o, NEW l \in Line, NEW n \in 0..Ordered, Picks(o, l, n)
  PROVE  /\ picked' = [picked EXCEPT ![o][l] = n]
         /\ order' \in [Order -> OrderStatus]
         /\ \A p \in Order : \/ order'[p] = order[p]
                            \/ \A d \in Client : reqs[d].op = "release" => p \notin reqs[d].locks
         /\ \A p \in Order : order[p] \notin {"ALLOCATED", "PICKING"} => order'[p] # "PICKING"
<1>1. PICK st \in {"PICKED", "PICKING", order[o]} :
        /\ order' = [order EXCEPT ![o] = st]
        /\ st = "PICKING" => order[o] \in {"ALLOCATED", "PICKING"}
  BY DEF Picks
<1>2. o \in Order => /\ st \in OrderStatus
                     /\ order[o] \notin {"ALLOCATED", "PICKING"} => st # "PICKING"
  BY <1>1 DEF ShipTypes, OrderStatus
<1>3. /\ picked' = [picked EXCEPT ![o][l] = n] /\ order' = [order EXCEPT ![o] = st]
      /\ order' # order => OrderFree(o)
  BY <1>1 DEF Picks
<1>4. /\ order' \in [Order -> OrderStatus]
      /\ \A p \in Order : order'[p] = IF p = o THEN st ELSE order[p]
  BY <1>2, <1>3 DEF ShipTypes
<1>5. \A p \in Order : \/ order'[p] = order[p]
                      \/ \A d \in Client : reqs[d].op = "release" => p \notin reqs[d].locks
  BY <1>3, <1>4 DEF OrderFree
<1>6. QED
  BY <1>2, <1>3, <1>4, <1>5

(* Statements and requests of shipping that write no package.               *)
LEMMA ShippingSmall ==
  ASSUME PInv,
         \/ Pick \/ \E o \in Order : CreateShipment(o)
         \/ \E s \in DOMAIN ship : GenerateLabel(s) \/ CreateLabel(s)
         \/ \E b \in DOMAIN label : TrackingCancels(b)
  PROVE  PInv'
<1>0. ShipTypes
  BY DEF PInv
<1>1. \A o \in Order, l \in Line : picked[o][l] \in 0..Ordered
  BY <1>0 DEF ShipTypes
<1>2. ASSUME Pick PROVE PInv'
  <2>1. PICK o \in Order, l \in Line :
             picked[o][l] < Ordered /\ Picks(o, l, picked[o][l] + 1)
    BY <1>2 DEF Pick
  <2>2. reqs' = reqs /\ UNCHANGED <<ship, pack>>
    BY <1>2 DEF Pick, Once
  <2>3. picked[o][l] + 1 \in 0..Ordered /\ picked[o][l] <= picked[o][l] + 1
    BY <1>1, <2>1, ShippingConstants
  <2>6. /\ picked' = [picked EXCEPT ![o][l] = picked[o][l] + 1]
        /\ order' \in [Order -> OrderStatus]
        /\ \A p \in Order : \/ order'[p] = order[p]
                           \/ \A d \in Client : reqs[d].op = "release" => p \notin reqs[d].locks
    BY <1>0, <2>1, <2>3, PickWrites
  <2>4. picked' \in [Order -> [Line -> 0..Ordered]]
    BY <1>0, <2>3, <2>6 DEF ShipTypes
  <2>5. ASSUME NEW p \in Order, NEW m \in Line PROVE picked[p][m] <= picked'[p][m]
    <3>1. picked'[p][m] = IF p = o /\ m = l THEN picked[o][l] + 1 ELSE picked[p][m]
      BY <1>0, <2>6 DEF ShipTypes
    <3>2. picked[p][m] \in Nat
      BY <1>1, ShippingConstants
    <3>3. QED
      BY <2>3, <3>1, <3>2
  <2>7. ship' \in Seq(ShipRow) /\ DOMAIN ship \subseteq DOMAIN ship' /\ \A s \in DOMAIN ship : ship'[s] = ship[s]
    BY <1>0, <2>2 DEF ShipTypes
  <2>8. QED
    BY <2>2, <2>4, <2>5, <2>6, <2>7, ShippingStatement
<1>3. \A o \in Order, l \in Line : picked[o][l] <= picked[o][l]
  BY <1>1, ShippingConstants
<1>4. order \in [Order -> OrderStatus] /\ picked \in [Order -> [Line -> 0..Ordered]] /\ ship \in Seq(ShipRow)
  BY <1>0 DEF ShipTypes
<1>5. ASSUME NEW o \in Order, CreateShipment(o) PROVE PInv'
  <2>1. reqs' = reqs /\ UNCHANGED <<order, picked, pack>> /\ ship' = Append(ship, [order |-> o, st |-> "PACKING"])
    BY <1>5 DEF CreateShipment, Once
  <2>2. PICK row \in ShipRow : row = [order |-> o, st |-> "PACKING"]
    BY DEF ShipRow, ShipmentStatus
  <2>3. ship' \in Seq(ShipRow) /\ DOMAIN ship \subseteq DOMAIN ship' /\ \A s \in DOMAIN ship : ship'[s] = ship[s]
    BY <1>4, <2>1, <2>2
  <2>4. QED
    BY <1>3, <1>4, <2>1, <2>3, ShippingStatement
<1>6. ASSUME \/ \E s \in DOMAIN ship : GenerateLabel(s) \/ CreateLabel(s)
             \/ \E b \in DOMAIN label : TrackingCancels(b)
      PROVE  PInv'
  <2>1. reqs' = reqs /\ UNCHANGED <<order, picked, ship, pack>>
    BY <1>6 DEF GenerateLabel, CreateLabel, TrackingCancels, NewLabel, Once
  <2>2. QED
    BY <1>3, <1>4, <2>1, ShippingStatement
<1>7. QED
  BY <1>2, <1>5, <1>6

(* A request that has no locks and no plan, as it begins or ends.           *)
LEMMA RequestSmall ==
  ASSUME PInv, NEW c \in Client, NEW r, reqs' = [reqs EXCEPT ![c] = r],
         UNCHANGED <<order, picked, ship, pack>>,
         \/ /\ r.op \in {"pack", "stage", "ship"} /\ r.ship \in DOMAIN ship
            /\ r.pc \in {"lock", "check"} /\ (r.op = "pack" => r.locks = {})
         \/ r.op = "release" /\ r.locks = {}
         \/ r.op \notin {"pack", "stage", "ship", "release"},
         Shape(r)
  PROVE  PInv'
<1>1. Planned(r)
  BY DEF Planned
<1>2. r.op \in Locking => \A d \in Client : d # c /\ reqs[d].op \in Locking
                                               => r.locks \cap reqs[d].locks = {}
  BY DEF Locking
<1>3. r.op = "ship" => r.pc # "commit"
  OBVIOUS
<1>4. r.op \in {"pack", "stage", "ship"} => r.ship \in DOMAIN ship
  OBVIOUS
<1>5. QED
  BY <1>1, <1>2, <1>3, <1>4, ShippingRequest

(* What begins, and what ends without writing.                              *)
LEMMA ShippingBegins ==
  ASSUME PInv, NEW c \in Client,
         \/ \E s \in DOMAIN ship : BeginPack(c, s) \/ BeginStage(c, s) \/ BeginShip(c, s)
         \/ \E b \in DOMAIN label : BeginVoid(c, b)
         \/ CommitVoid(c) \/ (Abort(c) /\ UNCHANGED shipVars)
  PROVE  PInv'
<1>1. ASSUME NEW s \in DOMAIN ship, BeginPack(c, s) PROVE PInv'
  <2>1. PICK r : r = [op |-> "pack", pc |-> "lock", ship |-> s, locks |-> {}]
    OBVIOUS
  <2>2. reqs' = [reqs EXCEPT ![c] = r] /\ UNCHANGED <<order, picked, ship, pack>>
    BY <1>1, <2>1 DEF BeginPack, Begin, shipVars
  <2>3. r.op = "pack" /\ r.pc = "lock" /\ r.ship = s /\ r.locks = {}
    BY <2>1
  <2>4. Shape(r)
    BY <2>3 DEF Shape
  <2>5. QED
    BY <2>2, <2>3, <2>4, RequestSmall
<1>2. ASSUME NEW s \in DOMAIN ship, NEW op \in {"stage", "ship"},
             Begin(c, [op |-> op, pc |-> "check", ship |-> s]), UNCHANGED shipVars
      PROVE  PInv'
  <2>1. PICK r : r = [op |-> op, pc |-> "check", ship |-> s]
    OBVIOUS
  <2>2. reqs' = [reqs EXCEPT ![c] = r] /\ UNCHANGED <<order, picked, ship, pack>>
    BY <1>2, <2>1 DEF Begin, shipVars
  <2>3. r.op = op /\ r.pc = "check" /\ r.ship = s
    BY <2>1
  <2>4. Shape(r)
    BY <2>1, <2>3 DEF Shape
  <2>5. QED
    BY <2>2, <2>3, <2>4, RequestSmall
<1>3. ASSUME NEW b \in DOMAIN label, BeginVoid(c, b) PROVE PInv'
  <2>1. PICK r : r = [op |-> "void", pc |-> "commit", label |-> b]
    OBVIOUS
  <2>2. reqs' = [reqs EXCEPT ![c] = r] /\ UNCHANGED <<order, picked, ship, pack>>
    BY <1>3, <2>1 DEF BeginVoid, Begin, shipVars
  <2>3. r.op = "void"
    BY <2>1
  <2>4. Shape(r)
    BY <2>3 DEF Shape
  <2>5. QED
    BY <2>2, <2>3, <2>4, RequestSmall
<1>4. ASSUME CommitVoid(c) \/ (Abort(c) /\ UNCHANGED shipVars) PROVE PInv'
  <2>1. reqs' = [reqs EXCEPT ![c] = NoReq] /\ UNCHANGED <<order, picked, ship, pack>>
    BY <1>4 DEF CommitVoid, Abort, Finish, Advance, shipVars
  <2>2. NoReq.op = "none" /\ Shape(NoReq)
    BY DEF NoReq, Shape
  <2>3. QED
    BY <2>1, <2>2, RequestSmall
<1>5. QED
  BY <1>1, <1>2, <1>3, <1>4 DEF BeginStage, BeginShip

(* A packer plans under the lock of the order.                              *)
LEMMA Plans ==
  ASSUME PInv, NEW c \in Client, LockAndPlan(c)
  PROVE  PInv'
<1>0. ShipTypes
  BY DEF PInv
<1>1. PICK s \in DOMAIN ship : s = reqs[c].ship
  BY <1>0 DEF LockAndPlan, At, ShipTypes
<1>2. PICK o \in Order : o = ship[s].order
  BY <1>0, PackFacts
<1>3. PICK has \in [Line -> 0..Ordered] :
        /\ Fits(s, has)
        /\ Advance(c, [op |-> "pack", pc |-> "commit", ship |-> s, locks |-> {o},
                       has |-> has, full |-> FullyPacked(o, has)])
  BY <1>1, <1>2 DEF LockAndPlan
<1>4. PICK r : r = [op |-> "pack", pc |-> "commit", ship |-> s, locks |-> {o},
                    has |-> has, full |-> FullyPacked(o, has)]
  OBVIOUS
<1>5. r.op = "pack" /\ r.pc = "commit" /\ r.ship = s /\ r.locks = {o} /\ r.has = has
  BY <1>4
<1>6. reqs' = [reqs EXCEPT ![c] = r] /\ UNCHANGED <<order, picked, ship, pack>>
  BY <1>3, <1>4 DEF LockAndPlan, Advance, shipVars
<1>7. ASSUME NEW l \in Line PROVE Contents(PackagesOf(o), l) + has[l] <= picked[o][l]
  <2>1. PICK k \in Nat : k = Contents(PackagesOf(o), l)
    BY <1>0, PackedNat
  <2>2. PICK n \in Nat : n = has[l]
    BY ShippingConstants
  <2>3. PICK m \in Nat : m = picked[o][l]
    BY <1>0, ShippingConstants DEF ShipTypes
  <2>4. k <= m
    BY <2>1, <2>3 DEF PInv, PackedWithinPicked
  <2>5. n > 0 => n <= m - k
    BY <1>2, <1>3, <2>1, <2>2, <2>3 DEF Fits
  <2>6. k + n <= m
    BY <2>4, <2>5
  <2>7. QED
    BY <2>1, <2>2, <2>3, <2>6
<1>8. \E l \in Line : has[l] > 0
  BY <1>3 DEF Fits
<1>9. Planned(r)
  <2>1. Shape(r)
    BY <1>5 DEF Shape
  <2>2. QED
    BY <1>2, <1>5, <1>7, <1>8, <2>1 DEF Planned
<1>10. \A d \in Client : d # c /\ reqs[d].op \in Locking => r.locks \cap reqs[d].locks = {}
  BY <1>1, <1>2, <1>5 DEF LockAndPlan, OrderFree, Locking
<1>11. QED
  BY <1>5, <1>6, <1>9, <1>10, ShippingRequest

(* Everything that was packed for the order lies in the packages of the     *)
(* shipment: there is no package of another.                                *)
LEMMA CoveredAlone ==
  ASSUME PInv, NEW s \in DOMAIN ship, Covers(ship[s].order, Packages(s, {"STAGED", "LOADED"})),
         NEW p \in DOMAIN pack, ship[pack[p].ship].order = ship[s].order
  PROVE  pack[p].ship = s
<1>0. ShipTypes
  BY DEF PInv
<1>1. SUFFICES ASSUME pack[p].ship # s PROVE FALSE
  OBVIOUS
<1>2. PICK o \in Order : o = ship[s].order
  BY <1>0, PackFacts
<1>3. PICK P : P = Packages(s, {"STAGED", "LOADED"})
  OBVIOUS
<1>4. PICK Q : Q = PackagesOf(o)
  OBVIOUS
<1>5. Q \in SUBSET DOMAIN pack /\ P \in SUBSET Q /\ p \in Q \ P
  BY <1>1, <1>2, <1>3, <1>4 DEF Packages, PackagesOf
<1>6. PICK l \in Line : pack[p].has[l] > 0
  BY <1>0 DEF ShipTypes
<1>7. PICK rows \in Seq(PackRow) : rows = pack
  BY <1>0 DEF ShipTypes
<1>8. /\ ContentsIn(rows, P, l) + rows[p].has[l] <= ContentsIn(rows, Q, l)
      /\ ContentsIn(rows, P, l) \in Nat /\ ContentsIn(rows, Q, l) \in Nat
      /\ rows[p].has[l] \in Nat
  <2>1. Q \in SUBSET DOMAIN rows /\ P \in SUBSET DOMAIN rows /\ p \in DOMAIN rows
    BY <1>5, <1>7
  <2>2. ContentsIn(rows, P, l) + rows[p].has[l] <= ContentsIn(rows, Q, l)
    BY <1>5, <2>1, ContentsPart
  <2>3. QED
    BY <2>1, <2>2, ContentsIsSum
<1>9. PICK a \in Nat : a = ContentsIn(rows, P, l)
  BY <1>8
<1>10. PICK b \in Nat : b = ContentsIn(rows, Q, l)
  BY <1>8
<1>11. PICK h \in Nat : h = rows[p].has[l]
  BY <1>8
<1>12. PICK m \in Nat : m = picked[o][l]
  BY <1>0, ShippingConstants DEF ShipTypes
<1>13. a + h <= b /\ h > 0
  BY <1>6, <1>7, <1>8, <1>9, <1>10, <1>11
<1>14. b <= m
  BY <1>4, <1>7, <1>10, <1>12, ContentsOfRows DEF PInv, PackedWithinPicked
<1>15. m > 0 => a >= m
  BY <1>2, <1>3, <1>7, <1>9, <1>12, ContentsOfRows DEF Covers
<1>16. QED
  BY <1>13, <1>14, <1>15

(* A request that has checked its shipment.                                 *)
LEMMA Checks ==
  ASSUME PInv, NEW c \in Client, Check(c)
  PROVE  PInv'
<1>0. ShipTypes
  BY DEF PInv
<1>1. PICK q : q = reqs[c]
  OBVIOUS
<1>2. q.op \in {"stage", "ship"} /\ Shape(q) /\ q.ship \in DOMAIN ship
  BY <1>0, <1>1 DEF Check, At, PInv, Planned, ShipTypes
<1>3. PICK s \in DOMAIN ship : s = q.ship
  BY <1>2
<1>4. PICK r : r = [q EXCEPT !.pc = "commit"]
  OBVIOUS
<1>5. r.op = q.op /\ r.pc = "commit" /\ r.ship = s /\ r = [op |-> q.op, pc |-> "commit", ship |-> s]
  BY <1>2, <1>3, <1>4 DEF Shape
<1>6. reqs' = [reqs EXCEPT ![c] = r] /\ UNCHANGED <<order, picked, ship, pack>>
  BY <1>1, <1>4 DEF Check, Advance, shipVars
<1>7. Planned(r) /\ r.op \notin Locking
  BY <1>2, <1>5 DEF Planned, Shape, Locking
<1>8. ASSUME r.op = "ship"
      PROVE  /\ Packages(s, PackageStatus) # {}
             /\ \A t \in DOMAIN ship : Cleared(t) /\ ship[t].order = ship[s].order => t = s
  <2>1. PICK waived \in BOOLEAN : ReadyToShip(s, waived)
    BY <1>1, <1>3, <1>5, <1>8 DEF Check, At
  <2>2. /\ Packages(s, {"STAGED", "LOADED"}) # {}
        /\ Covers(ship[s].order, Packages(s, {"STAGED", "LOADED"}))
    BY <2>1 DEF ReadyToShip
  <2>3. Packages(s, PackageStatus) # {}
    BY <2>2 DEF Packages, PackageStatus
  <2>4. ASSUME NEW t \in DOMAIN ship, Cleared(t), ship[t].order = ship[s].order PROVE t = s
    <3>1. PICK p : p \in Packages(t, PackageStatus)
      BY <2>4 DEF PInv, OneCleared
    <3>2. p \in DOMAIN pack /\ pack[p].ship = t
      BY <3>1 DEF Packages
    <3>3. QED
      BY <2>2, <2>4, <3>2, CoveredAlone
  <2>5. QED
    BY <2>3, <2>4
<1>9. QED
  BY <1>5, <1>6, <1>7, <1>8, ShippingRequest

(* Setting the status of a shipment's packages.                             *)
LEMMA PackagesSet ==
  ASSUME ShipTypes, NEW s, NEW S, NEW st \in PackageStatus
  PROVE  /\ SetPackages(s, S, st) \in Seq(PackRow) /\ DOMAIN SetPackages(s, S, st) = DOMAIN pack
         /\ \A p \in DOMAIN pack :
              /\ SetPackages(s, S, st)[p].ship = pack[p].ship
              /\ SetPackages(s, S, st)[p].has = pack[p].has
              /\ SetPackages(s, S, st)[p].st = IF p \in Packages(s, S) THEN st ELSE pack[p].st
<1>1. DOMAIN pack = 1..Len(pack) /\ Len(pack) \in Nat /\ \A p \in DOMAIN pack : pack[p] \in PackRow
  BY PackFacts
<1>2. PICK rows : rows = SetPackages(s, S, st)
  OBVIOUS
<1>3. /\ DOMAIN rows = 1..Len(pack) /\ rows = [p \in 1..Len(pack) |-> rows[p]]
      /\ \A p \in DOMAIN pack : rows[p] = IF p \in Packages(s, S) THEN [pack[p] EXCEPT !.st = st] ELSE pack[p]
  BY <1>1, <1>2 DEF SetPackages
<1>4. ASSUME NEW p \in DOMAIN pack
      PROVE  /\ rows[p] \in PackRow
             /\ rows[p].ship = pack[p].ship /\ rows[p].has = pack[p].has
             /\ rows[p].st = IF p \in Packages(s, S) THEN st ELSE pack[p].st
  BY <1>1, <1>3 DEF PackRow
<1>5. rows \in Seq(PackRow)
  BY <1>1, <1>3, <1>4
<1>6. QED
  BY <1>1, <1>2, <1>3, <1>4, <1>5

(* Staging changes statuses, and no package to SHIPPED.                     *)
LEMMA Stages ==
  ASSUME PInv, NEW c \in Client, CommitStage(c)
  PROVE  PInv'
<1>0. ShipTypes
  BY DEF PInv
<1>1. PICK s \in DOMAIN ship : s = reqs[c].ship
  BY <1>0 DEF CommitStage, At, ShipTypes
<1>2. /\ ship' = [ship EXCEPT ![s].st = "STAGED"] /\ pack' = SetPackages(s, {"PACKED"}, "STAGED")
      /\ reqs' = [reqs EXCEPT ![c] = NoReq] /\ UNCHANGED <<order, picked>>
  BY <1>1 DEF CommitStage, Finish, Advance
<1>3. /\ ship' \in Seq(ShipRow) /\ DOMAIN ship' = DOMAIN ship
      /\ \A t \in DOMAIN ship : ship'[t].order = ship[t].order
  <2>1. PICK row \in ShipRow : row = [ship[s] EXCEPT !.st = "STAGED"]
    BY <1>0, PackFacts DEF ShipRow, ShipmentStatus
  <2>2. row.order = ship[s].order
    BY <1>0, <2>1, PackFacts DEF ShipRow
  <2>3. ship' = [ship EXCEPT ![s] = row]
    BY <1>2, <2>1
  <2>4. ship \in Seq(ShipRow) /\ s \in 1..Len(ship)
    BY <1>0 DEF ShipTypes
  <2>5. QED
    BY <2>2, <2>3, <2>4, ExceptSeq
<1>4. /\ pack' \in Seq(PackRow) /\ DOMAIN pack' = DOMAIN pack
      /\ \A p \in DOMAIN pack : /\ pack'[p].ship = pack[p].ship /\ pack'[p].has = pack[p].has
                                /\ pack'[p].st = IF p \in Packages(s, {"PACKED"}) THEN "STAGED" ELSE pack[p].st
  BY <1>0, <1>2, PackagesSet DEF PackageStatus
<1>5. \A t \in DOMAIN ship : Cleared(t)' => Cleared(t)
  <2>1. \A d \in Client : reqs'[d] = IF d = c THEN NoReq ELSE reqs[d]
    BY <1>0, <1>2 DEF ShipTypes
  <2>2. \A t : Packages(t, {"SHIPPED"})' \subseteq Packages(t, {"SHIPPED"})
    BY <1>4 DEF Packages
  <2>3. QED
    BY <2>1, <2>2 DEF Cleared, At, NoReq
<1>6. order' \in [Order -> OrderStatus] /\ picked' = picked /\ \A o \in Order : order'[o] = order[o]
  BY <1>0, <1>2 DEF ShipTypes
<1>7. QED
  BY <1>2, <1>3, <1>4, <1>5, <1>6, ShippingWritten

(* Shipping turns what the request had checked into packages that left.     *)
LEMMA Ships ==
  ASSUME PInv, NEW c \in Client, CommitShip(c)
  PROVE  PInv'
<1>0. ShipTypes
  BY DEF PInv
<1>1. PICK s \in DOMAIN ship : s = reqs[c].ship
  BY <1>0 DEF CommitShip, At, ShipTypes
<1>2. PICK o \in Order : o = ship[s].order
  BY <1>0, PackFacts
<1>3. /\ ship' = [ship EXCEPT ![s].st = "SHIPPED"]
      /\ pack' = SetPackages(s, {"PACKED", "STAGED", "LOADED"}, "SHIPPED")
      /\ reqs' = [reqs EXCEPT ![c] = NoReq] /\ picked' = picked
      /\ order' = [order EXCEPT ![o] = "SHIPPED"] /\ OrderFree(o)
  BY <1>1, <1>2 DEF CommitShip, Finish, Advance
<1>4. /\ ship' \in Seq(ShipRow) /\ DOMAIN ship' = DOMAIN ship
      /\ \A t \in DOMAIN ship : ship'[t].order = ship[t].order
  <2>1. PICK row \in ShipRow : row = [ship[s] EXCEPT !.st = "SHIPPED"]
    BY <1>0, PackFacts DEF ShipRow, ShipmentStatus
  <2>2. row.order = ship[s].order
    BY <1>0, <2>1, PackFacts DEF ShipRow
  <2>3. ship' = [ship EXCEPT ![s] = row]
    BY <1>3, <2>1
  <2>4. ship \in Seq(ShipRow) /\ s \in 1..Len(ship)
    BY <1>0 DEF ShipTypes
  <2>5. QED
    BY <2>2, <2>3, <2>4, ExceptSeq
<1>5. /\ pack' \in Seq(PackRow) /\ DOMAIN pack' = DOMAIN pack
      /\ \A p \in DOMAIN pack : /\ pack'[p].ship = pack[p].ship /\ pack'[p].has = pack[p].has
                                /\ pack'[p].st = IF p \in Packages(s, {"PACKED", "STAGED", "LOADED"})
                                                 THEN "SHIPPED" ELSE pack[p].st
  BY <1>0, <1>3, PackagesSet DEF PackageStatus
<1>6. \A t \in DOMAIN ship : Cleared(t)' => Cleared(t)
  <2>1. \A d \in Client : reqs'[d] = IF d = c THEN NoReq ELSE reqs[d]
    BY <1>0, <1>3 DEF ShipTypes
  <2>2. \A t \in DOMAIN ship : t # s => Packages(t, {"SHIPPED"})' \subseteq Packages(t, {"SHIPPED"})
    BY <1>5 DEF Packages
  <2>3. Cleared(s)
    BY <1>1 DEF CommitShip, Cleared
  <2>4. ASSUME NEW t \in DOMAIN ship, t # s, Cleared(t)' PROVE Cleared(t)
    BY <2>1, <2>2, <2>4 DEF Cleared, At, NoReq
  <2>5. QED
    BY <2>3, <2>4
<1>7. order' \in [Order -> OrderStatus] /\ \A p \in Order : p # o => order'[p] = order[p]
  BY <1>0, <1>3 DEF ShipTypes, OrderStatus
<1>8. \A p \in Order : order'[p] = order[p]
           \/ \A d \in Client : d # c /\ reqs[d].op = "release" => p \notin reqs[d].locks
  BY <1>3, <1>7 DEF OrderFree
<1>9. QED
  BY <1>3, <1>4, <1>5, <1>6, <1>7, <1>8, ShippingWritten

(* The package that was planned: nobody else has packed for the order since. *)
LEMMA Packs ==
  ASSUME PInv, NEW c \in Client, CommitPack(c)
  PROVE  PInv'
<1>0. ShipTypes
  BY DEF PInv
<1>1. PICK r : r = reqs[c]
  OBVIOUS
<1>2. PICK s \in DOMAIN ship : s = r.ship
  BY <1>0, <1>1 DEF CommitPack, At, ShipTypes
<1>3. PICK o \in Order : o = ship[s].order
  BY <1>0, PackFacts
<1>4. /\ r.locks = {o} /\ r.has \in [Line -> 0..Ordered] /\ \E l \in Line : r.has[l] > 0
      /\ \A l \in Line : Contents(PackagesOf(o), l) + r.has[l] <= picked[o][l]
      /\ r.op = "pack"
  BY <1>1, <1>2, <1>3 DEF CommitPack, At, PInv, Planned
<1>5. PICK has \in [Line -> 0..Ordered] : has = r.has
  BY <1>4
<1>6. PICK row \in PackRow : row = [ship |-> s, st |-> "PACKED", has |-> has]
  <2>1. s \in Nat
    BY <1>0 DEF ShipTypes
  <2>2. QED
    BY <2>1 DEF PackRow, PackageStatus
<1>7. /\ pack' = Append(pack, row) /\ reqs' = [reqs EXCEPT ![c] = NoReq] /\ UNCHANGED <<picked, ship>>
      /\ \E st \in {"PACKED", "PACKING"} : order' = [order EXCEPT ![o] = st]
  BY <1>1, <1>2, <1>3, <1>5, <1>6 DEF CommitPack, Finish, Advance
<1>8. PICK n \in Nat : n = Len(pack) + 1
  BY <1>0, PackFacts
<1>9. /\ pack' \in Seq(PackRow) /\ DOMAIN pack' = DOMAIN pack \cup {n} /\ n \notin DOMAIN pack
      /\ pack'[n] = row /\ \A p \in DOMAIN pack : pack'[p] = pack[p]
  <2>1. pack \in Seq(PackRow)
    BY <1>0 DEF ShipTypes
  <2>2. QED
    BY <1>7, <1>8, <2>1
<1>10. /\ order' \in [Order -> OrderStatus] /\ \A p \in Order : p # o => order'[p] = order[p]
  BY <1>0, <1>7 DEF ShipTypes, OrderStatus
<1>11. \A d \in Client : reqs'[d] = IF d = c THEN NoReq ELSE reqs[d]
  BY <1>0, <1>7 DEF ShipTypes
<1>12. ShipTypes'
  <2>1. \A p \in DOMAIN pack' : /\ pack'[p].ship \in DOMAIN ship'
                                /\ \E l \in Line : pack'[p].has[l] > 0
    <3>1. row.ship = s /\ row.has = has /\ \E l \in Line : has[l] > 0
      BY <1>4, <1>5, <1>6
    <3>2. QED
      BY <1>0, <1>7, <1>9, <3>1 DEF ShipTypes
  <2>2. \A d \in Client : reqs'[d].op \in {"pack", "stage", "ship"} => reqs'[d].ship \in DOMAIN ship'
    BY <1>0, <1>7, <1>11 DEF ShipTypes, NoReq
  <2>3. reqs' = [d \in Client |-> reqs'[d]]
    BY <1>0, <1>7 DEF ShipTypes
  <2>4. QED
    BY <1>0, <1>7, <1>9, <1>10, <2>1, <2>2, <2>3 DEF ShipTypes
<1>13. OrderLocks'
  BY <1>11 DEF PInv, OrderLocks, NoReq, Locking
<1>14. /\ PackagesOf(o)' = PackagesOf(o) \cup {n}
       /\ \A p : p # o => PackagesOf(p)' = PackagesOf(p)
       /\ \A p : PackagesOf(p) \in SUBSET DOMAIN pack
  <2>1. ship'[pack'[n].ship].order = o
    BY <1>3, <1>6, <1>7, <1>9
  <2>2. \A p \in DOMAIN pack : ship'[pack'[p].ship].order = ship[pack[p].ship].order
    BY <1>7, <1>9
  <2>3. QED
    BY <1>9, <2>1, <2>2 DEF PackagesOf
<1>15. PICK rows \in Seq(PackRow) : rows = pack
  BY <1>0 DEF ShipTypes
<1>16. PICK more \in Seq(PackRow) : more = pack'
  BY <1>9
<1>17. ASSUME NEW p, p # o, NEW l \in Line PROVE Contents(PackagesOf(p), l)' = Contents(PackagesOf(p), l)
  <2>1. Contents(PackagesOf(p), l)' = ContentsIn(pack', PackagesOf(p)', l)
    BY DEF Contents, ContentsIn, MapThenSumSet, MapThenFoldSet
  <2>2. PICK P : P = PackagesOf(p)
    OBVIOUS
  <2>3. P \subseteq DOMAIN rows /\ P \subseteq DOMAIN more /\ \A q \in P : more[q].has = rows[q].has
    BY <1>9, <1>14, <1>15, <1>16, <2>2
  <2>4. ContentsIn(more, P, l) = ContentsIn(rows, P, l)
    BY <2>3, ContentsSame
  <2>5. QED
    BY <1>14, <1>15, <1>16, <1>17, <2>1, <2>2, <2>4, ContentsOfRows
<1>18. ASSUME NEW l \in Line PROVE Contents(PackagesOf(o), l)' = Contents(PackagesOf(o), l) + has[l]
  <2>1. Contents(PackagesOf(o), l)' = ContentsIn(pack', PackagesOf(o)', l)
    BY DEF Contents, ContentsIn, MapThenSumSet, MapThenFoldSet
  <2>2. PICK P : P = PackagesOf(o)
    OBVIOUS
  <2>3. P \subseteq DOMAIN rows /\ P \subseteq DOMAIN more /\ \A q \in P : more[q].has = rows[q].has
    BY <1>9, <1>14, <1>15, <1>16, <2>2
  <2>4. ContentsIn(more, P, l) = ContentsIn(rows, P, l)
    BY <2>3, ContentsSame
  <2>5. n \in DOMAIN more /\ n \notin P /\ more[n].has[l] = has[l]
    BY <1>6, <1>9, <1>15, <1>16, <2>3
  <2>6. ContentsIn(more, P \cup {n}, l) = ContentsIn(more, P, l) + more[n].has[l]
    BY <2>3, <2>5, ContentsAdd
  <2>7. QED
    BY <1>14, <1>15, <1>16, <2>1, <2>2, <2>4, <2>5, <2>6, ContentsOfRows
<1>19. PackedWithinPicked'
  <2> SUFFICES ASSUME NEW p \in Order, NEW l \in Line
               PROVE  Contents(PackagesOf(p), l)' <= picked'[p][l]
    BY DEF PackedWithinPicked
  <2>1. CASE p = o
    <3>1. Contents(PackagesOf(o), l) + has[l] <= picked[o][l]
      BY <1>4, <1>5
    <3>2. Contents(PackagesOf(o), l)' = Contents(PackagesOf(o), l) + has[l]
      BY <1>18
    <3>3. picked'[o][l] = picked[o][l]
      BY <1>7
    <3>4. QED
      BY <2>1, <3>1, <3>2, <3>3
  <2>2. CASE p # o
    BY <1>7, <1>17, <2>2 DEF PInv, PackedWithinPicked
  <2>3. QED
    BY <2>1, <2>2
<1>20. ASSUME NEW d \in Client PROVE Planned(reqs[d])'
  <2>1. CASE d = c
    <3>1. reqs'[d].op = "none"
      BY <1>11, <2>1 DEF NoReq
    <3>2. QED
      BY <3>1 DEF Planned, Shape
  <2>2. CASE d # c
    <3>1. PICK q : q = reqs[d] /\ q = reqs'[d]
      BY <1>11, <2>2
    <3>2. Planned(q) /\ (q.op = "pack" => q.ship \in DOMAIN ship)
      BY <1>0, <3>1 DEF PInv, ShipTypes
    <3>3. q.op \in Locking => o \notin q.locks
      BY <1>1, <1>4, <2>2, <3>1 DEF PInv, OrderLocks, Locking
    <3>4. ASSUME q.op = "pack", q.pc = "commit"
          PROVE  \E p :
                 /\ ship'[q.ship].order = p
                 /\ q.locks = {p} /\ q.has \in [Line -> 0..Ordered]
                 /\ \E l \in Line : q.has[l] > 0
                 /\ \A l \in Line : Contents(PackagesOf(p), l)' + q.has[l] <= picked'[p][l]
      <4>1. PICK p : p = ship[q.ship].order
        OBVIOUS
      <4>2. ship'[q.ship].order = p
        BY <1>7, <4>1
      <4>3. /\ q.locks = {p} /\ q.has \in [Line -> 0..Ordered] /\ \E l \in Line : q.has[l] > 0
            /\ \A l \in Line : Contents(PackagesOf(p), l) + q.has[l] <= picked[p][l]
        BY <3>2, <3>4, <4>1 DEF Planned
      <4>4. p # o
        BY <3>3, <3>4, <4>3 DEF Locking
      <4>5. \A l \in Line : Contents(PackagesOf(p), l)' + q.has[l] <= picked'[p][l]
        BY <1>7, <1>17, <4>3, <4>4
      <4>6. QED
        BY <4>2, <4>3, <4>5
    <3>5. ASSUME q.op = "release" PROVE \A p \in q.locks \cap Order : order'[p] \in {"ALLOCATED", "PICKING"}
      BY <1>10, <3>2, <3>3, <3>5 DEF Planned, Locking
    <3>6. Shape(q)'
      BY <3>2 DEF Planned, Shape
    <3>7. Planned(q)'
      BY <3>4, <3>5, <3>6 DEF Planned
    <3>8. QED
      BY <3>1, <3>7 DEF Planned
  <2>3. QED
    BY <2>1, <2>2
<1>21. OneCleared'
  <2>1. \A t : Packages(t, PackageStatus) \subseteq Packages(t, PackageStatus)'
    BY <1>9 DEF Packages
  <2>2. row.st = "PACKED"
    BY <1>6
  <2>3. \A t : Packages(t, {"SHIPPED"})' \subseteq Packages(t, {"SHIPPED"})
    BY <1>9, <2>2 DEF Packages
  <2>4. \A t : Cleared(t)' => Cleared(t)
    BY <1>11, <2>3 DEF Cleared, At, NoReq
  <2>5. QED
    BY <1>7, <2>1, <2>4 DEF PInv, OneCleared
<1>22. QED
  BY <1>12, <1>13, <1>19, <1>20, <1>21 DEF PInv

-----------------------------------------------------------------------------
(* Waves write nothing of shipping but an order's status.                   *)
LEMMA WaveRequests ==
  ASSUME PInv, NEW c \in Client,
         \/ BeginWave(c) \/ InsertWave(c) \/ ReadTasks(c) \/ UpdateOrder(c) \/ CommitComplete(c)
         \/ \E w \in DOMAIN wave : BeginRelease(c, w) \/ BeginComplete(c, w)
         \/ Abort(c) /\ UNCHANGED <<shipVars, waveVars>>
  PROVE  PInv'
<1>0. ShipTypes
  BY DEF PInv
<1>1. ASSUME BeginWave(c) PROVE PInv'
  <2>1. PICK plan : Begin(c, [op |-> "wave", pc |-> "insert", plan |-> plan]) /\ UNCHANGED shipVars
    BY <1>1 DEF BeginWave
  <2>2. PICK r : r = [op |-> "wave", pc |-> "insert", plan |-> plan]
    OBVIOUS
  <2>3. reqs' = [reqs EXCEPT ![c] = r] /\ UNCHANGED <<order, picked, ship, pack>>
    BY <2>1, <2>2 DEF Begin, shipVars
  <2>4. r.op = "wave" /\ Shape(r)
    BY <2>2 DEF Shape
  <2>5. QED
    BY <2>3, <2>4, RequestSmall
<1>2. ASSUME InsertWave(c) \/ CommitComplete(c) \/ (Abort(c) /\ UNCHANGED <<shipVars, waveVars>>) PROVE PInv'
  <2>1. reqs' = [reqs EXCEPT ![c] = NoReq] /\ UNCHANGED <<order, picked, ship, pack>>
    BY <1>2 DEF InsertWave, CommitComplete, Abort, Finish, Advance, shipVars
  <2>2. NoReq.op = "none" /\ Shape(NoReq)
    BY DEF NoReq, Shape
  <2>3. QED
    BY <2>1, <2>2, RequestSmall
<1>3. ASSUME NEW w \in DOMAIN wave, BeginRelease(c, w) PROVE PInv'
  <2>1. PICK r : r = [op |-> "release", pc |-> "read", wave |-> w, done |-> 0,
                      found |-> {}, new |-> {}, locks |-> {}]
    OBVIOUS
  <2>2. reqs' = [reqs EXCEPT ![c] = r] /\ UNCHANGED <<order, picked, ship, pack>>
    BY <1>3, <2>1 DEF BeginRelease, Begin, shipVars
  <2>3. r.op = "release" /\ r.locks = {} /\ Shape(r)
    BY <2>1 DEF Shape
  <2>4. QED
    BY <2>2, <2>3, RequestSmall
<1>4. ASSUME NEW w \in DOMAIN wave, BeginComplete(c, w) PROVE PInv'
  <2>1. PICK r : r = [op |-> "complete", pc |-> "commit", wave |-> w]
    OBVIOUS
  <2>2. reqs' = [reqs EXCEPT ![c] = r] /\ UNCHANGED <<order, picked, ship, pack>>
    BY <1>4, <2>1 DEF BeginComplete, Begin, shipVars
  <2>3. r.op = "complete" /\ Shape(r)
    BY <2>1 DEF Shape
  <2>4. QED
    BY <2>2, <2>3, RequestSmall
<1>5. ASSUME ReadTasks(c) PROVE PInv'
  <2>1. PICK q : q = reqs[c]
    OBVIOUS
  <2>2. q.op = "release" /\ Shape(q) /\ Planned(q)
    BY <1>5, <2>1 DEF ReadTasks, At, PInv, Planned
  <2>3. PICK createMissing \in BOOLEAN :
          LET o == NextOrder(q) IN
          Advance(c, [q EXCEPT !.pc = "update", !.found = @ \cup Open(o),
             !.new = IF createMissing /\ Open(o) = {} /\ o \in active THEN @ \cup {o} ELSE @])
    BY <1>5, <2>1 DEF ReadTasks
  <2>4. PICK found, new : Advance(c, [q EXCEPT !.pc = "update", !.found = found, !.new = new])
    BY <2>3
  <2>5. PICK r : r = [q EXCEPT !.pc = "update", !.found = found, !.new = new]
    OBVIOUS
  <2>6. r.op = "release" /\ r.locks = q.locks /\ Shape(r)
    BY <2>2, <2>5 DEF Shape
  <2>7. reqs' = [reqs EXCEPT ![c] = r] /\ UNCHANGED <<order, picked, ship, pack>>
    BY <1>5, <2>4, <2>5 DEF ReadTasks, Advance, shipVars
  <2>8. Planned(r)
    BY <2>2, <2>6 DEF Planned
  <2>9. \A d \in Client : d # c /\ reqs[d].op \in Locking => r.locks \cap reqs[d].locks = {}
    BY <2>1, <2>2, <2>6 DEF PInv, OrderLocks, Locking
  <2>10. QED
    BY <2>6, <2>7, <2>8, <2>9, ShippingRequest
<1>6. ASSUME UpdateOrder(c) PROVE PInv'
  <2>1. PICK q : q = reqs[c]
    OBVIOUS
  <2>2. q.op = "release" /\ Shape(q) /\ Planned(q)
    BY <1>6, <2>1 DEF UpdateOrder, At, PInv, Planned
  <2>3. PICK o : o = NextOrder(q)
    OBVIOUS
  <2>4. PICK locks : locks = IF ToPicking(o) THEN q.locks \cup {o} ELSE q.locks
    OBVIOUS
  <2>5. PICK done : Advance(c, [q EXCEPT !.pc = "read", !.done = done, !.locks = locks])
    BY <1>6, <2>1, <2>3, <2>4 DEF UpdateOrder
  <2>6. PICK r : r = [q EXCEPT !.pc = "read", !.done = done, !.locks = locks]
    OBVIOUS
  <2>7. r.op = "release" /\ r.locks = locks /\ Shape(r)
    BY <2>2, <2>6 DEF Shape
  <2>8. reqs' = [reqs EXCEPT ![c] = r] /\ UNCHANGED <<order, picked, ship, pack>>
    BY <1>6, <2>5, <2>6 DEF UpdateOrder, Advance, shipVars
  <2>9. Planned(r)
    BY <2>2, <2>4, <2>7 DEF Planned, ToPicking
  <2>10. \A d \in Client : d # c /\ reqs[d].op \in Locking => r.locks \cap reqs[d].locks = {}
    <3>1. \A d \in Client : d # c /\ reqs[d].op \in Locking => q.locks \cap reqs[d].locks = {}
      BY <2>1, <2>2 DEF PInv, OrderLocks, Locking
    <3>2. ToPicking(o) => \A d \in Client : reqs[d].op \in Locking => o \notin reqs[d].locks
      BY <1>6, <2>1, <2>3 DEF UpdateOrder, OrderFree, Locking
    <3>3. QED
      BY <2>4, <2>7, <3>1, <3>2
  <2>11. QED
    BY <2>7, <2>8, <2>9, <2>10, ShippingRequest
<1>7. QED
  BY <1>1, <1>2, <1>3, <1>4, <1>5, <1>6

(* A release sets orders to PICKING, where it found them.                   *)
LEMMA WaveReleases ==
  ASSUME PInv, NEW c \in Client, CommitRelease(c)
  PROVE  PInv'
<1>0. ShipTypes
  BY DEF PInv
<1>1. PICK q : q = reqs[c]
  OBVIOUS
<1>2. /\ order' = [o \in Order |-> IF o \in q.locks THEN "PICKING" ELSE order[o]]
      /\ reqs' = [reqs EXCEPT ![c] = NoReq] /\ UNCHANGED <<picked, ship, pack>>
  BY <1>1 DEF CommitRelease, Finish, Advance
<1>3. /\ order' \in [Order -> OrderStatus]
      /\ \A o \in Order : order'[o] \in {"ALLOCATED", "PICKING"} \/ order'[o] = order[o]
  BY <1>0, <1>2 DEF ShipTypes, OrderStatus
<1>4. /\ ship' \in Seq(ShipRow) /\ DOMAIN ship' = DOMAIN ship
      /\ \A s \in DOMAIN ship : ship'[s].order = ship[s].order
      /\ pack' \in Seq(PackRow) /\ DOMAIN pack' = DOMAIN pack
      /\ \A p \in DOMAIN pack : pack'[p].ship = pack[p].ship /\ pack'[p].has = pack[p].has
  BY <1>0, <1>2 DEF ShipTypes
<1>5. \A t \in DOMAIN ship : Cleared(t)' => Cleared(t)
  <2>1. \A d \in Client : reqs'[d] = IF d = c THEN NoReq ELSE reqs[d]
    BY <1>0, <1>2 DEF ShipTypes
  <2>2. QED
    BY <1>2, <2>1 DEF Cleared, At, NoReq, Packages
<1>6. QED
  BY <1>2, <1>3, <1>4, <1>5, ShippingWritten

(* A task that ends may pick for its order.                                 *)
LEMMA WaveTasks ==
  ASSUME PInv, NEW t \in DOMAIN task, EndTask(t)
  PROVE  PInv'
<1>0. ShipTypes
  BY DEF PInv
<1>1. PICK o : o = task[t].order
  OBVIOUS
<1>2. reqs' = reqs /\ UNCHANGED <<ship, pack>>
  BY DEF EndTask, Once
<1>3. \A p \in Order, l \in Line : picked[p][l] \in 0..Ordered /\ picked[p][l] <= picked[p][l]
  BY <1>0, ShippingConstants DEF ShipTypes
<1>4. /\ picked' \in [Order -> [Line -> 0..Ordered]]
      /\ \A p \in Order, l \in Line : picked[p][l] <= picked'[p][l]
  <2>1. CASE UNCHANGED picked
    BY <1>0, <1>3, <2>1 DEF ShipTypes
  <2>2. CASE \E l \in Line : Picks(o, l, Ordered)
    <3>1. PICK l \in Line : picked' = [picked EXCEPT ![o][l] = Ordered]
      BY <2>2 DEF Picks
    <3>2. Ordered \in 0..Ordered
      BY ShippingConstants
    <3>3. picked' \in [Order -> [Line -> 0..Ordered]]
      BY <1>0, <3>1, <3>2 DEF ShipTypes
    <3>4. ASSUME NEW p \in Order, NEW m \in Line PROVE picked[p][m] <= picked'[p][m]
      <4>1. picked'[p][m] = Ordered \/ picked'[p][m] = picked[p][m]
        BY <1>0, <3>1 DEF ShipTypes
      <4>2. QED
        BY <1>3, <4>1, ShippingConstants
    <3>5. QED
      BY <3>3, <3>4
  <2>3. QED
    BY <1>1, <2>1, <2>2 DEF EndTask
<1>6. /\ order' \in [Order -> OrderStatus]
      /\ \A p \in Order : \/ order'[p] = order[p]
                         \/ \A d \in Client : reqs[d].op = "release" => p \notin reqs[d].locks
  <2>1. CASE UNCHANGED order
    BY <1>0, <2>1 DEF ShipTypes
  <2>2. CASE \E l \in Line : Picks(o, l, Ordered)
    <3>1. PICK l \in Line : Picks(o, l, Ordered)
      BY <2>2
    <3>2. Ordered \in 0..Ordered
      BY ShippingConstants
    <3>3. QED
      BY <1>0, <3>1, <3>2, PickWrites
  <2>3. QED
    BY <1>1, <2>1, <2>2 DEF EndTask
<1>7. ship' \in Seq(ShipRow) /\ DOMAIN ship \subseteq DOMAIN ship' /\ \A s \in DOMAIN ship : ship'[s] = ship[s]
  BY <1>0, <1>2 DEF ShipTypes
<1>8. QED
  BY <1>2, <1>4, <1>6, <1>7, ShippingStatement

(* All steps together.                                                      *)
LEMMA ShippingInductive == PInv /\ [WavesNext]_<<reqVars, shipVars, waveVars>> => PInv'
<1> SUFFICES ASSUME PInv, [WavesNext]_<<reqVars, shipVars, waveVars>> PROVE PInv'
  OBVIOUS
<1>1. ASSUME ShippingStep PROVE PInv'
  BY <1>1, ShippingSmall, ShippingBegins, Plans, Packs, Checks, Stages, Ships DEF ShippingStep
<1>2. ASSUME WavesStep PROVE PInv'
  BY <1>2, WaveRequests, WaveReleases, WaveTasks DEF WavesStep
<1>3. CASE UNCHANGED <<reqVars, shipVars, waveVars>>
  <2>1. UNCHANGED <<reqs, order, picked, ship, pack>>
    BY <1>3 DEF reqVars, shipVars
  <2>2. \A o \in Order, l \in Line : picked[o][l] <= picked'[o][l]
    BY <2>1, ShippingConstants DEF PInv, ShipTypes
  <2>3. QED
    BY <2>1, <2>2, ShippingStatement DEF PInv, ShipTypes
<1>4. QED
  BY <1>1, <1>2, <1>3, WaveRequests DEF WavesNext

(* Every reachable state of shipping beside waves satisfies the invariant.  *)
LEMMA ShippingInvariant == WavesSpec => []PInv
<1>1. ReqInit /\ ShippingInit /\ WavesInit => PInv
  BY ShippingInitial
<1>2. QED
  BY <1>1, ShippingInductive, PTL DEF WavesSpec

(* Concurrent packers never pack a piece twice: what lies in an order's     *)
(* packages was picked for it.                                              *)
THEOREM PackagesWithinPicked == WavesSpec => []PackedWithinPicked
<1>1. PInv => PackedWithinPicked
  BY DEF PInv
<1>2. QED
  BY <1>1, ShippingInvariant, PTL

(* Two shipments of an order that both left would be one.                   *)
LEMMA ClearedSuffices == PInv => OneShipmentShips
<1> SUFFICES ASSUME PInv, NEW o \in Order
             PROVE  Cardinality({s \in DOMAIN ship : ship[s].order = o
                                   /\ Packages(s, {"SHIPPED"}) # {}}) <= 1
  BY DEF OneShipmentShips
<1> DEFINE Left == {s \in DOMAIN ship : ship[s].order = o /\ Packages(s, {"SHIPPED"}) # {}}
<1>1. \A s, t \in Left : s = t
  BY DEF PInv, OneCleared, Cleared
<1> HIDE DEF Left
<1>2. CASE Left = {}
  BY <1>2, FS_EmptySet DEF Left
<1>3. CASE Left # {}
  <2>1. PICK s : s \in Left
    BY <1>3
  <2>2. Left = {s}
    BY <1>1, <2>1
  <2>3. Cardinality(Left) = 1
    BY <2>2, FS_Singleton
  <2>4. QED
    BY <2>3 DEF Left
<1>4. QED
  BY <1>2, <1>3

(* Goods of an order leave with one shipment only, although stage and ship   *)
(* lock nothing and act on what may no longer be so.                        *)
THEOREM OneShipmentLeaves == WavesSpec => []OneShipmentShips
  BY ClearedSuffices, ShippingInvariant, PTL

(* Of one step: an order that has been picked is not taken back.            *)
OrdersKept == \A o \in Order : order[o] \in {"PICKED", "PACKING", "PACKED", "SHIPPED"} => order'[o] # "PICKING"

(* A release writes the orders it has locked, and they are free for picking.*)
LEMMA ReleaseKeeps == PInv /\ [WavesNext]_<<reqVars, shipVars, waveVars>> => [OrdersKept]_order
<1> SUFFICES ASSUME PInv, WavesNext, order' # order,
                    NEW o \in Order, order[o] \in {"PICKED", "PACKING", "PACKED", "SHIPPED"}
             PROVE  order'[o] # "PICKING"
  BY DEF OrdersKept, reqVars, shipVars, waveVars
<1>0. ShipTypes /\ order \in [Order -> OrderStatus]
  BY DEF PInv, ShipTypes
<1>1. CASE Pick
  <2>1. PICK p \in Order, l \in Line : picked[p][l] < Ordered /\ Picks(p, l, picked[p][l] + 1)
    BY <1>1 DEF Pick
  <2>2. picked[p][l] + 1 \in 0..Ordered
    BY <1>0, <2>1, ShippingConstants DEF ShipTypes
  <2>3. QED
    BY <1>0, <2>1, <2>2, PickWrites
<1>2. ASSUME NEW c \in Client, CommitPack(c) PROVE order'[o] # "PICKING"
  BY <1>0, <1>2 DEF CommitPack
<1>3. ASSUME NEW c \in Client, CommitShip(c) PROVE order'[o] # "PICKING"
  BY <1>0, <1>3 DEF CommitShip
<1>4. ASSUME NEW c \in Client, CommitRelease(c) PROVE order'[o] # "PICKING"
  <2>1. order'[o] = IF o \in reqs[c].locks THEN "PICKING" ELSE order[o]
    BY <1>4 DEF CommitRelease
  <2>2. o \notin reqs[c].locks
    BY <1>4 DEF CommitRelease, At, PInv, Planned
  <2>3. QED
    BY <2>1, <2>2
<1>5. ASSUME NEW t \in DOMAIN task, EndTask(t) PROVE order'[o] # "PICKING"
  <2>1. CASE UNCHANGED order
    BY <1>0, <2>1
  <2>2. CASE \E p : \E l \in Line : Picks(p, l, Ordered)
    <3>1. PICK p : \E l \in Line : Picks(p, l, Ordered)
      BY <2>2
    <3>2. PICK l \in Line : Picks(p, l, Ordered)
      BY <3>1
    <3>3. Ordered \in 0..Ordered
      BY ShippingConstants
    <3>4. QED
      BY <1>0, <3>2, <3>3, PickWrites
  <2>3. QED
    BY <1>5, <2>1, <2>2 DEF EndTask
<1>6. ASSUME NEW c \in Client, NEW s \in DOMAIN ship, BeginPack(c, s) \/ BeginStage(c, s) \/ BeginShip(c, s)
      PROVE  FALSE
  BY <1>6 DEF BeginPack, BeginStage, BeginShip, shipVars
<1>7. ASSUME NEW c \in Client, LockAndPlan(c) \/ Check(c) \/ CommitStage(c) \/ CommitVoid(c)
      PROVE  FALSE
  BY <1>7 DEF LockAndPlan, Check, CommitStage, CommitVoid, shipVars
<1>8. ASSUME \/ \E p \in Order : CreateShipment(p)
             \/ \E s \in DOMAIN ship : GenerateLabel(s) \/ CreateLabel(s)
             \/ \E c \in Client, b \in DOMAIN label : BeginVoid(c, b)
             \/ \E b \in DOMAIN label : TrackingCancels(b)
      PROVE  FALSE
  BY <1>8 DEF CreateShipment, GenerateLabel, CreateLabel, NewLabel, BeginVoid, TrackingCancels, shipVars
<1>9. ASSUME NEW c \in Client, BeginWave(c) \/ InsertWave(c) \/ ReadTasks(c) \/ UpdateOrder(c) \/ CommitComplete(c)
      PROVE  FALSE
  BY <1>9, Zenon DEF BeginWave, InsertWave, ReadTasks, UpdateOrder, CommitComplete, shipVars
<1>10. ASSUME \/ \E c \in Client, w \in DOMAIN wave : BeginRelease(c, w) \/ BeginComplete(c, w)
              \/ \E c \in Client : Abort(c) /\ UNCHANGED <<shipVars, waveVars>>
       PROVE  FALSE
  BY <1>10 DEF BeginRelease, BeginComplete, shipVars
<1>11. CASE ShippingStep
  BY <1>1, <1>2, <1>3, <1>6, <1>7, <1>8, <1>11 DEF ShippingStep
<1>12. CASE WavesStep
  BY <1>4, <1>5, <1>9, <1>10, <1>12 DEF WavesStep
<1>13. QED
  BY <1>10, <1>11, <1>12 DEF WavesNext

(* A wave's release never takes an order back that was packed or shipped    *)
(* since the wave was planned: it updates the order under its row lock, and *)
(* only while it is free for picking.                                       *)
THEOREM WavesNeverReopen == WavesSpec => WaveNeverReopens
  BY ReleaseKeeps, ShippingInvariant, PTL DEF WavesSpec, WaveNeverReopens, OrdersKept

-----------------------------------------------------------------------------
(* Labels, waves and tasks: each names rows there are.                      *)
LabelRow     == [ship : Nat, pack : Nat, st : LabelStatus]
WaveOrderRow == [order : Order, st : WaveOrderStatus]
WaveRow      == [st : WaveStatus, orders : Seq(WaveOrderRow), links : SUBSET Nat]
TaskRow      == [order : Order, st : PickStatus]

Labels == label \in Seq(LabelRow) /\ \A b \in DOMAIN label : label[b].ship \in DOMAIN ship
Tasks  == task \in Seq(TaskRow)
WavesLinked(rows) == rows \in Seq(WaveRow) /\ \A w \in DOMAIN rows : rows[w].links \subseteq DOMAIN task

(* What a request has gathered for a wave.                                  *)
Gathers(r) == /\ r.op = "wave" => r.plan \in Seq(Order)
              /\ r.op = "release" => r.found \subseteq DOMAIN task /\ r.new \subseteq Order

VTyped == /\ Labels /\ Tasks /\ WavesLinked(wave) /\ active \subseteq Order
          /\ \A c \in Client : Gathers(reqs[c])

(* The types of shipping and of waves follow.                               *)
LEMMA WavesTyped == PInv /\ VTyped => ShippingTypeOK /\ WavesTypeOK
<1> SUFFICES ASSUME PInv, VTyped PROVE ShippingTypeOK /\ WavesTypeOK
  OBVIOUS
<1>0. ShipTypes /\ Labels /\ Tasks /\ WavesLinked(wave)
  BY DEF PInv, VTyped
<1>1. \A s \in DOMAIN ship : ship[s] \in ShipRow
  BY <1>0, ElementOfSeq, LenProperties DEF ShipTypes
<1>2. \A p \in DOMAIN pack : pack[p].ship \in DOMAIN ship /\ pack[p].st \in PackageStatus
  BY <1>0, PackFacts DEF ShipTypes
<1>3. \A b \in DOMAIN label : label[b] \in LabelRow /\ label[b].ship \in DOMAIN ship
  BY <1>0, ElementOfSeq, LenProperties DEF Labels
<1>4. \A b \in DOMAIN label : label[b].ship \in DOMAIN ship /\ label[b].st \in LabelStatus
  BY <1>3 DEF LabelRow
<1>5. ShippingTypeOK
  BY <1>0, <1>1, <1>2, <1>4 DEF ShippingTypeOK, ShipTypes, ShipRow
<1>6. ASSUME NEW w \in DOMAIN wave
      PROVE  /\ wave[w].st \in WaveStatus /\ wave[w].orders \in Seq(WaveOrderRow)
             /\ wave[w].links \subseteq DOMAIN task
  <2>1. wave[w] \in WaveRow /\ wave[w].links \subseteq DOMAIN task
    BY <1>0, ElementOfSeq, LenProperties DEF WavesLinked
  <2>2. QED
    BY <2>1 DEF WaveRow
<1>7. \A t \in DOMAIN task : task[t].order \in Order /\ task[t].st \in PickStatus
  <2>1. \A t \in DOMAIN task : task[t] \in TaskRow
    BY <1>0, ElementOfSeq, LenProperties DEF Tasks
  <2>2. QED
    BY <2>1 DEF TaskRow
<1>8. WavesTypeOK
  BY <1>6, <1>7 DEF WavesTypeOK, VTyped, WaveOrderRow
<1>9. QED
  BY <1>5, <1>8

(* A row added at the end of a table.                                       *)
LEMMA RowAppended ==
  ASSUME NEW R, NEW f \in Seq(R), NEW x \in R, NEW g, g = Append(f, x)
  PROVE  /\ g \in Seq(R) /\ DOMAIN f \subseteq DOMAIN g
         /\ \A i \in DOMAIN f : g[i] = f[i]
         /\ \A i \in DOMAIN g : i \in DOMAIN f \/ g[i] = x
<1>1. /\ g \in Seq(R) /\ Len(g) = Len(f) + 1 /\ g[Len(f) + 1] = x
      /\ \A i \in 1..Len(f) : g[i] = f[i]
  BY AppendProperties
<1>2. DOMAIN f = 1..Len(f) /\ DOMAIN g = 1..Len(g) /\ Len(f) \in Nat
  BY <1>1, LenProperties
<1>3. QED
  BY <1>1, <1>2

(* Shipments are never deleted.                                             *)
LEMMA ShipmentsStay ==
  PInv /\ [WavesNext]_<<reqVars, shipVars, waveVars>> => DOMAIN ship \subseteq DOMAIN ship'
<1> SUFFICES ASSUME PInv, [WavesNext]_<<reqVars, shipVars, waveVars>> PROVE DOMAIN ship \subseteq DOMAIN ship'
  OBVIOUS
<1>1. ASSUME NEW o \in Order, CreateShipment(o) PROVE DOMAIN ship \subseteq DOMAIN ship'
  <2>1. PICK row : row = [order |-> o, st |-> "PACKING"]
    OBVIOUS
  <2>2. row \in ShipRow /\ ship' = Append(ship, row) /\ ship \in Seq(ShipRow)
    BY <1>1, <2>1 DEF CreateShipment, ShipRow, ShipmentStatus, PInv, ShipTypes
  <2>3. PICK g : g = Append(ship, row)
    OBVIOUS
  <2>4. DOMAIN ship \subseteq DOMAIN g
    BY <2>2, <2>3, RowAppended
  <2>5. QED
    BY <2>2, <2>3, <2>4
<1>2. ASSUME NEW c \in Client, CommitStage(c) \/ CommitShip(c) PROVE DOMAIN ship \subseteq DOMAIN ship'
  BY <1>2 DEF CommitStage, CommitShip
<1>3. ASSUME UNCHANGED ship PROVE DOMAIN ship \subseteq DOMAIN ship'
  BY <1>3
<1>4. QED
  BY <1>1, <1>2, <1>3, Zenon
     DEF WavesNext, ShippingStep, WavesStep, Pick, BeginPack, BeginStage, BeginShip, LockAndPlan, CommitPack,
         Check, CommitVoid, GenerateLabel, CreateLabel, NewLabel, BeginVoid, TrackingCancels,
         BeginWave, InsertWave, ReadTasks, UpdateOrder, CommitRelease, CommitComplete, BeginRelease,
         BeginComplete, EndTask, shipVars, reqVars, waveVars

(* The status is all that changes of a label.                               *)
LEMMA LabelsKept ==
  PInv /\ Labels /\ [WavesNext]_<<reqVars, shipVars, waveVars>> => Labels'
<1> SUFFICES ASSUME PInv, Labels, [WavesNext]_<<reqVars, shipVars, waveVars>> PROVE Labels'
  OBVIOUS
<1>a. /\ label \in Seq(LabelRow) /\ DOMAIN ship \subseteq DOMAIN ship'
      /\ \A b \in DOMAIN label : label[b] \in LabelRow /\ label[b].ship \in DOMAIN ship
  BY ShipmentsStay, ElementOfSeq, LenProperties DEF Labels
<1>b. \A q \in LabelRow, st \in LabelStatus : /\ [q EXCEPT !.st = st] \in LabelRow
                                              /\ [q EXCEPT !.st = st].ship = q.ship
  BY DEF LabelRow
<1>c. ASSUME NEW g, g = [b \in DOMAIN label |-> g[b]],
             \A b \in DOMAIN label : g[b] = label[b] \/ \E st \in LabelStatus : g[b] = [label[b] EXCEPT !.st = st],
             label' = g
      PROVE  Labels'
  <2>1. ASSUME NEW b \in DOMAIN label PROVE g[b] \in LabelRow /\ g[b].ship = label[b].ship
    <3>1. label[b] \in LabelRow
      BY <1>a
    <3>2. CASE g[b] = label[b]
      BY <3>1, <3>2
    <3>3. ASSUME NEW st \in LabelStatus, g[b] = [label[b] EXCEPT !.st = st]
          PROVE  g[b] \in LabelRow /\ g[b].ship = label[b].ship
      BY <1>b, <3>1, <3>3, Zenon
    <3>4. QED
      BY <1>c, <3>2, <3>3, Zenon
  <2>2. g \in Seq(LabelRow) /\ DOMAIN g = DOMAIN label
    BY <1>a, <1>c, <2>1, RowsRewritten
  <2>3. QED
    BY <1>a, <1>c, <2>1, <2>2 DEF Labels
<1>1. ASSUME NEW s \in DOMAIN ship, NEW p \in Packages(s, PackageStatus) \cup {0}, NewLabel(s, p) PROVE Labels'
  <2>1. s \in Nat /\ p \in Nat
    BY LenProperties DEF PInv, ShipTypes, Packages
  <2>2. PICK row : row = [ship |-> s, pack |-> p, st |-> "GENERATED"]
    OBVIOUS
  <2>3. row \in LabelRow /\ row.ship = s /\ label' = Append(label, row)
    BY <1>1, <2>1, <2>2 DEF NewLabel, LabelRow, LabelStatus
  <2>4. PICK g : g = Append(label, row)
    OBVIOUS
  <2>5. /\ g \in Seq(LabelRow) /\ \A i \in DOMAIN label : g[i] = label[i]
        /\ \A i \in DOMAIN g : i \in DOMAIN label \/ g[i] = row
    BY <1>a, <2>3, <2>4, RowAppended
  <2>6. \A i \in DOMAIN g : g[i].ship \in DOMAIN ship'
    BY <1>a, <2>3, <2>5
  <2>7. QED
    BY <2>3, <2>4, <2>5, <2>6 DEF Labels
<1>2. ASSUME NEW c \in Client, CommitShip(c) PROVE Labels'
  <2>1. PICK s : s = reqs[c].ship
    OBVIOUS
  <2>2. PICK g : g = [b \in DOMAIN label |-> IF label[b].ship = s /\ label[b].st = "GENERATED"
                                             THEN [label[b] EXCEPT !.st = "PRINTED"] ELSE label[b]]
    OBVIOUS
  <2>3. /\ g = [b \in DOMAIN label |-> g[b]]
        /\ \A b \in DOMAIN label : g[b] = label[b] \/ g[b] = [label[b] EXCEPT !.st = "PRINTED"]
    BY <2>2
  <2>4. label' = g /\ "PRINTED" \in LabelStatus
    BY <1>2, <2>1, <2>2 DEF CommitShip, LabelStatus
  <2>5. QED
    BY <1>c, <2>3, <2>4
<1>3. ASSUME NEW x, label' = [label EXCEPT ![x].st = "CANCELLED"] PROVE Labels'
  <2>1. PICK g : g = [label EXCEPT ![x].st = "CANCELLED"]
    OBVIOUS
  <2>2. /\ g = [b \in DOMAIN label |-> g[b]]
        /\ \A b \in DOMAIN label : g[b] = label[b] \/ g[b] = [label[b] EXCEPT !.st = "CANCELLED"]
    BY <2>1
  <2>3. label' = g /\ "CANCELLED" \in LabelStatus
    BY <1>3, <2>1 DEF LabelStatus
  <2>4. QED
    BY <1>c, <2>2, <2>3
<1>4. ASSUME UNCHANGED label PROVE Labels'
  BY <1>4, <1>a DEF Labels
<1>5. ASSUME NEW c \in Client, CommitVoid(c) PROVE Labels'
  BY <1>3, <1>5 DEF CommitVoid
<1>6. ASSUME NEW b \in DOMAIN label, TrackingCancels(b) PROVE Labels'
  BY <1>3, <1>6 DEF TrackingCancels
<1>7. ASSUME NEW s \in DOMAIN ship, GenerateLabel(s) \/ CreateLabel(s) PROVE Labels'
  BY <1>1, <1>7 DEF GenerateLabel, CreateLabel
<1>8. QED
  BY <1>2, <1>4, <1>5, <1>6, <1>7, Zenon
     DEF WavesNext, ShippingStep, WavesStep, Pick, CreateShipment, BeginPack, BeginStage, BeginShip, LockAndPlan,
         CommitPack, Check, CommitStage, BeginVoid,
         BeginWave, InsertWave, ReadTasks, UpdateOrder, CommitRelease, CommitComplete, BeginRelease,
         BeginComplete, EndTask, shipVars, reqVars, waveVars

(* A finite set as a sequence.                                              *)
LEMMA SetAsSequence == ASSUME NEW S, IsFiniteSet(S) PROVE SetToSeq(S) \in Seq(S)
<1>1. PICK n \in Nat : ExistsBijection(1..n, S)
  BY FS_NatBijection
<1>2. PICK f : f \in Bijection(1..n, S)
  BY <1>1 DEF ExistsBijection
<1>3. Cardinality(S) = n
  BY <1>1, FS_CountingElements
<1>4. f \in [1..Cardinality(S) -> S] /\ IsInjective(f)
  BY <1>2, <1>3 DEF Bijection, Injection, IsInjective
<1>5. SetToSeq(S) \in [1..Cardinality(S) -> S]
  BY <1>4 DEF SetToSeq
<1>6. QED
  BY <1>3, <1>5

(* A task is added for an order of the wave, or ends.                       *)
LEMMA TasksKept ==
  Tasks /\ (\A c \in Client : Gathers(reqs[c])) /\ [WavesNext]_<<reqVars, shipVars, waveVars>>
    => Tasks' /\ DOMAIN task \subseteq DOMAIN task'
<1> SUFFICES ASSUME Tasks, \A c \in Client : Gathers(reqs[c]), [WavesNext]_<<reqVars, shipVars, waveVars>>
             PROVE  Tasks' /\ DOMAIN task \subseteq DOMAIN task'
  OBVIOUS
<1>a. /\ task \in Seq(TaskRow)
      /\ \A t \in DOMAIN task : task[t] \in TaskRow
  BY ElementOfSeq, LenProperties DEF Tasks
<1>1. ASSUME NEW c \in Client, CommitRelease(c) PROVE Tasks' /\ DOMAIN task \subseteq DOMAIN task'
  <2>1. PICK made : made = SetToSeq(reqs[c].new)
    OBVIOUS
  <2>2. made \in Seq(Order)
    <3>1. reqs[c].new \subseteq Order
      <4>1. reqs[c].op = "release"
        BY <1>1, Zenon DEF CommitRelease, At
      <4>2. QED
        BY <4>1 DEF Gathers
    <3>2. IsFiniteSet(reqs[c].new)
      BY <3>1, WavesConstants, FS_Subset
    <3>3. made \in Seq(reqs[c].new)
      BY <2>1, <3>2, SetAsSequence
    <3>4. QED
      BY <3>1, <3>3
  <2>3. PICK g : g = [i \in DOMAIN made |-> [order |-> made[i], st |-> "OPEN"]]
    OBVIOUS
  <2>4. \A i \in DOMAIN made : g[i] \in TaskRow
    BY <2>2, <2>3 DEF TaskRow, PickStatus
  <2>5. g = [i \in DOMAIN made |-> g[i]]
    BY <2>3
  <2>6. g \in Seq(TaskRow)
    BY <2>2, <2>4, <2>5, RowsRewritten
  <2>7. PICK h : h = task \o g
    OBVIOUS
  <2>8. task' = h
    <3>1. task' = task \o [i \in DOMAIN SetToSeq(reqs[c].new) |->
                              [order |-> SetToSeq(reqs[c].new)[i], st |-> "OPEN"]]
      BY <1>1, Zenon DEF CommitRelease
    <3>2. QED
      BY <2>1, <2>3, <2>7, <3>1
  <2>9. h \in Seq(TaskRow) /\ DOMAIN task \subseteq DOMAIN h
    BY <1>a, <2>6, <2>7, RowsInserted
  <2>10. QED
    BY <2>8, <2>9 DEF Tasks
<1>2. ASSUME NEW t \in DOMAIN task, EndTask(t) PROVE Tasks' /\ DOMAIN task \subseteq DOMAIN task'
  <2>1. PICK st \in PickStatus : task' = [task EXCEPT ![t].st = st]
    BY <1>2 DEF EndTask, PickStatus
  <2>2. PICK g : g = [task EXCEPT ![t].st = st]
    OBVIOUS
  <2>3. PICK row : row = [task[t] EXCEPT !.st = st]
    OBVIOUS
  <2>4. row \in TaskRow
    BY <1>a, <2>3 DEF TaskRow
  <2>5. /\ g = [i \in DOMAIN task |-> g[i]] /\ \A i \in DOMAIN task : g[i] = IF i = t THEN row ELSE task[i]
    BY <2>2, <2>3
  <2>6. \A i \in DOMAIN task : g[i] \in TaskRow
    BY <1>a, <2>4, <2>5
  <2>7. g \in Seq(TaskRow) /\ DOMAIN g = DOMAIN task
    BY <1>a, <2>5, <2>6, RowsRewritten
  <2>8. QED
    BY <2>1, <2>2, <2>7 DEF Tasks
<1>3. ASSUME UNCHANGED task PROVE Tasks' /\ DOMAIN task \subseteq DOMAIN task'
  BY <1>3 DEF Tasks
<1>4. QED
  BY <1>1, <1>2, <1>3, Zenon
     DEF WavesNext, WavesStep, BeginWave, InsertWave, ReadTasks, UpdateOrder, CommitComplete, BeginRelease,
         BeginComplete, shipVars, reqVars, waveVars

(* What the requests gather goes on being there.                            *)
LEMMA GathersKept ==
  PInv /\ VTyped /\ [WavesNext]_<<reqVars, shipVars, waveVars>> => \A c \in Client : Gathers(reqs[c])'
<1> SUFFICES ASSUME PInv, VTyped, [WavesNext]_<<reqVars, shipVars, waveVars>>, NEW d \in Client
             PROVE  Gathers(reqs[d])'
  OBVIOUS
<1>a. /\ DOMAIN task \subseteq DOMAIN task' /\ reqs = [c \in Client |-> reqs[c]]
      /\ \A c \in Client : Gathers(reqs[c]) /\ Shape(reqs[c])
  BY TasksKept DEF VTyped, PInv, ShipTypes, Planned
<1>b. ASSUME NEW r, Gathers(r), reqs'[d] = r PROVE Gathers(reqs[d])'
  BY <1>a, <1>b DEF Gathers
<1>c. ASSUME NEW c \in Client, NEW r, Gathers(r), reqs' = [reqs EXCEPT ![c] = r] PROVE Gathers(reqs[d])'
  <2>1. reqs'[d] = r \/ reqs'[d] = reqs[d]
    BY <1>a, <1>c
  <2>2. QED
    BY <1>a, <1>b, <1>c, <2>1
<1>d. ASSUME NEW r, r.op \notin {"wave", "release"} PROVE Gathers(r)
  BY <1>d DEF Gathers
<1>1. ASSUME NEW c \in Client, BeginWave(c) PROVE Gathers(reqs[d])'
  <2>1. PICK plan \in SetToAllKPermutations({o \in Order : order[o] \in {"ALLOCATED", "PICKING"}}) :
          Begin(c, [op |-> "wave", pc |-> "insert", plan |-> plan])
    BY <1>1 DEF BeginWave
  <2>2. plan \in Seq(Order)
    <3>1. PICK S \in SUBSET Order : plan \in SetToSeqs(S)
      BY <2>1 DEF SetToAllKPermutations
    <3>2. IsFiniteSet(S)
      BY WavesConstants, FS_Subset
    <3>3. plan \in [1..Cardinality(S) -> S] /\ Cardinality(S) \in Nat
      BY <3>1, <3>2, FS_CardinalityType DEF SetToSeqs
    <3>4. QED
      BY <3>3
  <2>3. PICK r : r = [op |-> "wave", pc |-> "insert", plan |-> plan]
    OBVIOUS
  <2>4. Gathers(r) /\ reqs' = [reqs EXCEPT ![c] = r]
    BY <2>1, <2>2, <2>3 DEF Gathers, Begin
  <2>5. QED
    BY <1>c, <2>4
<1>2. ASSUME NEW c \in Client, NEW w \in DOMAIN wave, BeginRelease(c, w) PROVE Gathers(reqs[d])'
  <2>1. PICK r : r = [op |-> "release", pc |-> "read", wave |-> w, done |-> 0,
                      found |-> {}, new |-> {}, locks |-> {}]
    OBVIOUS
  <2>2. Gathers(r) /\ reqs' = [reqs EXCEPT ![c] = r]
    BY <1>2, <2>1 DEF BeginRelease, Begin, Gathers
  <2>3. QED
    BY <1>c, <2>2
<1>3. ASSUME NEW c \in Client, ReadTasks(c) PROVE Gathers(reqs[d])'
  <2>1. PICK q : q = reqs[c]
    OBVIOUS
  <2>2. q.op = "release" /\ Shape(q) /\ q.found \subseteq DOMAIN task /\ q.new \subseteq Order
    BY <1>3, <1>a, <2>1 DEF ReadTasks, At, Gathers
  <2>3. PICK o : o = NextOrder(q)
    OBVIOUS
  <2>4. PICK createMissing \in BOOLEAN :
          Advance(c, [q EXCEPT !.pc = "update", !.found = @ \cup Open(o),
             !.new = IF createMissing /\ Open(o) = {} /\ o \in active THEN @ \cup {o} ELSE @])
    <3>1. \E createMissing \in BOOLEAN :
            Advance(c, [reqs[c] EXCEPT !.pc = "update", !.found = @ \cup Open(NextOrder(reqs[c])),
              !.new = IF createMissing /\ Open(NextOrder(reqs[c])) = {} /\ NextOrder(reqs[c]) \in active
                      THEN @ \cup {NextOrder(reqs[c])} ELSE @])
      BY <1>3, Zenon DEF ReadTasks
    <3>2. QED
      BY <2>1, <2>3, <3>1, Zenon
  <2>5. PICK found : found = q.found \cup Open(o)
    OBVIOUS
  <2>6. PICK new : new = IF createMissing /\ Open(o) = {} /\ o \in active THEN q.new \cup {o} ELSE q.new
    OBVIOUS
  <2>7. Advance(c, [q EXCEPT !.pc = "update", !.found = found, !.new = new])
    BY <2>4, <2>5, <2>6
  <2>8. found \subseteq DOMAIN task /\ new \subseteq Order
    BY <2>2, <2>5, <2>6 DEF Open, VTyped
  <2>9. PICK r : r = [q EXCEPT !.pc = "update", !.found = found, !.new = new]
    OBVIOUS
  <2>10. r.found = found /\ r.new = new
    BY <2>2, <2>9 DEF Shape
  <2>11. Gathers(r) /\ reqs' = [reqs EXCEPT ![c] = r]
    <3>1. r.op = "release"
      BY <2>2, <2>9 DEF Shape
    <3>2. QED
      BY <2>7, <2>8, <2>9, <2>10, <3>1 DEF Gathers, Advance
  <2>12. QED
    BY <1>c, <2>11
<1>4. ASSUME NEW c \in Client, UpdateOrder(c) PROVE Gathers(reqs[d])'
  <2>1. PICK q : q = reqs[c]
    OBVIOUS
  <2>2. q.op = "release" /\ Shape(q) /\ q.found \subseteq DOMAIN task /\ q.new \subseteq Order
    BY <1>4, <1>a, <2>1 DEF UpdateOrder, At, Gathers
  <2>3. PICK o : o = NextOrder(q)
    OBVIOUS
  <2>4. PICK locks : locks = IF ToPicking(o) THEN q.locks \cup {o} ELSE q.locks
    OBVIOUS
  <2>5. PICK done : Advance(c, [q EXCEPT !.pc = "read", !.done = done, !.locks = locks])
    <3>1. Advance(c, [reqs[c] EXCEPT !.pc = "read", !.done = @ + 1,
             !.locks = IF ToPicking(NextOrder(reqs[c])) THEN @ \cup {NextOrder(reqs[c])} ELSE @])
      BY <1>4, Zenon DEF UpdateOrder
    <3>2. PICK done : done = q.done + 1
      OBVIOUS
    <3>3. Advance(c, [q EXCEPT !.pc = "read", !.done = done, !.locks = locks])
      BY <2>1, <2>3, <2>4, <3>1, <3>2
    <3>4. QED
      BY <3>3, Zenon
  <2>6. PICK r : r = [q EXCEPT !.pc = "read", !.done = done, !.locks = locks]
    OBVIOUS
  <2>7. r.op = "release" /\ r.found = q.found /\ r.new = q.new
    BY <2>2, <2>6 DEF Shape
  <2>8. Gathers(r) /\ reqs' = [reqs EXCEPT ![c] = r]
    BY <2>2, <2>5, <2>6, <2>7 DEF Gathers, Advance
  <2>9. QED
    BY <1>c, <2>8
<1>5. ASSUME NEW c \in Client, reqs' = [reqs EXCEPT ![c] = NoReq] PROVE Gathers(reqs[d])'
  BY <1>c, <1>d, <1>5 DEF NoReq
<1>6. ASSUME NEW c \in Client, \/ InsertWave(c) \/ CommitRelease(c) \/ CommitComplete(c) \/ CommitPack(c)
                              \/ CommitStage(c) \/ CommitShip(c) \/ CommitVoid(c) \/ Abort(c)
      PROVE  Gathers(reqs[d])'
  <2>1. Finish(c)
    BY <1>6, Zenon DEF InsertWave, CommitRelease, CommitComplete, CommitPack, CommitStage, CommitShip, CommitVoid, Abort
  <2>2. QED
    BY <1>5, <2>1 DEF Finish, Advance
<1>7. ASSUME NEW c \in Client, NEW r, r.op \notin {"wave", "release"}, Begin(c, r) \/ Advance(c, r)
      PROVE  Gathers(reqs[d])'
  BY <1>c, <1>d, <1>7 DEF Begin, Advance
<1>8. ASSUME NEW c \in Client, NEW s, BeginPack(c, s) \/ BeginStage(c, s) \/ BeginShip(c, s) PROVE Gathers(reqs[d])'
  BY <1>7, <1>8 DEF BeginPack, BeginStage, BeginShip
<1>9. ASSUME NEW c \in Client, NEW x, BeginVoid(c, x) \/ BeginComplete(c, x) PROVE Gathers(reqs[d])'
  BY <1>7, <1>9 DEF BeginVoid, BeginComplete
<1>10. ASSUME NEW c \in Client, LockAndPlan(c) PROVE Gathers(reqs[d])'
  BY <1>7, <1>10 DEF LockAndPlan
<1>11. ASSUME NEW c \in Client, Check(c) PROVE Gathers(reqs[d])'
  <2>1. PICK q : q = reqs[c]
    OBVIOUS
  <2>2. q.op \in {"stage", "ship"} /\ Shape(q) /\ Advance(c, [q EXCEPT !.pc = "commit"])
    BY <1>a, <1>11, <2>1 DEF Check, At
  <2>3. PICK r : r = [q EXCEPT !.pc = "commit"]
    OBVIOUS
  <2>4. r.op = q.op
    BY <2>2, <2>3 DEF Shape
  <2>5. QED
    BY <1>7, <2>2, <2>3, <2>4
<1>12. ASSUME UNCHANGED reqs PROVE Gathers(reqs[d])'
  BY <1>a, <1>b, <1>12
<1>13. QED
  BY <1>1, <1>2, <1>3, <1>4, <1>6, <1>8, <1>9, <1>10, <1>11, <1>12, Zenon
     DEF WavesNext, ShippingStep, WavesStep, Pick, CreateShipment, GenerateLabel, CreateLabel, NewLabel,
         TrackingCancels, EndTask, Once, reqVars

(* A wave comes with its orders, is released with tasks that are there by    *)
(* then, and completed.                                                     *)
LEMMA WavesKept ==
  PInv /\ VTyped /\ [WavesNext]_<<reqVars, shipVars, waveVars>> => WavesLinked(wave)'
<1> SUFFICES ASSUME PInv, VTyped, [WavesNext]_<<reqVars, shipVars, waveVars>> PROVE WavesLinked(wave)'
  OBVIOUS
<1>a. /\ wave \in Seq(WaveRow) /\ DOMAIN task \subseteq DOMAIN task' /\ task \in Seq(TaskRow) /\ Tasks'
      /\ \A w \in DOMAIN wave : wave[w] \in WaveRow /\ wave[w].links \subseteq DOMAIN task
      /\ \A c \in Client : Gathers(reqs[c])
  BY TasksKept, ElementOfSeq, LenProperties DEF VTyped, WavesLinked, Tasks
<1>b. ASSUME NEW w, NEW row,
             row.links \subseteq DOMAIN task', w \in DOMAIN wave => row \in WaveRow,
             wave' = [wave EXCEPT ![w] = row]
      PROVE  WavesLinked(wave)'
  <2>1. PICK g : g = [wave EXCEPT ![w] = row]
    OBVIOUS
  <2>2. g = [x \in DOMAIN wave |-> g[x]] /\ \A x \in DOMAIN wave : g[x] = IF x = w THEN row ELSE wave[x]
    BY <2>1
  <2>3. \A x \in DOMAIN wave : g[x] \in WaveRow /\ g[x].links \subseteq DOMAIN task'
    BY <1>a, <1>b, <2>2
  <2>4. g \in Seq(WaveRow) /\ DOMAIN g = DOMAIN wave
    BY <1>a, <2>2, <2>3, RowsRewritten
  <2>5. QED
    BY <1>b, <2>1, <2>3, <2>4 DEF WavesLinked
<1>d. ASSUME NEW g, g = [x \in DOMAIN wave |-> g[x]], \A x \in DOMAIN wave : g[x] = wave[x], wave' = g
      PROVE  WavesLinked(wave)'
  <2>1. \A x \in DOMAIN wave : g[x] \in WaveRow /\ g[x].links \subseteq DOMAIN task'
    BY <1>a, <1>d
  <2>2. g \in Seq(WaveRow) /\ DOMAIN g = DOMAIN wave
    BY <1>a, <1>d, <2>1, RowsRewritten
  <2>3. QED
    BY <1>d, <2>1, <2>2 DEF WavesLinked
<1>1. ASSUME NEW c \in Client, InsertWave(c) PROVE WavesLinked(wave)'
  <2>1. PICK plan \in Seq(Order) : plan = reqs[c].plan
    <3>1. reqs[c].op = "wave"
      BY <1>1, Zenon DEF InsertWave, At
    <3>2. QED
      BY <1>a, <3>1 DEF Gathers
  <2>2. PICK rows : rows = [i \in DOMAIN plan |-> [order |-> plan[i], st |-> "PLANNED"]]
    OBVIOUS
  <2>3. rows \in Seq(WaveOrderRow)
    <3>1. \A i \in DOMAIN plan : rows[i] \in WaveOrderRow
      BY <2>2 DEF WaveOrderRow, WaveOrderStatus
    <3>2. rows = [i \in DOMAIN plan |-> rows[i]]
      BY <2>2
    <3>3. QED
      BY <3>1, <3>2, RowsRewritten
  <2>4. PICK st \in WaveStatus : st = IF plan = <<>> THEN "DRAFT" ELSE "PLANNED"
    BY DEF WaveStatus
  <2>5. PICK row : row = [st |-> st, links |-> {}, orders |-> rows]
    OBVIOUS
  <2>6. row \in WaveRow /\ row.links = {}
    BY <2>3, <2>5 DEF WaveRow
  <2>7. wave' = Append(wave, row)
    <3>1. wave' = Append(wave, [st |-> IF reqs[c].plan = <<>> THEN "DRAFT" ELSE "PLANNED", links |-> {},
                 orders |-> [i \in DOMAIN reqs[c].plan |-> [order |-> reqs[c].plan[i], st |-> "PLANNED"]]])
      BY <1>1, Zenon DEF InsertWave
    <3>2. QED
      BY <2>1, <2>2, <2>4, <2>5, <3>1
  <2>8. PICK g : g = Append(wave, row)
    OBVIOUS
  <2>9. /\ g \in Seq(WaveRow) /\ \A i \in DOMAIN wave : g[i] = wave[i]
        /\ \A i \in DOMAIN g : i \in DOMAIN wave \/ g[i] = row
    BY <1>a, <2>6, <2>8, RowAppended
  <2>10. \A i \in DOMAIN g : g[i].links \subseteq DOMAIN task'
    BY <1>a, <2>6, <2>9
  <2>11. QED
    BY <2>7, <2>8, <2>9, <2>10 DEF WavesLinked
<1>c. ASSUME NEW w \in DOMAIN wave, NEW S, NEW st \in WaveOrderStatus
      PROVE  SetOrders(w, S, st) \in Seq(WaveOrderRow)
  <2>1. PICK old \in Seq(WaveOrderRow) : old = wave[w].orders
    BY <1>a DEF WaveRow
  <2>2. PICK rows : rows = SetOrders(w, S, st)
    OBVIOUS
  <2>3. rows = [i \in DOMAIN old |-> IF old[i].st \in S THEN [old[i] EXCEPT !.st = st] ELSE old[i]]
    BY <2>1, <2>2 DEF SetOrders
  <2>4. ASSUME NEW i \in DOMAIN old PROVE rows[i] \in WaveOrderRow
    <3>1. PICK x \in WaveOrderRow : x = old[i]
      BY ElementOfSeq, LenProperties
    <3>2. rows[i] = x \/ rows[i] = [x EXCEPT !.st = st]
      BY <2>3, <3>1
    <3>3. QED
      BY <3>1, <3>2 DEF WaveOrderRow
  <2>5. rows = [i \in DOMAIN old |-> rows[i]]
    BY <2>3
  <2>6. QED
    BY <2>2, <2>4, <2>5, RowsRewritten
<1>2. ASSUME NEW c \in Client, CommitComplete(c) PROVE WavesLinked(wave)'
  <2>1. PICK w : w = reqs[c].wave
    OBVIOUS
  <2>2. PICK rows : rows = SetOrders(w, {"RELEASED"}, "PICKED")
    OBVIOUS
  <2>3. wave' = [wave EXCEPT ![w].st = "COMPLETED", ![w].orders = rows]
    BY <1>2, <2>1, <2>2, Zenon DEF CommitComplete
  <2>4. CASE w \in DOMAIN wave
    <3>1. PICK row \in WaveRow : row = wave[w]
      BY <1>a, <2>4
    <3>2. rows \in Seq(WaveOrderRow)
      BY <1>c, <2>2, <2>4 DEF WaveOrderStatus
    <3>3. PICK new : new = [row EXCEPT !.st = "COMPLETED", !.orders = rows]
      OBVIOUS
    <3>4. wave' = [wave EXCEPT ![w] = new]
      BY <2>3, <2>4, <3>1, <3>3
    <3>5. new \in WaveRow /\ new.links = row.links
      BY <3>2, <3>3 DEF WaveRow, WaveStatus
    <3>6. new.links \subseteq DOMAIN task'
      BY <1>a, <2>4, <3>1, <3>5
    <3>7. QED
      BY <1>b, <3>4, <3>5, <3>6
  <2>5. CASE w \notin DOMAIN wave
    <3>1. PICK g : g = wave'
      OBVIOUS
    <3>2. g = [x \in DOMAIN wave |-> g[x]] /\ \A x \in DOMAIN wave : g[x] = wave[x]
      BY <2>3, <2>5, <3>1
    <3>3. QED
      BY <1>d, <3>1, <3>2
  <2>6. QED
    BY <2>4, <2>5
<1>3. ASSUME NEW c \in Client, CommitRelease(c) PROVE WavesLinked(wave)'
  <2>1. PICK w : w = reqs[c].wave
    OBVIOUS
  <2>2. PICK rows : rows = SetOrders(w, WaveOrderStatus, "RELEASED")
    OBVIOUS
  <2>3. PICK found \in SUBSET DOMAIN task : found = reqs[c].found
    <3>1. reqs[c].op = "release"
      BY <1>3, Zenon DEF CommitRelease, At
    <3>2. QED
      BY <1>a, <3>1 DEF Gathers
  <2>4. PICK made : made = Len(task) + 1 .. Len(task')
    OBVIOUS
  <2>5. wave' = [wave EXCEPT ![w].st = "RELEASED", ![w].orders = rows, ![w].links = @ \cup found \cup made]
    <3>1. \E all : /\ task' = all
                   /\ wave' = [wave EXCEPT ![w].st = "RELEASED",
                               ![w].orders = SetOrders(w, WaveOrderStatus, "RELEASED"),
                               ![w].links = @ \cup reqs[c].found \cup (Len(task) + 1 .. Len(all))]
      BY <1>3, <2>1, Zenon DEF CommitRelease
    <3>2. QED
      BY <2>2, <2>3, <2>4, <3>1, Zenon
  <2>6. CASE w \in DOMAIN wave
    <3>1. PICK row \in WaveRow : row = wave[w]
      BY <1>a, <2>6
    <3>2. rows \in Seq(WaveOrderRow)
      BY <1>c, <2>2, <2>6 DEF WaveOrderStatus
    <3>3. PICK links : links = row.links \cup found \cup made
      OBVIOUS
    <3>4. links \subseteq DOMAIN task' /\ links \subseteq Nat
      <4>1. made \subseteq DOMAIN task'
        <5>1. PICK a, b : a = task /\ b = task' /\ a \in Seq(TaskRow) /\ b \in Seq(TaskRow)
          BY <1>a DEF Tasks
        <5>2. Len(a) \in Nat /\ Len(b) \in Nat /\ DOMAIN b = 1..Len(b)
          BY <5>1, LenProperties
        <5>3. QED
          BY <2>4, <5>1, <5>2
      <4>2. links \subseteq DOMAIN task'
        BY <1>a, <2>3, <2>6, <3>1, <3>3, <4>1
      <4>3. DOMAIN task' \subseteq Nat
        BY <1>a, LenProperties DEF Tasks
      <4>4. QED
        BY <4>2, <4>3
    <3>5. PICK new : new = [row EXCEPT !.st = "RELEASED", !.orders = rows, !.links = links]
      OBVIOUS
    <3>6. wave' = [wave EXCEPT ![w] = new]
      <4>1. PICK old : old = [row EXCEPT !.st = "RELEASED", !.orders = rows]
        OBVIOUS
      <4>2. old.links = row.links /\ new = [old EXCEPT !.links = links]
        BY <3>5, <4>1 DEF WaveRow
      <4>3. wave' = [wave EXCEPT ![w] = [old EXCEPT !.links = @ \cup found \cup made]]
        BY <2>5, <2>6, <3>1, <4>1
      <4>4. QED
        BY <3>3, <4>2, <4>3
    <3>7. new \in WaveRow /\ new.links = links
      <4>1. PICK old : old = [row EXCEPT !.st = "RELEASED", !.orders = rows]
        OBVIOUS
      <4>2. old \in WaveRow /\ new = [old EXCEPT !.links = links]
        BY <3>2, <3>5, <4>1 DEF WaveRow, WaveStatus
      <4>3. QED
        BY <3>4, <4>2 DEF WaveRow
    <3>8. QED
      BY <1>b, <3>4, <3>6, <3>7
  <2>7. CASE w \notin DOMAIN wave
    <3>1. PICK g : g = wave'
      OBVIOUS
    <3>2. g = [x \in DOMAIN wave |-> g[x]] /\ \A x \in DOMAIN wave : g[x] = wave[x]
      BY <2>5, <2>7, <3>1
    <3>3. QED
      BY <1>d, <3>1, <3>2
  <2>8. QED
    BY <2>6, <2>7
<1>4. ASSUME UNCHANGED wave PROVE WavesLinked(wave)'
  BY <1>4, <1>a DEF WavesLinked
<1>5. QED
  BY <1>1, <1>2, <1>3, <1>4, Zenon
     DEF WavesNext, ShippingStep, WavesStep, BeginWave, ReadTasks, UpdateOrder, BeginRelease,
         BeginComplete, EndTask, shipVars, reqVars, waveVars

(* An order's reservation is active until its task is done.                 *)
LEMMA ActiveKept ==
  active \subseteq Order /\ [WavesNext]_<<reqVars, shipVars, waveVars>> => (active \subseteq Order)'
<1> SUFFICES ASSUME active \subseteq Order, [WavesNext]_<<reqVars, shipVars, waveVars>>
             PROVE  (active \subseteq Order)'
  OBVIOUS
<1>1. ASSUME NEW t, EndTask(t) PROVE (active \subseteq Order)'
  <2>1. active' \subseteq active
    BY <1>1 DEF EndTask
  <2>2. QED
    BY <2>1
<1>2. ASSUME UNCHANGED active PROVE (active \subseteq Order)'
  BY <1>2
<1>3. QED
  BY <1>1, <1>2, Zenon
     DEF WavesNext, WavesStep, BeginWave, InsertWave, ReadTasks, UpdateOrder, CommitRelease, CommitComplete,
         BeginRelease, BeginComplete, shipVars, reqVars, waveVars

(* All parts together.                                                      *)
LEMMA WavesTypesKept == PInv /\ VTyped /\ [WavesNext]_<<reqVars, shipVars, waveVars>> => VTyped'
<1> SUFFICES ASSUME PInv, VTyped, [WavesNext]_<<reqVars, shipVars, waveVars>> PROVE VTyped'
  OBVIOUS
<1>1. Labels' /\ Tasks'
  BY LabelsKept, TasksKept DEF VTyped
<1>2. WavesLinked(wave)' /\ (active \subseteq Order)'
  BY WavesKept, ActiveKept DEF VTyped
<1>3. \A c \in Client : Gathers(reqs[c])'
  BY GathersKept
<1>4. QED
  BY <1>1, <1>2, <1>3, Zenon DEF VTyped

(* No label, wave or task yet.                                              *)
LEMMA WavesTypedFirst == ReqInit /\ ShippingInit /\ WavesInit => VTyped
<1> SUFFICES ASSUME ReqInit, ShippingInit, WavesInit PROVE VTyped
  OBVIOUS
<1>1. \A c \in Client : Gathers(reqs[c])
  BY DEF ReqInit, NoReq, Gathers
<1>2. QED
  BY <1>1 DEF VTyped, Labels, Tasks, WavesLinked, ShippingInit, WavesInit

(* Every row of shipping and of waves is well formed and names rows there   *)
(* are: packages and labels a shipment, a wave its tasks, however releases, *)
(* packers and carriers overlap.                                            *)
THEOREM WavesTypeCorrect == WavesSpec => [](ShippingTypeOK /\ WavesTypeOK)
  BY ShippingInitial, WavesTypedFirst, ShippingInductive, WavesTypesKept, WavesTyped, PTL DEF WavesSpec
=============================================================================
