------------------------------ MODULE Returns -------------------------------
(***************************************************************************)
(* ReturnsService: one return order and its lines.  There is no transaction: *)
(* each statement is a step of its own, quantities are written as absolute  *)
(* values computed from the first read, and a request may die in between.   *)
(***************************************************************************)
EXTENDS Requests

CONSTANTS Expected   \* expected_quantity of each line

ASSUME ReturnConstants == Expected \in Seq(Nat)

VARIABLES rma,       \* return_orders.status
          rline,     \* return_order_lines
          restock    \* per line: pieces added to stock, pieces of movements
                     \* posted, and the idempotency keys used

returnVars == <<rma, rline, restock>>
RLine == DOMAIN Expected
RmaStatus   == {"CREATED", "RECEIVING", "INSPECTION", "CLOSED"}
RLineStatus == {"OPEN", "PARTIALLY_RECEIVED", "RECEIVED", "PARTIALLY_INSPECTED", "CLOSED"}
StockStatus == {"AVAILABLE", "DAMAGED", "none"}   \* RESTOCK, DAMAGED, SCRAP

ReturnsTypeOK ==
  /\ rma \in RmaStatus
  /\ rline \in [RLine -> [rec : Nat, ins : Nat, disp : BOOLEAN, st : RLineStatus]]
  /\ \A i \in RLine : restock[i].posted <= restock[i].stock

(* createReturn: the header, then the lines; a death in between leaves an   *)
(* order with fewer lines, which behaves like this one.                     *)
ReturnsInit ==
  /\ rma = "CREATED"
  /\ rline = [i \in RLine |-> [rec |-> 0, ins |-> 0, disp |-> FALSE, st |-> "OPEN"]]
  /\ restock = [i \in RLine |-> [stock |-> 0, posted |-> 0, keys |-> {}]]

NextLineStatus(i, rec, ins, disp) ==
  IF disp /\ ins >= Expected[i] THEN "CLOSED"
  ELSE IF ins > 0               THEN "PARTIALLY_INSPECTED"
  ELSE IF rec >= Expected[i]    THEN "RECEIVED"
  ELSE IF rec > 0               THEN "PARTIALLY_RECEIVED"
  ELSE                               "OPEN"

NextOrderStatus == LET S == {rline[i].st : i \in RLine} IN
  IF S \subseteq {"CLOSED"}                                THEN "CLOSED"
  ELSE IF S \cap {"PARTIALLY_INSPECTED", "CLOSED"} # {}    THEN "INSPECTION"
  ELSE IF S # {"OPEN"}                                     THEN "RECEIVING"
  ELSE                                                          "CREATED"

-----------------------------------------------------------------------------
(* receiveLine.  (Variant: what is left is not compared with what came.)    *)
BeginReceiveUnchecked(c, i) ==
  \E n \in 1..Expected[i] :
    /\ Begin(c, [op |-> "receive", pc |-> "line", line |-> i, rec |-> rline[i].rec + n,
                 st |-> NextLineStatus(i, rline[i].rec + n, rline[i].ins, rline[i].disp)])
    /\ UNCHANGED returnVars

BeginReceive(c, i) ==
  \E n \in 1..Expected[i] :
    /\ rline[i].rec + n <= Expected[i]
    /\ Begin(c, [op |-> "receive", pc |-> "line", line |-> i, rec |-> rline[i].rec + n,
                 st |-> NextLineStatus(i, rline[i].rec + n, rline[i].ins, rline[i].disp)])
    /\ UNCHANGED returnVars

Refreshing == [op |-> "refreshReturn", pc |-> "read"]

WriteReceived(c) ==
  LET r == reqs[c] IN
  /\ At(c, "receive", "line")
  /\ rline' = [rline EXCEPT ![r.line].rec = r.rec, ![r.line].st = r.st]
  /\ Advance(c, Refreshing)
  /\ UNCHANGED <<rma, restock>>

(* inspectLine: a pieces of n accepted into stock of status s.              *)
BeginInspect(c, i) ==
  \E n \in 1..Expected[i], s \in StockStatus : \E a \in 0..n :
    /\ rline[i].rec > 0 /\ n <= rline[i].rec - rline[i].ins
    /\ Begin(c, [op |-> "inspect", pc |-> IF s # "none" /\ a > 0 THEN "stock" ELSE "line",
                 line |-> i, n |-> a, key |-> <<s, a>>, ins |-> rline[i].ins + n])
    /\ UNCHANGED returnVars

(* createOrUpdateReturnedStock: the quant, then a movement under a key made *)
(* of line, status and quantity, which a second inspection may share.       *)
(* (Variant: a quant is only updated if there is one.)                      *)
AddStockToNone(c) ==
  LET r == reqs[c] IN
  /\ At(c, "inspect", "stock")
  /\ Advance(c, [r EXCEPT !.pc = "movement"])
  /\ UNCHANGED returnVars

AddStock(c) ==
  LET r == reqs[c] IN
  /\ At(c, "inspect", "stock")
  /\ restock' = [restock EXCEPT ![r.line].stock = @ + r.n]
  /\ Advance(c, [r EXCEPT !.pc = "movement"])
  /\ UNCHANGED <<rma, rline>>

PostMovement(c) ==
  LET r == reqs[c] IN
  /\ At(c, "inspect", "movement")
  /\ restock' = IF r.key \in restock[r.line].keys THEN restock
                ELSE [restock EXCEPT ![r.line].posted = @ + r.n, ![r.line].keys = @ \cup {r.key}]
  /\ Advance(c, [r EXCEPT !.pc = "line"])
  /\ UNCHANGED <<rma, rline>>

(* The inspection row and the line, which every disposition closes.         *)
WriteInspected(c) ==
  LET r == reqs[c] IN
  /\ At(c, "inspect", "line")
  /\ rline' = [rline EXCEPT ![r.line].ins = r.ins, ![r.line].disp = TRUE, ![r.line].st = "CLOSED"]
  /\ Advance(c, Refreshing)
  /\ UNCHANGED <<rma, restock>>

(* refreshReturnOrderStatus.                                                *)
ReadLines(c) ==
  /\ At(c, "refreshReturn", "read")
  /\ Advance(c, [op |-> "refreshReturn", pc |-> "write", st |-> NextOrderStatus])
  /\ UNCHANGED returnVars

WriteOrderStatus(c) ==
  /\ At(c, "refreshReturn", "write")
  /\ rma' = reqs[c].st
  /\ Finish(c)
  /\ UNCHANGED <<rline, restock>>

ReturnsStep ==
  \/ \E c \in Client, i \in RLine : BeginReceive(c, i) \/ BeginInspect(c, i)
  \/ \E c \in Client : \/ WriteReceived(c) \/ AddStock(c) \/ PostMovement(c)
                       \/ WriteInspected(c) \/ ReadLines(c) \/ WriteOrderStatus(c)

ReturnsNext == ReturnsStep \/ \E c \in Client : Abort(c) /\ UNCHANGED returnVars
ReturnsSpec == ReqInit /\ ReturnsInit /\ [][ReturnsNext]_<<reqVars, returnVars>>

-----------------------------------------------------------------------------
(* Whatever updates get lost, no line says that more was received or        *)
(* inspected than the return announced.                                     *)
ReturnWithinExpected ==
  \A i \in RLine : rline[i].rec <= Expected[i] /\ rline[i].ins <= Expected[i]
=============================================================================
