------------------------------ MODULE Inbound -------------------------------
(***************************************************************************)
(* InboundService.receive against the lines of one shipment, and the status *)
(* edits of update.  receive is a transaction without a lock on shipment or *)
(* line: what it checks and the status it writes come from its first read.  *)
(***************************************************************************)
EXTENDS MoveTasks

CONSTANTS Expected,    \* expected_quantity of each line: Seq of Nat
          Dock,        \* the receiving location
          EditStatus   \* statuses an update sets

VARIABLES shipment,    \* inbound_shipments.status
          received,    \* per line: received_quantity
          got          \* history, per line: pieces put on the dock

inboundVars == <<shipment, received, got>>
Line == DOMAIN Expected
InboundStatus == {"CREATED", "RECEIVING", "RECEIVED", "EXCEPTION", "CLOSED", "CANCELLED"}

ASSUME InboundConstants ==
  Expected \in Seq(Nat) /\ Dock \in Loc /\ EditStatus \subseteq InboundStatus

InboundTypeOK == /\ shipment \in InboundStatus
                 /\ received \in [Line -> Nat] /\ got \in [Line -> Nat]
InboundInit == /\ shipment = "CREATED"
               /\ received = [i \in Line |-> 0] /\ got = [i \in Line |-> 0]

(* Variant: the line is complete as soon as anything came.                  *)
ReceiveStatusOfLine(i, next) ==
  IF next >= Expected[i] THEN "RECEIVED" ELSE "RECEIVING"

(* resolveReceiveStatus, with the other lines as they were read.            *)
ReceiveStatus(i, next) ==
  IF \A j \in Line : (IF j = i THEN next ELSE received[j]) >= Expected[j]
  THEN "RECEIVED" ELSE "RECEIVING"

Some(st, n) == IF n > 0 THEN <<Put(Dock, st, n)>> ELSE <<>>

(* good pieces go to AVAILABLE or, held by the quality check, to QUARANTINE; *)
(* damaged ones to DAMAGED.  Every deviation opens an exception.            *)
BeginInboundReceive(c) ==
  \E i \in Line, good, damaged \in Amount \cup {0}, held, over, complete \in BOOLEAN,
     k \in Key \cup {NoKey} :
    LET next  == received[i] + good + damaged
        cond  == IF held /\ good > 0 THEN "QUARANTINE" ELSE "AVAILABLE"
        wrong == next > Expected[i] \/ damaged > 0 \/ cond = "QUARANTINE"
                 \/ (complete /\ next < Expected[i])
    IN /\ shipment \notin {"CANCELLED", "CLOSED"}
       /\ good + damaged > 0
       /\ over \/ next <= Expected[i]
       /\ Begin(c, [Request("inbound", "identity", 0, 0,
                            Some(cond, good) \o Some("DAMAGED", damaged), k, i, good + damaged)
                    EXCEPT !.st = IF wrong THEN "EXCEPTION" ELSE ReceiveStatus(i, next)])
       /\ UNCHANGED <<inboundVars, move>>

(* Variant: the line is written as read, not incremented.                   *)
CommitInboundReceiveOnce(c) ==
  LET t == txn[c] IN
  /\ t.op = "inbound" /\ t.pc = "commit"
  /\ CommitStock(c, Written(c, "identity"), [j \in DOMAIN t.into |->
        Move("RECEIVE", None, t.into[j].loc, t.into[j].n, t.into[j].n)])
  /\ received' = [received EXCEPT ![t.doc] = t.saw]
  /\ got' = [got EXCEPT ![t.doc] = @ + MapThenSumSet(LAMBDA j : t.into[j].n, DOMAIN t.into)]
  /\ shipment' = t.st
  /\ UNCHANGED <<move, drift>>

(* The rest of receive: rows, a movement for each, the line, the shipment,  *)
(* and for good stock the putaway task, when one is asked for.              *)
CommitInboundReceive(c) ==
  LET t == txn[c]
      moved == [j \in DOMAIN t.into |-> Move("RECEIVE", None, t.into[j].loc, t.into[j].n, t.into[j].n)]
      rows  == Written(c, "identity")
      good  == {r \in DOMAIN rows : t.into[1].st = "AVAILABLE" /\ rows[r].st = "AVAILABLE"
                                    /\ rows[r].loc = Dock}
  IN /\ t.op = "inbound" /\ t.pc = "commit"
     /\ CommitStock(c, rows, moved)
     /\ received' = [received EXCEPT ![t.doc] = @ + t.saw]
     /\ got' = [got EXCEPT ![t.doc] = @ + MapThenSumSet(LAMBDA j : t.into[j].n, DOMAIN t.into)]
     /\ shipment' = t.st
     /\ \/ UNCHANGED move
        \/ /\ good # {} /\ Len(move) < NumMoves
           /\ \E l \in Loc \ {Dock} : move' = NewMove("putaway", Min(good), l, t.into[1].n)
     /\ UNCHANGED drift

(* update, for the status column.                                           *)
UpdateShipment(s) ==
  /\ May("inbound")
  /\ shipment' = s
  /\ ops' = OneMore
  /\ UNCHANGED <<quant, ledger, keys, applied, shipped, drift, txn, move, received, got>>

InboundStep(c) ==
  /\ BeginInboundReceive(c) \/ CommitInboundReceive(c) \/ \E s \in EditStatus : UpdateShipment(s)
  /\ UNCHANGED freeze

(* A shipment that says RECEIVED has got every expected piece.              *)
ReceivedMeansComplete ==
  shipment = "RECEIVED" => \A i \in Line : received[i] >= Expected[i]

(* Concurrent receipts of a line are all counted, as many pieces as lie on  *)
(* the dock for it.                                                         *)
ReceiptsCounted == received = got
=============================================================================
