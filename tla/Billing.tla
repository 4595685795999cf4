------------------------------ MODULE Billing -------------------------------
(***************************************************************************)
(* Billing of one client (ClientsService): events, the invoices that bill   *)
(* them and their numbers.  Every operation reads before its transaction    *)
(* and locks nothing; the unique index on billing_invoice_lines             *)
(* (billing_event_id) is what keeps an event off a second invoice.          *)
(***************************************************************************)
EXTENDS Requests

CONSTANTS BillingEvent, NumInvoices

VARIABLES bevent,    \* billing_events.status, or NONE
          invoice,   \* billing_invoices with their lines
          nextNo     \* invoice_number_sequences.next_number, 0 without a row

billingVars == <<bevent, invoice, nextNo>>
Invoice == DOMAIN invoice
BeventStatus  == {"PENDING", "BILLABLE", "INVOICED", "VOIDED"}
InvoiceStatus == {"DRAFT", "FINALIZED", "VOIDED"}

(* billed is what the lines charge for, links their billing_event_id, which *)
(* a void clears; revived, a history: finalized after it had been voided.   *)
BillingTypeOK ==
  /\ bevent \in [BillingEvent -> BeventStatus \cup {"NONE"}]
  /\ nextNo \in Nat
  /\ \A i \in Invoice :
       /\ invoice[i] \in [st : InvoiceStatus, no : Nat, billed : SUBSET BillingEvent,
                          links : SUBSET BillingEvent, revived : BOOLEAN, credited : SUBSET BillingEvent]
       /\ invoice[i].credited # {} => invoice[i].st # "DRAFT"

BillingInit == bevent = [e \in BillingEvent |-> "NONE"] /\ invoice = <<>> /\ nextNo = 0

SetEvents(S, st) == [e \in BillingEvent |-> IF e \in S THEN st ELSE bevent[e]]
Linked == UNION {invoice[i].links : i \in Invoice}

-----------------------------------------------------------------------------
(* createBillingEvent and generateStorageDayBilling write the status of an  *)
(* event that exists too; generateBillingEvents leaves it alone.            *)
UpsertEvents ==
  /\ \/ \E e \in BillingEvent, st \in BeventStatus : Once("bevent") /\ bevent' = SetEvents({e}, st)
     \/ \E S \in SUBSET BillingEvent : Once("storage") /\ bevent' = SetEvents(S, "BILLABLE")
     \/ \E S \in SUBSET BillingEvent :
          Once("generate") /\ bevent' = SetEvents({e \in S : bevent[e] = "NONE"}, "PENDING")
  /\ UNCHANGED <<invoice, nextNo>>

BeginVoidEvent(c) ==
  /\ \E e \in BillingEvent : /\ bevent[e] \notin {"NONE", "INVOICED"}
                             /\ Begin(c, [op |-> "voidEvent", pc |-> "commit", event |-> e])
  /\ UNCHANGED billingVars

VoidEvent(c) ==
  /\ At(c, "voidEvent", "commit")
  /\ bevent' = SetEvents({reqs[c].event}, "VOIDED")
  /\ Finish(c)
  /\ UNCHANGED <<invoice, nextNo>>

-----------------------------------------------------------------------------
(* createBillingInvoice: the period and the statuses asked for select       *)
(* events without a line.                                                   *)
BeginInvoice(c) ==
  /\ \E S \in SUBSET (BillingEvent \ Linked), final \in BOOLEAN :
       /\ S # {} /\ \A e \in S : bevent[e] # "NONE"
       /\ Begin(c, [op |-> "invoice", pc |-> "number", events |-> S, final |-> final])
  /\ UNCHANGED billingVars

(* allocateInvoiceNumber reads the sequence; a number that was asked for    *)
(* (not 0) is taken instead and leaves the sequence alone.                  *)
ReadSequence(c) ==
  /\ At(c, "invoice", "number")
  /\ \E asked \in 0..NumInvoices :
       Advance(c, [op |-> "invoice", pc |-> "commit", events |-> reqs[c].events,
                   final |-> reqs[c].final, asked |-> asked, saw |-> nextNo])
  /\ UNCHANGED billingVars

Number(r) == IF r.asked # 0 THEN r.asked ELSE IF r.saw = 0 THEN 1 ELSE r.saw

(* The unique indexes: of the lines, the sequence and the numbers.          *)
(* (Variant: an event may have several lines.)                              *)
LineFreeAlways(S) == TRUE
LineFree(S)       == S \cap Linked = {}
NumberFree(n)     == \A i \in Invoice : invoice[i].no # n

NewInvoice(r, n) == [st |-> IF r.final THEN "FINALIZED" ELSE "DRAFT", no |-> n, billed |-> r.events,
                     links |-> r.events, revived |-> FALSE, credited |-> {}]

InsertInvoice(c) ==
  LET r == reqs[c] IN
  /\ At(c, "invoice", "commit") /\ Len(invoice) < NumInvoices
  /\ LineFree(r.events) /\ NumberFree(Number(r))
  /\ \/ r.asked # 0 /\ UNCHANGED nextNo
     \/ r.asked = 0 /\ r.saw = 0 /\ nextNo = 0 /\ nextNo' = 2
     \/ r.asked = 0 /\ r.saw # 0 /\ nextNo' = nextNo + 1
  /\ invoice' = Append(invoice, NewInvoice(r, Number(r)))
  /\ bevent' = IF r.final THEN SetEvents(r.events, "INVOICED") ELSE bevent
  /\ Finish(c)

-----------------------------------------------------------------------------
(* finalizeBillingInvoice and voidBillingInvoice write by id.               *)
BeginFinalize(c) ==
  /\ \E i \in Invoice : /\ invoice[i].st = "DRAFT"
                        /\ Begin(c, [op |-> "invoiceFinal", pc |-> "commit", invoice |-> i,
                                     events |-> invoice[i].links])
  /\ UNCHANGED billingVars

Finalize(c) ==
  LET r == reqs[c] IN
  /\ At(c, "invoiceFinal", "commit")
  /\ invoice' = [invoice EXCEPT ![r.invoice].st = "FINALIZED",
                                ![r.invoice].revived = @ \/ invoice[r.invoice].st = "VOIDED"]
  /\ bevent' = SetEvents(r.events, "INVOICED")
  /\ Finish(c)
  /\ UNCHANGED nextNo

BeginVoidInvoice(c) ==
  /\ \E i \in Invoice : /\ invoice[i].st # "VOIDED"
                        /\ Begin(c, [op |-> "invoiceVoid", pc |-> "commit", invoice |-> i,
                                     events |-> invoice[i].links])
  /\ UNCHANGED billingVars

VoidInvoice(c) ==
  LET r == reqs[c] IN
  /\ At(c, "invoiceVoid", "commit")
  /\ invoice' = [invoice EXCEPT ![r.invoice].st = "VOIDED", ![r.invoice].links = @ \ r.events]
  /\ bevent' = SetEvents({e \in r.events : bevent[e] = "INVOICED"}, "BILLABLE")
  /\ Finish(c)
  /\ UNCHANGED nextNo

(* createBillingCreditNote: nothing compares it with earlier ones.          *)
BeginCredit(c) ==
  /\ \E i \in Invoice, S \in SUBSET BillingEvent :
       /\ invoice[i].st = "FINALIZED" /\ S # {} /\ S \subseteq invoice[i].billed
       /\ Begin(c, [op |-> "creditNote", pc |-> "commit", invoice |-> i, events |-> S])
  /\ UNCHANGED billingVars

CreateCreditNote(c) ==
  /\ At(c, "creditNote", "commit")
  /\ invoice' = [invoice EXCEPT ![reqs[c].invoice].credited = @ \cup reqs[c].events]
  /\ Finish(c)
  /\ UNCHANGED <<bevent, nextNo>>

BillingStep ==
  \/ UpsertEvents
  \/ \E c \in Client : \/ BeginVoidEvent(c) \/ VoidEvent(c) \/ BeginInvoice(c) \/ ReadSequence(c)
                       \/ InsertInvoice(c) \/ BeginFinalize(c) \/ Finalize(c) \/ BeginVoidInvoice(c)
                       \/ VoidInvoice(c) \/ BeginCredit(c) \/ CreateCreditNote(c)

BillingNext == BillingStep \/ \E c \in Client : Abort(c) /\ UNCHANGED billingVars
BillingSpec == ReqInit /\ BillingInit /\ [][BillingNext]_<<reqVars, billingVars>>

-----------------------------------------------------------------------------
(* An event is charged on one final invoice only, unless a finalization     *)
(* that was under way brought a voided invoice back.                        *)
BilledOnce ==
  \A i, j \in Invoice :
    /\ i # j /\ invoice[i].st = "FINALIZED" /\ invoice[j].st = "FINALIZED"
    /\ ~invoice[i].revived /\ ~invoice[j].revived
    => invoice[i].billed \cap invoice[j].billed = {}
=============================================================================
