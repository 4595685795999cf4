------------------------------- MODULE Outbox -------------------------------
(***************************************************************************)
(* The outbox dispatcher: OutboxService (append, dispatchPending, markSent, *)
(* requeueDeadLetter) together with the endpoint loop of                    *)
(* IntegrationDispatchService.dispatchOutboxEvent that it calls.            *)
(*                                                                          *)
(* Rows of outbox_events are numbered in creation order and endpoints in    *)
(* the order of their code, which are the orders the queries use.           *)
(* available_at is abstracted to due[e] ("available_at <= now"): only that  *)
(* comparison is ever made.  Every statement outside $transaction is its    *)
(* own transaction, so each read and each update below is a step.           *)
(***************************************************************************)
EXTENDS Naturals, FiniteSets

CONSTANTS
  Worker,             \* queue worker processes running dispatchPending
  Admin,              \* concurrent API calls: markSent, requeueDeadLetter, replayDeadLetter
  NumEvents,          \* bound: outbox rows ever appended
  NumEndpoints,       \* active integration endpoints that accept the event
  MaxAttempts,        \* input.maxAttempts (default 5)
  Take,               \* input.take (default 50): size of one claimed batch
  MaxFaults,          \* bound: worker crashes and failed status updates
  MaxRequeues,        \* bound: requeueDeadLetter and replayDeadLetter calls
  LeaseOverrun        \* may a batch outlive the 5 minute processing lease?

ASSUME OutboxConstants ==
  /\ NumEvents \in Nat /\ NumEndpoints \in Nat
  /\ MaxAttempts \in Nat \ {0} /\ Take \in Nat \ {0}
  /\ MaxFaults \in Nat /\ MaxRequeues \in Nat
  /\ LeaseOverrun \in BOOLEAN

Event    == 1..NumEvents
Endpoint == 1..NumEndpoints
Status   == {"NONE", "PENDING", "PROCESSING", "SENT", "DEAD_LETTER"}

VARIABLES
  status,     \* outbox_events.status; "NONE" is a row not yet appended
  due,        \* available_at <= now
  attempts,   \* outbox_events.attempts
  sentAt,     \* is outbox_events.sent_at set?
  batch,      \* per worker: claimed rows still to process, with the attempts read
  current,    \* per worker: the claimed row it is delivering, or NoClaim
  pos,        \* per worker: the endpoint the current row is sent to next
  failing,    \* per worker: has an endpoint refused the current row?
  accepted,   \* history: the endpoints that took the event
  manual,     \* history: rows an API call marked as sent
  letter,     \* events with a row in integration_dead_letters
  request,    \* per API call: what it read before its update
  faults, requeues

vars == <<status, due, attempts, sentAt, batch, current, pos, failing,
          accepted, manual, letter, request, faults, requeues>>
rows == <<status, due, attempts, sentAt>>

Claim   == [event : Event, attempts : Nat]
NoClaim == [event |-> 0, attempts |-> 0]
Idle    == [kind |-> "idle", event |-> 0, attempts |-> 0]
Request == {Idle} \cup
           [kind : {"markSent", "requeue"}, event : Event, attempts : Nat]

TypeOK ==
  /\ status \in [Event -> Status]
  /\ due \in [Event -> BOOLEAN]
  /\ attempts \in [Event -> Nat]
  /\ sentAt \in [Event -> BOOLEAN]
  /\ batch \in [Worker -> SUBSET Claim]
  /\ current \in [Worker -> Claim \cup {NoClaim}]
  /\ pos \in [Worker -> Nat \ {0}]
  /\ failing \in [Worker -> BOOLEAN]
  /\ accepted \in [Event -> SUBSET Endpoint]
  /\ manual \in SUBSET Event
  /\ letter \in SUBSET Event
  /\ request \in [Admin -> Request]
  /\ faults \in Nat
  /\ requeues \in Nat

Init ==
  /\ status = [e \in Event |-> "NONE"]
  /\ due = [e \in Event |-> FALSE]
  /\ attempts = [e \in Event |-> 0]
  /\ sentAt = [e \in Event |-> FALSE]
  /\ batch = [w \in Worker |-> {}]
  /\ current = [w \in Worker |-> NoClaim]
  /\ pos = [w \in Worker |-> 1]
  /\ failing = [w \in Worker |-> FALSE]
  /\ accepted = [e \in Event |-> {}]
  /\ manual = {}
  /\ letter = {}
  /\ request = [a \in Admin |-> Idle]
  /\ faults = 0
  /\ requeues = 0

-----------------------------------------------------------------------------
(* A business operation appends an event; created_at orders the rows.       *)
AppendEvent(e) ==
  /\ status[e] = "NONE"
  /\ \A d \in Event : d < e => status[d] # "NONE"
  /\ status' = [status EXCEPT ![e] = "PENDING"]
  /\ due' = [due EXCEPT ![e] = TRUE]
  /\ UNCHANGED <<attempts, sentAt, batch, current, pos, failing, accepted, manual, letter,
                 request, faults, requeues>>

Holds(w, e) == \E c \in batch[w] \cup {current[w]} : c.event = e

(* Time passes: a retry delay ends, or a processing lease runs out.  Without *)
(* LeaseOverrun a lease runs out only when no live worker holds the row.     *)
BecomeDue(e) ==
  /\ status[e] \in {"PENDING", "PROCESSING"}
  /\ ~due[e]
  /\ status[e] = "PROCESSING" /\ ~LeaseOverrun => \A w \in Worker : ~Holds(w, e)
  /\ due' = [due EXCEPT ![e] = TRUE]
  /\ UNCHANGED <<status, attempts, sentAt, batch, current, pos, failing, accepted,
                 manual, letter, request, faults, requeues>>

(* Variants used only to show that the properties can fail.                  *)
ClaimableWithoutLease == {e \in Event : status[e] \in {"PENDING", "PROCESSING"}}
ClaimableOnlyPending  == {e \in Event : status[e] = "PENDING" /\ due[e]}

Claimable == {e \in Event : status[e] \in {"PENDING", "PROCESSING"} /\ due[e]}

(* The first Take claimable rows in creation order, as claimPendingEvents    *)
(* selects them (LIMIT, FOR UPDATE SKIP LOCKED).                             *)
Claimed == {e \in Claimable :
              Cardinality({d \in Claimable : d < e}) < Take}

ClaimPendingEvents(w) ==
  /\ batch[w] = {} /\ current[w] = NoClaim
  /\ Claimable # {}
  /\ status' = [e \in Event |-> IF e \in Claimed THEN "PROCESSING" ELSE status[e]]
  /\ due' = [e \in Event |-> due[e] /\ e \notin Claimed]
  /\ batch' = [batch EXCEPT ![w] =
                 {[event |-> e, attempts |-> attempts[e]] : e \in Claimed}]
  /\ UNCHANGED <<attempts, sentAt, current, pos, failing, accepted, manual, letter,
                 request, faults, requeues>>

(* The loop over the claimed rows takes the next one.  UPDATE ... RETURNING  *)
(* promises no order, so it is any of them.                                  *)
NextEvent(w) ==
  /\ current[w] = NoClaim
  /\ \E c \in batch[w] : /\ current' = [current EXCEPT ![w] = c]
                         /\ batch' = [batch EXCEPT ![w] = @ \ {c}]
  /\ pos' = [pos EXCEPT ![w] = 1]
  /\ failing' = [failing EXCEPT ![w] = FALSE]
  /\ UNCHANGED <<rows, accepted, manual, letter, request, faults, requeues>>

(* INSERT ... ON CONFLICT (fingerprint) DO UPDATE: there is one from now on. *)
RecordDeadLetter(e) == letter' = letter \cup {e}

(* One iteration of the endpoint loop: the call is accepted or not, and an   *)
(* accepted call may still be reported as an error (a timeout, or the write  *)
(* of the dispatch log failing afterwards).  An error leaves a dead letter   *)
(* of its own; when that cannot be written either, the loop ends.            *)
DispatchToEndpoint(w) ==
  /\ current[w] # NoClaim
  /\ pos[w] <= NumEndpoints
  /\ \E took, ok, written \in BOOLEAN :
       /\ ok => took /\ written
       /\ accepted' = IF took
                      THEN [accepted EXCEPT ![current[w].event] = @ \cup {pos[w]}]
                      ELSE accepted
       /\ failing' = [failing EXCEPT ![w] = @ \/ ~ok]
       /\ IF written /\ ~ok THEN RecordDeadLetter(current[w].event) ELSE UNCHANGED letter
       /\ pos' = [pos EXCEPT ![w] = IF written THEN @ + 1 ELSE NumEndpoints + 1]
  /\ UNCHANGED <<rows, batch, current, manual, request, faults, requeues>>

(* Variant: the endpoint errors are collected but not thrown.                *)
UpdateSentDespiteErrors(w) ==
  /\ current[w] # NoClaim
  /\ pos[w] = NumEndpoints + 1
  /\ LET e == current[w].event IN
       /\ status' = [status EXCEPT ![e] = "SENT"]
       /\ sentAt' = [sentAt EXCEPT ![e] = TRUE]
       /\ attempts' = [attempts EXCEPT ![e] = @ + 1]
  /\ current' = [current EXCEPT ![w] = NoClaim]
  /\ UNCHANGED <<due, batch, pos, failing, accepted, manual, letter, request, faults, requeues>>

(* The update after a successful delivery, by id only.                       *)
UpdateSent(w) ==
  /\ current[w] # NoClaim
  /\ pos[w] = NumEndpoints + 1
  /\ ~failing[w]
  /\ LET e == current[w].event IN
       /\ status' = [status EXCEPT ![e] = "SENT"]
       /\ sentAt' = [sentAt EXCEPT ![e] = TRUE]
       /\ attempts' = [attempts EXCEPT ![e] = @ + 1]
  /\ current' = [current EXCEPT ![w] = NoClaim]
  /\ UNCHANGED <<due, batch, pos, failing, accepted, manual, letter, request, faults, requeues>>

(* Variant: one attempt too few.                                            *)
ExhaustedEarly(c) == c.attempts + 2 >= MaxAttempts

(* getNextRetryDecision, from the attempts read when the row was claimed.    *)
Exhausted(c) == c.attempts + 1 >= MaxAttempts

(* The catch block: an endpoint refused, or (as a fault) UpdateSent threw.   *)
UpdateFailed(w) ==
  /\ current[w] # NoClaim
  /\ pos[w] = NumEndpoints + 1
  /\ \/ failing[w] /\ faults' = faults
     \/ ~failing[w] /\ faults < MaxFaults /\ faults' = faults + 1
  /\ LET c == current[w] IN
       /\ status' = [status EXCEPT ![c.event] =
                       IF Exhausted(c) THEN "DEAD_LETTER" ELSE "PENDING"]
       /\ due' = [due EXCEPT ![c.event] = Exhausted(c)]
       /\ attempts' = [attempts EXCEPT ![c.event] = @ + 1]
  /\ current' = [current EXCEPT ![w] = NoClaim]
  /\ UNCHANGED <<sentAt, batch, pos, failing, accepted, manual, letter, request, requeues>>

(* The worker process dies, or the update in the catch block throws and      *)
(* leaves dispatchPending: the rest of the batch stays PROCESSING.           *)
LoseBatch(w) ==
  /\ batch[w] # {} \/ current[w] # NoClaim
  /\ faults < MaxFaults
  /\ faults' = faults + 1
  /\ batch' = [batch EXCEPT ![w] = {}]
  /\ current' = [current EXCEPT ![w] = NoClaim]
  /\ UNCHANGED <<rows, pos, failing, accepted, manual, letter, request, requeues>>

-----------------------------------------------------------------------------
(* getOutboxDeliveryStatus: sent_at wins over the status column.             *)
DeliveryStatus(e) == IF sentAt[e] THEN "SENT" ELSE status[e]

MarkSentRead(a, e) ==
  /\ request[a] = Idle
  /\ DeliveryStatus(e) \in {"PENDING", "PROCESSING"}
  /\ request' = [request EXCEPT ![a] =
                   [kind |-> "markSent", event |-> e, attempts |-> attempts[e]]]
  /\ UNCHANGED <<rows, batch, current, pos, failing, accepted, manual, letter, faults, requeues>>

MarkSentWrite(a) ==
  /\ request[a].kind = "markSent"
  /\ LET e == request[a].event IN
       /\ status' = [status EXCEPT ![e] = "SENT"]
       /\ sentAt' = [sentAt EXCEPT ![e] = TRUE]
       /\ manual' = manual \cup {e}
  /\ request' = [request EXCEPT ![a] = Idle]
  /\ UNCHANGED <<due, attempts, batch, current, pos, failing, accepted, letter, faults, requeues>>

RequeueRead(a, e) ==
  /\ request[a] = Idle
  /\ requeues < MaxRequeues
  /\ requeues' = requeues + 1
  /\ DeliveryStatus(e) = "DEAD_LETTER"
  /\ \E keep \in BOOLEAN :
       request' = [request EXCEPT ![a] =
                     [kind |-> "requeue", event |-> e,
                      attempts |-> IF keep THEN attempts[e] ELSE 0]]
  /\ UNCHANGED <<rows, batch, current, pos, failing, accepted, manual, letter, faults>>

RequeueWrite(a) ==
  /\ request[a].kind = "requeue"
  /\ LET e == request[a].event IN
       /\ status' = [status EXCEPT ![e] = "PENDING"]
       /\ \E now \in BOOLEAN : due' = [due EXCEPT ![e] = now]
       /\ sentAt' = [sentAt EXCEPT ![e] = FALSE]
       /\ attempts' = [attempts EXCEPT ![e] = request[a].attempts]
  /\ request' = [request EXCEPT ![a] = Idle]
  /\ UNCHANGED <<batch, current, pos, failing, accepted, manual, letter, faults, requeues>>

(* replayDeadLetter of IntegrationEnterpriseService updates the row of the   *)
(* dead letter's event, whatever became of it; sent_at stays.                *)
ReplayDeadLetter(a, e) ==
  /\ request[a] = Idle
  /\ requeues < MaxRequeues
  /\ requeues' = requeues + 1
  /\ e \in letter
  /\ status' = [status EXCEPT ![e] = "PENDING"]
  /\ due' = [due EXCEPT ![e] = TRUE]
  /\ attempts' = [attempts EXCEPT ![e] = 0]
  /\ UNCHANGED <<sentAt, batch, current, pos, failing, accepted, manual, letter, request,
                 faults>>

-----------------------------------------------------------------------------
WorkerStep(w) == \/ ClaimPendingEvents(w)
                 \/ NextEvent(w)
                 \/ DispatchToEndpoint(w)
                 \/ UpdateSent(w)
                 \/ UpdateFailed(w)

AdminStep(a) == \/ \E e \in Event : MarkSentRead(a, e) \/ RequeueRead(a, e) \/ ReplayDeadLetter(a, e)
                \/ MarkSentWrite(a)
                \/ RequeueWrite(a)

Next == \/ \E e \in Event : AppendEvent(e) \/ BecomeDue(e)
        \/ \E w \in Worker : WorkerStep(w) \/ LoseBatch(w)
        \/ \E a \in Admin : AdminStep(a)

Spec == Init /\ [][Next]_vars

(* runLoop polls for ever, a started batch runs on, and time passes.         *)
Fairness == /\ \A w \in Worker : WF_vars(WorkerStep(w))
            /\ \A e \in Event : WF_vars(BecomeDue(e))
            /\ \A a \in Admin : WF_vars(MarkSentWrite(a) \/ RequeueWrite(a))
FairSpec == Spec /\ Fairness

-----------------------------------------------------------------------------
(* A row is SENT only when every active endpoint took the event, or an API   *)
(* call marked it by hand (dispatchPending marks after deliverEvent, which   *)
(* throws when any endpoint failed).                                         *)
SentWasAccepted ==
  \A e \in Event : status[e] = "SENT" => accepted[e] = Endpoint \/ e \in manual

(* While the lease outlives the batch, two workers never process the same    *)
(* row at once (claim, lease and SKIP LOCKED together).                      *)
OneHolder ==
  \A v, w \in Worker, e \in Event : Holds(v, e) /\ Holds(w, e) => v = w

(* A row that was sent is never processed again.                             *)
SentIsFinal == [][\A e \in Event : status[e] = "SENT" => status'[e] = "SENT"]_vars

(* A row becomes a dead letter only with its attempts used up.               *)
DeadLetterUsedAttempts ==
  \A e \in Event : status[e] = "DEAD_LETTER" => attempts[e] >= MaxAttempts

(* Every appended event is settled in the end, whatever the endpoints do and *)
(* however many workers crash (finitely often) in mid-batch.                 *)
EventuallySettled ==
  \A e \in Event : status[e] \in {"PENDING", "PROCESSING"} ~>
                   status[e] \in {"SENT", "DEAD_LETTER"}
=============================================================================
