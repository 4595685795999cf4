---------------------------- MODULE OutboxProofs ----------------------------
(* Safety of the outbox dispatcher for any number of workers, rows,         *)
(* endpoints and API calls.                                                 *)
EXTENDS Outbox, TLAPS

(* Every column, batch and pending request keeps its type in every step.    *)
THEOREM OutboxTypeCorrect == Spec => []TypeOK
<1> USE OutboxConstants
<1>1. Init => TypeOK
  BY DEF Init, TypeOK, Status, Request
<1>2. TypeOK /\ [Next]_vars => TypeOK'
  <2> SUFFICES ASSUME TypeOK, [Next]_vars PROVE TypeOK'
    OBVIOUS
  <2>1. ASSUME NEW e \in Event, AppendEvent(e) PROVE TypeOK'
    BY <2>1 DEF AppendEvent, TypeOK, Status
  <2>2. ASSUME NEW e \in Event, BecomeDue(e) PROVE TypeOK'
    BY <2>2 DEF BecomeDue, TypeOK
  <2>3. ASSUME NEW w \in Worker, ClaimPendingEvents(w) PROVE TypeOK'
    <3> DEFINE C == {[event |-> e, attempts |-> attempts[e]] : e \in Claimed}
    <3>1. \A e \in Claimed : e \in Event /\ attempts[e] \in Nat
      BY DEF Claimed, Claimable, TypeOK
    <3>2. C \subseteq Claim
      BY <3>1 DEF Claim
    <3> HIDE DEF C
    <3>3. batch' = [batch EXCEPT ![w] = C]
      BY <2>3 DEF ClaimPendingEvents, C
    <3>4. batch' \in [Worker -> SUBSET Claim]
      BY <3>2, <3>3 DEF TypeOK
    <3>5. QED
      BY <2>3, <3>4 DEF ClaimPendingEvents, TypeOK, Status
  <2>4. ASSUME NEW w \in Worker, NextEvent(w) PROVE TypeOK'
    BY <2>4 DEF NextEvent, rows, TypeOK
  <2>5. ASSUME NEW w \in Worker, DispatchToEndpoint(w) PROVE TypeOK'
    <3>1. PICK p \in {pos[w] + 1, NumEndpoints + 1} : pos' = [pos EXCEPT ![w] = p]
      BY <2>5 DEF DispatchToEndpoint
    <3>2. pos' \in [Worker -> Nat \ {0}]
      BY <3>1 DEF TypeOK
    <3>a. letter' \in SUBSET Event
      BY <2>5 DEF DispatchToEndpoint, RecordDeadLetter, TypeOK, Claim
    <3>3. failing' \in [Worker -> BOOLEAN]
      BY <2>5 DEF DispatchToEndpoint, TypeOK
    <3>4. accepted' \in [Event -> SUBSET Endpoint]
      <4>1. pos[w] \in Endpoint
        BY <2>5 DEF DispatchToEndpoint, Endpoint, TypeOK
      <4>2. \/ accepted' = accepted
            \/ accepted' = [accepted EXCEPT ![current[w].event] = @ \cup {pos[w]}]
        BY <2>5 DEF DispatchToEndpoint
      <4>3. QED
        BY <4>1, <4>2 DEF TypeOK
    <3>5. QED
      BY <2>5, <3>2, <3>3, <3>4, <3>a DEF DispatchToEndpoint, rows, TypeOK
  <2>6. ASSUME NEW w \in Worker, UpdateSent(w) PROVE TypeOK'
    BY <2>6 DEF UpdateSent, TypeOK, Claim, Status
  <2>7. ASSUME NEW w \in Worker, UpdateFailed(w) PROVE TypeOK'
    BY <2>7 DEF UpdateFailed, Exhausted, TypeOK, Claim, Status
  <2>8. ASSUME NEW w \in Worker, LoseBatch(w) PROVE TypeOK'
    BY <2>8 DEF LoseBatch, rows, TypeOK
  <2>9. ASSUME NEW a \in Admin, NEW e \in Event, MarkSentRead(a, e) PROVE TypeOK'
    BY <2>9 DEF MarkSentRead, rows, TypeOK, Request
  <2>10. ASSUME NEW a \in Admin, MarkSentWrite(a) PROVE TypeOK'
    BY <2>10 DEF MarkSentWrite, TypeOK, Request, Idle, Status
  <2>11. ASSUME NEW a \in Admin, NEW e \in Event, RequeueRead(a, e) PROVE TypeOK'
    BY <2>11 DEF RequeueRead, rows, TypeOK, Request
  <2>12. ASSUME NEW a \in Admin, RequeueWrite(a) PROVE TypeOK'
    BY <2>12 DEF RequeueWrite, TypeOK, Request, Idle, Status
  <2>13. ASSUME NEW a \in Admin, NEW e \in Event, ReplayDeadLetter(a, e) PROVE TypeOK'
    BY <2>13 DEF ReplayDeadLetter, TypeOK, Status
  <2>14. CASE UNCHANGED vars
    BY <2>14 DEF vars, TypeOK
  <2> QED
    BY <2>1, <2>2, <2>3, <2>4, <2>5, <2>6, <2>7, <2>8, <2>9, <2>10, <2>11,
       <2>12, <2>13, <2>14 DEF Next, WorkerStep, AdminStep
<1>3. QED
  BY <1>1, <1>2, PTL DEF Spec

-----------------------------------------------------------------------------
(* What a worker has learnt so far: the endpoints it has passed without a    *)
(* refusal have all accepted its current row.                                *)
PassedEndpoints ==
  \A w \in Worker : current[w] # NoClaim /\ ~failing[w] =>
    \A p \in Endpoint : p < pos[w] => p \in accepted[current[w].event]

(* A row reaches SENT only after every active endpoint took it, unless an    *)
(* API call marked it: no crash, lease expiry, late worker or stale requeue  *)
(* can mark an undelivered event as sent.                                    *)
THEOREM SentOnlyAfterDelivery == Spec => []SentWasAccepted
<1> DEFINE IInv == TypeOK /\ PassedEndpoints /\ SentWasAccepted
<1> USE OutboxConstants DEF PassedEndpoints, SentWasAccepted
<1>1. Init => IInv
  <2>1. Init => TypeOK
    BY DEF Init, TypeOK, Status, Request
  <2>2. QED
    BY <2>1 DEF Init
<1>2. IInv /\ TypeOK' /\ [Next]_vars => IInv'
  <2> SUFFICES ASSUME IInv, TypeOK', [Next]_vars
               PROVE  PassedEndpoints' /\ SentWasAccepted'
    OBVIOUS
  <2> USE DEF rows
  <2>1. ASSUME NEW e \in Event, AppendEvent(e) \/ BecomeDue(e)
        PROVE  PassedEndpoints' /\ SentWasAccepted'
    BY <2>1 DEF AppendEvent, BecomeDue, TypeOK
  <2>2. ASSUME NEW w \in Worker, ClaimPendingEvents(w)
        PROVE  PassedEndpoints' /\ SentWasAccepted'
    BY <2>2 DEF ClaimPendingEvents, TypeOK
  <2>3. ASSUME NEW w \in Worker, NextEvent(w)
        PROVE  PassedEndpoints' /\ SentWasAccepted'
    BY <2>3 DEF NextEvent, TypeOK, Endpoint
  <2>4. ASSUME NEW w \in Worker, DispatchToEndpoint(w)
        PROVE  PassedEndpoints' /\ SentWasAccepted'
    <3> DEFINE e == current[w].event
    <3>1. e \in Event /\ pos[w] \in Endpoint
      BY <2>4 DEF DispatchToEndpoint, TypeOK, Claim, Endpoint
    <3>2. UNCHANGED <<rows, current, manual>>
      BY <2>4 DEF DispatchToEndpoint
    <3>3. PICK took \in BOOLEAN, ok \in BOOLEAN, written \in BOOLEAN :
             /\ ok => took /\ written
             /\ accepted' = IF took THEN [accepted EXCEPT ![e] = @ \cup {pos[w]}]
                            ELSE accepted
             /\ failing' = [failing EXCEPT ![w] = @ \/ ~ok]
             /\ pos' = [pos EXCEPT ![w] = IF written THEN @ + 1 ELSE NumEndpoints + 1]
      BY <2>4 DEF DispatchToEndpoint
    <3>4. \A d \in Event : accepted[d] \subseteq accepted'[d]
      <4> SUFFICES ASSUME NEW d \in Event PROVE accepted[d] \subseteq accepted'[d]
        OBVIOUS
      <4>1. DOMAIN accepted = Event
        BY DEF TypeOK
      <4>2. CASE took
        <5>1. accepted' = [accepted EXCEPT ![e] = @ \cup {pos[w]}]
          BY <3>3, <4>2
        <5>2. accepted'[d] = IF d = e THEN accepted[d] \cup {pos[w]} ELSE accepted[d]
          BY <4>1, <5>1
        <5>3. QED
          BY <5>2
      <4>3. CASE ~took
        BY <3>3, <4>3
      <4>4. QED
        BY <4>2, <4>3
    <3>5. SentWasAccepted'
      <4> SUFFICES ASSUME NEW d \in Event, status'[d] = "SENT", d \notin manual'
                   PROVE  accepted'[d] = Endpoint
        OBVIOUS
      <4>1. accepted[d] = Endpoint
        BY <3>2
      <4>2. accepted'[d] \subseteq Endpoint
        BY DEF TypeOK
      <4>3. QED
        BY <3>4, <4>1, <4>2
    <3>6. ASSUME NEW v \in Worker, current'[v] # NoClaim, ~failing'[v],
                 NEW p \in Endpoint, p < pos'[v]
          PROVE  p \in accepted'[current'[v].event]
      <4>1. current[v].event \in Event
        BY <3>2, <3>6 DEF TypeOK, Claim
      <4>2. CASE v # w
        BY <3>2, <3>3, <3>4, <3>6, <4>1, <4>2 DEF TypeOK
      <4>3. CASE v = w
        <5>1. ok /\ ~failing[w]
          BY <3>3, <3>6, <4>3 DEF TypeOK
        <5>2. pos[w] \in accepted'[e]
          BY <3>1, <3>3, <5>1 DEF TypeOK
        <5>3. p <= pos[w]
          BY <3>3, <3>6, <4>3, <5>1 DEF TypeOK, Endpoint
        <5>4. CASE p < pos[w]
          BY <3>1, <3>2, <3>4, <3>6, <4>3, <5>1, <5>4
        <5>5. QED
          BY <3>2, <3>1, <4>3, <5>2, <5>3, <5>4 DEF Endpoint
      <4>4. QED
        BY <4>2, <4>3
    <3>7. QED
      BY <3>5, <3>6
  <2>5. ASSUME NEW w \in Worker, UpdateSent(w)
        PROVE  PassedEndpoints' /\ SentWasAccepted'
    <3> DEFINE e == current[w].event
    <3>1. e \in Event /\ accepted[e] = Endpoint
      <4>1. e \in Event /\ accepted[e] \subseteq Endpoint
        BY <2>5 DEF UpdateSent, TypeOK, Claim
      <4>2. \A p \in Endpoint : p < pos[w]
        BY <2>5 DEF UpdateSent, Endpoint
      <4>3. \A p \in Endpoint : p \in accepted[e]
        BY <2>5, <4>2 DEF UpdateSent
      <4>4. QED
        BY <4>1, <4>3
    <3>2. QED
      BY <2>5, <3>1 DEF UpdateSent, TypeOK
  <2>6. ASSUME NEW w \in Worker, UpdateFailed(w) \/ LoseBatch(w)
        PROVE  PassedEndpoints' /\ SentWasAccepted'
    BY <2>6 DEF UpdateFailed, LoseBatch, TypeOK, Claim
  <2>7. ASSUME NEW a \in Admin, AdminStep(a)
        PROVE  PassedEndpoints' /\ SentWasAccepted'
    BY <2>7 DEF TypeOK, AdminStep, MarkSentRead, MarkSentWrite, RequeueRead, RequeueWrite,
                ReplayDeadLetter
  <2>8. CASE UNCHANGED vars
    BY <2>8 DEF vars
  <2> QED
    BY <2>1, <2>2, <2>3, <2>4, <2>5, <2>6, <2>7, <2>8 DEF Next, WorkerStep
<1>3. QED
  BY <1>1, <1>2, OutboxTypeCorrect, PTL DEF Spec

-----------------------------------------------------------------------------
(* What the deployment of dispatchPending counts on: a batch ends within    *)
(* its lease, and no API call writes a row by its id.                       *)
LeaseHolds == ~LeaseOverrun /\ Admin = {}

(* A row in the hands of a worker is leased, nobody has counted an attempt  *)
(* since it was claimed, and it is in one hand once.                        *)
Leased(c) == status[c.event] = "PROCESSING" /\ ~due[c.event] /\ c.attempts = attempts[c.event]

Hands ==
  /\ \A w \in Worker : \A c \in batch[w] : Leased(c) /\ c.event # current[w].event
  /\ \A w \in Worker : current[w] # NoClaim => Leased(current[w])
  /\ \A w \in Worker : \A c, d \in batch[w] : c.event = d.event => c = d
  /\ OneHolder

LeaseInv == TypeOK /\ Hands /\ DeadLetterUsedAttempts

(* Nobody holds a row that a worker may claim.                              *)
LEMMA ClaimableIsFree ==
  ASSUME LeaseInv, NEW w \in Worker, NEW e \in Claimable PROVE ~Holds(w, e)
<1>1. e \in Event /\ due[e]
  BY DEF Claimable
<1>2. \A c \in batch[w] : c.event # e
  BY <1>1 DEF LeaseInv, Hands, Leased
<1>3. current[w].event # e
  BY <1>1 DEF LeaseInv, Hands, Leased, NoClaim, Event
<1>4. QED
  BY <1>2, <1>3 DEF Holds

(* Whoever updates a row after a delivery is its only holder.               *)
LEMMA CurrentIsOnly ==
  ASSUME LeaseInv, NEW w \in Worker, current[w] # NoClaim
  PROVE  /\ current[w] \in Claim /\ current[w].event \in Event /\ Leased(current[w])
         /\ \A v \in Worker, c \in Claim :
              c \in batch[v] \/ (c = current[v] /\ v # w) => c.event # current[w].event
<1>1. current[w] \in Claim /\ current[w].event \in Event /\ Leased(current[w])
  BY DEF LeaseInv, TypeOK, Hands, Claim
<1>2. ASSUME NEW v \in Worker, NEW c \in Claim, c \in batch[v] \/ (c = current[v] /\ v # w),
             c.event = current[w].event
      PROVE  FALSE
  <2>1. Holds(v, current[w].event) /\ Holds(w, current[w].event)
    BY <1>2 DEF Holds
  <2>2. v = w
    BY <1>1, <2>1 DEF LeaseInv, Hands, OneHolder
  <2>3. QED
    BY <1>2, <2>2 DEF LeaseInv, Hands
<1>3. QED
  BY <1>1, <1>2

(* The update after a delivery, whatever it writes to its own row.          *)
LEMMA UpdateKeepsHands ==
  ASSUME LeaseInv, NEW w \in Worker, current[w] # NoClaim,
         current' = [current EXCEPT ![w] = NoClaim], batch' = batch,
         \A e \in Event \ {current[w].event} :
           status'[e] = status[e] /\ due'[e] = due[e] /\ attempts'[e] = attempts[e]
  PROVE  Hands'
<1>1. /\ \A v \in Worker : batch[v] \subseteq Claim
      /\ \A v \in Worker : current'[v] = IF v = w THEN NoClaim ELSE current[v]
      /\ \A c \in Claim : c.event \in Event /\ c.event # NoClaim.event
  BY DEF LeaseInv, TypeOK, Claim, NoClaim, Event
<1>2. ASSUME NEW v \in Worker, NEW c \in batch[v] PROVE Leased(c)' /\ c.event # current'[v].event
  <2>1. c \in Claim /\ c.event # current[w].event /\ Leased(c)
    BY <1>1, CurrentIsOnly DEF LeaseInv, Hands
  <2>2. QED
    BY <1>1, <2>1 DEF Leased, LeaseInv, Hands
<1>3. ASSUME NEW v \in Worker, current'[v] # NoClaim PROVE Leased(current[v])' /\ current'[v] = current[v]
  <2>1. v # w /\ current[v] \in Claim /\ current'[v] = current[v] /\ Leased(current[v])
    BY <1>1, <1>3 DEF LeaseInv, TypeOK, Hands
  <2>2. current[v].event # current[w].event /\ current[v].event \in Event
    BY <1>1, <2>1, CurrentIsOnly
  <2>3. QED
    BY <2>1, <2>2 DEF Leased
<1>4. OneHolder'
  <2>1. ASSUME NEW v \in Worker, NEW e \in Event, Holds(v, e)' PROVE Holds(v, e)
    BY <1>1, <2>1 DEF Holds, NoClaim, Event
  <2>2. QED
    BY <2>1 DEF OneHolder, LeaseInv, Hands
<1>5. QED
  BY <1>2, <1>3, <1>4 DEF Hands, LeaseInv, Leased

(* Within the lease every step keeps a row in one hand, and leaves a row    *)
(* that was sent as it is.                                                  *)
LEMMA LeaseStep ==
  ASSUME LeaseHolds, LeaseInv, TypeOK', [Next]_vars
  PROVE  LeaseInv' /\ \A e \in Event : status[e] = "SENT" => status'[e] = "SENT"
<1> DEFINE Good == /\ Hands' /\ DeadLetterUsedAttempts'
                   /\ \A e \in Event : status[e] = "SENT" => status'[e] = "SENT"
<1> USE OutboxConstants
<1>0. /\ \A w \in Worker : batch[w] \subseteq Claim /\ current[w] \in Claim \cup {NoClaim}
      /\ \A c \in Claim : c.event \in Event /\ c # NoClaim
      /\ status \in [Event -> Status] /\ due \in [Event -> BOOLEAN] /\ attempts \in [Event -> Nat]
  BY DEF LeaseInv, TypeOK, Claim, NoClaim, Event
<1>1. ASSUME NEW e \in Event, AppendEvent(e) PROVE Good
  <2>1. \A d \in Event : status[d] # "NONE" => status'[d] = status[d] /\ due'[d] = due[d]
    BY <1>0, <1>1 DEF AppendEvent
  <2>2. batch' = batch /\ current' = current /\ attempts' = attempts
    BY <1>1 DEF AppendEvent
  <2>3. Hands'
    BY <1>0, <2>1, <2>2 DEF LeaseInv, Hands, Leased, OneHolder, Holds
  <2>4. QED
    BY <1>0, <1>1, <2>1, <2>2, <2>3 DEF AppendEvent, LeaseInv, DeadLetterUsedAttempts
<1>2. ASSUME NEW e \in Event, BecomeDue(e) PROVE Good
  <2>1. \A w \in Worker : ~Holds(w, e)
    <3>1. CASE status[e] = "PROCESSING"
      BY <1>2, <3>1 DEF BecomeDue, LeaseHolds
    <3>2. CASE status[e] # "PROCESSING"
      BY <1>0, <3>2 DEF LeaseInv, Hands, Leased, Holds, NoClaim, Event
    <3>3. QED
      BY <3>1, <3>2
  <2>2. status' = status /\ batch' = batch /\ current' = current /\ attempts' = attempts
    BY <1>2 DEF BecomeDue
  <2>3. \A d \in Event \ {e} : due'[d] = due[d]
    BY <1>0, <1>2 DEF BecomeDue
  <2>4. Hands'
    BY <1>0, <2>1, <2>2, <2>3 DEF LeaseInv, Hands, Leased, OneHolder, Holds
  <2>5. QED
    BY <2>2, <2>4 DEF LeaseInv, DeadLetterUsedAttempts
<1>3. ASSUME NEW w \in Worker, ClaimPendingEvents(w) PROVE Good
  <2> DEFINE row(e) == [event |-> e, attempts |-> attempts[e]]
             C == {row(e) : e \in Claimed}
  <2>1. Claimed \subseteq Claimable /\ Claimable \subseteq Event
    BY DEF Claimed, Claimable
  <2>2. \A c \in C : c.event \in Claimed /\ c.attempts = attempts[c.event] /\ c = row(c.event)
    OBVIOUS
  <2>3. /\ \A v \in Worker : batch'[v] = IF v = w THEN C ELSE batch[v]
        /\ current' = current /\ attempts' = attempts /\ current[w] = NoClaim
    BY <1>3 DEF ClaimPendingEvents, LeaseInv, TypeOK
  <2>4. \A e \in Event : /\ status'[e] = IF e \in Claimed THEN "PROCESSING" ELSE status[e]
                         /\ due'[e] = (due[e] /\ e \notin Claimed)
    BY <1>3 DEF ClaimPendingEvents
  <2>5. \A v \in Worker : \A e \in Claimed : ~Holds(v, e)
    BY <2>1, ClaimableIsFree
  <2> HIDE DEF C
  <2>6. \A v \in Worker : \A c \in batch[v] \cup {current[v]} : c # NoClaim => Leased(c)' /\ c.event \notin Claimed
    <3> SUFFICES ASSUME NEW v \in Worker, NEW c \in batch[v] \cup {current[v]}, c # NoClaim
                 PROVE  Leased(c)' /\ c.event \notin Claimed
      OBVIOUS
    <3>1. c.event \in Event /\ Leased(c) /\ Holds(v, c.event)
      BY <1>0 DEF LeaseInv, Hands, Holds
    <3>2. c.event \notin Claimed
      BY <2>5, <3>1
    <3>3. QED
      BY <2>3, <2>4, <3>1, <3>2 DEF Leased
  <2>7. \A c \in C : Leased(c)' /\ c.event # NoClaim.event
    <3> TAKE c \in C
    <3>1. c.event \in Claimed /\ c.event \in Event /\ c.attempts = attempts[c.event]
      BY <2>1, <2>2
    <3>2. status'[c.event] = "PROCESSING" /\ due'[c.event] = FALSE
      BY <2>4, <3>1
    <3>3. Leased(c)'
      BY <2>3, <3>1, <3>2 DEF Leased
    <3>4. c.event # 0
      BY <3>1 DEF Event
    <3>5. QED
      BY <3>3, <3>4 DEF NoClaim
  <2>8. OneHolder'
    <3>1. \A v \in Worker, e \in Event : Holds(v, e)' => Holds(v, e) \/ (v = w /\ e \in Claimed)
      BY <2>2, <2>3 DEF Holds
    <3>2. QED
      BY <2>5, <3>1 DEF OneHolder, LeaseInv, Hands
  <2>9. Hands'
    <3>1. ASSUME NEW v \in Worker, NEW c \in batch'[v] PROVE Leased(c)' /\ c.event # current'[v].event
      BY <1>0, <2>3, <2>6, <2>7, <3>1 DEF LeaseInv, Hands
    <3>2. ASSUME NEW v \in Worker, current'[v] # NoClaim PROVE Leased(current[v])'
      BY <2>3, <2>6, <3>2
    <3>3. ASSUME NEW v \in Worker, NEW c \in batch'[v], NEW d \in batch'[v], c.event = d.event PROVE c = d
      BY <2>2, <2>3, <3>3 DEF LeaseInv, Hands
    <3>4. QED
      BY <2>3, <2>8, <3>1, <3>2, <3>3 DEF Hands, Leased
  <2>10. \A e \in Claimed : status[e] # "SENT"
    BY <2>1 DEF Claimable
  <2>11. QED
    BY <2>3, <2>4, <2>9, <2>10 DEF LeaseInv, DeadLetterUsedAttempts
<1>4. ASSUME NEW w \in Worker, NextEvent(w) PROVE Good
  <2>1. status' = status /\ due' = due /\ attempts' = attempts
    BY <1>4 DEF NextEvent, rows
  <2>2. PICK c \in batch[w] : /\ \A v \in Worker : current'[v] = IF v = w THEN c ELSE current[v]
                              /\ \A v \in Worker : batch'[v] = IF v = w THEN batch[w] \ {c} ELSE batch[v]
    BY <1>4 DEF NextEvent, LeaseInv, TypeOK
  <2>3. current[w] = NoClaim
    BY <1>4 DEF NextEvent
  <2>4. OneHolder'
    <3>1. \A v \in Worker, e \in Event : Holds(v, e)' => Holds(v, e)
      BY <2>2 DEF Holds
    <3>2. QED
      BY <3>1 DEF OneHolder, LeaseInv, Hands
  <2>5. \A v \in Worker : \A d \in batch'[v] : Leased(d)' /\ d.event # current'[v].event
    BY <2>1, <2>2 DEF Leased, LeaseInv, Hands
  <2>6. \A v \in Worker : current'[v] # NoClaim => Leased(current'[v])
    BY <2>2 DEF LeaseInv, Hands
  <2>7. Hands'
    BY <2>1, <2>2, <2>4, <2>5, <2>6 DEF Leased, LeaseInv, Hands
  <2>8. QED
    BY <2>1, <2>7 DEF LeaseInv, DeadLetterUsedAttempts
<1>5. ASSUME NEW w \in Worker, DispatchToEndpoint(w) PROVE Good
  BY <1>5 DEF DispatchToEndpoint, rows, LeaseInv, Hands, Leased, OneHolder, Holds, DeadLetterUsedAttempts
<1>6. ASSUME NEW w \in Worker, UpdateSent(w) \/ UpdateFailed(w) PROVE Good
  <2> DEFINE e == current[w].event
  <2>1. current[w] # NoClaim /\ batch' = batch /\ current' = [current EXCEPT ![w] = NoClaim]
    BY <1>6 DEF UpdateSent, UpdateFailed
  <2>2. e \in Event /\ Leased(current[w]) /\ current[w] \in Claim
    BY <2>1, CurrentIsOnly
  <2>3. \A d \in Event \ {e} : status'[d] = status[d] /\ due'[d] = due[d] /\ attempts'[d] = attempts[d]
    BY <1>0, <1>6 DEF UpdateSent, UpdateFailed
  <2>4. Hands'
    BY <2>1, <2>3, UpdateKeepsHands
  <2>5. status'[e] = "DEAD_LETTER" => attempts'[e] >= MaxAttempts
    <3>1. attempts[e] \in Nat /\ current[w].attempts = attempts[e]
      BY <1>0, <2>2 DEF Leased
    <3>2. CASE UpdateSent(w)
      BY <1>0, <2>2, <3>2 DEF UpdateSent
    <3>3. CASE UpdateFailed(w)
      BY <1>0, <2>2, <3>1, <3>3 DEF UpdateFailed, Exhausted
    <3>4. QED
      BY <1>6, <3>2, <3>3
  <2>6. status[e] # "SENT"
    BY <2>2 DEF Leased
  <2>7. QED
    BY <2>2, <2>3, <2>4, <2>5, <2>6 DEF LeaseInv, DeadLetterUsedAttempts
<1>7. ASSUME NEW w \in Worker, LoseBatch(w) PROVE Good
  <2>1. /\ \A v \in Worker : batch'[v] = IF v = w THEN {} ELSE batch[v]
        /\ \A v \in Worker : current'[v] = IF v = w THEN NoClaim ELSE current[v]
        /\ status' = status /\ due' = due /\ attempts' = attempts
    BY <1>7 DEF LoseBatch, rows, LeaseInv, TypeOK
  <2>2. \A v \in Worker, e \in Event : Holds(v, e)' => Holds(v, e)
    BY <2>1 DEF Holds, NoClaim, Event
  <2>3. OneHolder'
    BY <2>2 DEF OneHolder, LeaseInv, Hands
  <2>4. QED
    BY <2>1, <2>3 DEF LeaseInv, Hands, Leased, DeadLetterUsedAttempts
<1>8. ASSUME NEW a \in Admin PROVE FALSE
  BY DEF LeaseHolds
<1>9. ASSUME UNCHANGED vars PROVE Good
  BY <1>9 DEF vars, LeaseInv, Hands, Leased, OneHolder, Holds, DeadLetterUsedAttempts
<1> HIDE DEF Good
<1>10. Good
  <2>1. ASSUME NEW w \in Worker, WorkerStep(w) PROVE Good
    BY <1>3, <1>4, <1>5, <1>6, <2>1 DEF WorkerStep
  <2>2. CASE Next
    <3>1. CASE \E e \in Event : AppendEvent(e) \/ BecomeDue(e)
      BY <1>1, <1>2, <3>1
    <3>2. CASE \E w \in Worker : WorkerStep(w) \/ LoseBatch(w)
      BY <1>7, <2>1, <3>2
    <3>3. CASE \E a \in Admin : AdminStep(a)
      BY <1>8, <3>3
    <3>4. QED
      BY <2>2, <3>1, <3>2, <3>3 DEF Next
  <2>3. CASE UNCHANGED vars
    BY <1>9, <2>3
  <2>4. QED
    BY <2>2, <2>3
<1>11. QED
  BY <1>10 DEF Good, LeaseInv

(* Within the lease two workers never have one row, whatever crashes.       *)
THEOREM OneHolderWithinLease == LeaseHolds => (Spec => []OneHolder)
<1> SUFFICES ASSUME LeaseHolds PROVE Spec => []OneHolder
  OBVIOUS
<1>1. Init => LeaseInv
  BY DEF Init, LeaseInv, Hands, OneHolder, Holds, DeadLetterUsedAttempts, NoClaim, Event, TypeOK, Status, Request
<1>2. LeaseInv /\ TypeOK' /\ [Next]_vars => LeaseInv'
  BY LeaseStep
<1>3. LeaseInv => OneHolder
  BY DEF LeaseInv, Hands
<1>4. QED
  BY <1>1, <1>2, <1>3, OutboxTypeCorrect, PTL DEF Spec

(* A dead letter has had all its attempts, whoever claimed it last.         *)
THEOREM DeadLettersUsedAttempts == LeaseHolds => (Spec => []DeadLetterUsedAttempts)
<1> SUFFICES ASSUME LeaseHolds PROVE Spec => []DeadLetterUsedAttempts
  OBVIOUS
<1>1. Init => LeaseInv
  BY DEF Init, LeaseInv, Hands, OneHolder, Holds, DeadLetterUsedAttempts, NoClaim, Event, TypeOK, Status, Request
<1>2. LeaseInv /\ TypeOK' /\ [Next]_vars => LeaseInv'
  BY LeaseStep
<1>3. LeaseInv => DeadLetterUsedAttempts
  BY DEF LeaseInv
<1>4. QED
  BY <1>1, <1>2, <1>3, OutboxTypeCorrect, PTL DEF Spec

(* What was sent is never claimed, retried or given up again.               *)
THEOREM SentStaysSent == LeaseHolds => (Spec => SentIsFinal)
<1> SUFFICES ASSUME LeaseHolds PROVE Spec => SentIsFinal
  OBVIOUS
<1>1. Init => LeaseInv
  BY DEF Init, LeaseInv, Hands, OneHolder, Holds, DeadLetterUsedAttempts, NoClaim, Event, TypeOK, Status, Request
<1>2. LeaseInv /\ TypeOK' /\ [Next]_vars => LeaseInv'
  BY LeaseStep
<1>3. LeaseInv /\ TypeOK' /\ [Next]_vars => [\A e \in Event : status[e] = "SENT" => status'[e] = "SENT"]_vars
  BY LeaseStep
<1>4. QED
  BY <1>1, <1>2, <1>3, OutboxTypeCorrect, PTL DEF Spec, SentIsFinal
=============================================================================
