# Aardvarkland WMS: specification and proofs

Aardvarkland WMS is a warehouse management system: a NestJS API over PostgreSQL
(`src/backend`), a React front end with handheld pages, a print agent and scripts.  Its
correctness lies in bookkeeping: what is on a shelf, what of it is promised to whom, what has
been picked, packed, shipped and billed, and which message or label about it has left the
house.  Many requests, scanners, agents and workers change the same rows at once; this
directory models those changes.

## 1. Inventory

State lives in PostgreSQL; the services keep almost none of their own, the print agent keeps
the jobs it has claimed, the browser keeps its tokens and its offline scans.  Every transaction runs at READ
COMMITTED, so a read is only as good as the row lock it was made under.
`lockPostgresRowById` (`database/transaction-locks.ts`) takes row locks on quants,
reservations, orders and tasks; `withTransactionRetry` repeats a transaction on a conflict or
deadlock; many services take no lock at all.

| component | state | operations | hard behaviour | what makes it correct |
|---|---|---|---|---|
| reservations | `reservations`, `stock_quants.reserved_quantity` | create, release, cancel | two releases at once, stale availability | reserved = sum of active, never above on hand |
| allocation | the same, and order status | allocateOutboundOrder | unlocked search, lock order of quants | a line is promised no more than it needs |
| fulfillment | order, lines, reservations, quants, tasks, serials | releasePicking, confirmPick, pack, ship | picks racing picks and releases | every piece is credited once; PICKED means picked |
| warehouse tasks | `warehouse_tasks` | create, claimNext, assign, start, confirm, fail, cancel | check and write without a lock | a finished task stays finished |
| RF workflows | scanner sessions, scan rows, all of the above | startTask, scan, reportTaskException, syncOfflineScans | other lock order, rows read before the lock | the rules of the desk; a scan is applied once |
| outbound | orders and lines | create, update | edits beside running transactions | no reservation on a cancelled order |
| outbox, jobs, integrations | `outbox_events`, dead letters | append, dispatchPending, markSent, requeueDeadLetter | leases, crashes, retries, several workers | SENT means delivered; everything is settled |
| inventory | `stock_quants`, movements, keys | receive, move, adjust, block, unblock | keys and rows read outside the lock | movements explain the stock; a key counts once |
| putaway, replenishment | tasks, demands | create or evaluate, confirm | two confirmations | goods move once, promised goods stay |
| inbound | shipments, lines | receive, update | two receipts, an edit beside a receipt | a shipment is RECEIVED when all its lines are |
| cycle counts | plans, tasks, freezes | release, submit, approve | double approval, count gone stale | an approval adjusts stock once |
| waves, shipping, carriers | waves, shipments, packages, labels | create, release, pack, stage, ship, void, track | writes to orders without the lock | one shipment ships an order; nothing is packed twice |
| warehouse orders | orders, lines, linked tasks | create, release, complete, cancel | status checked before the transaction | a closed order has closed lines |
| returns | return orders and lines | receive, inspect | no transaction at all | no more comes back than was announced |
| traceability | `serial_numbers` | create, edit, receive, pick, pack | no lock on a serial | a piece has one number |
| clients and billing | events, invoices, credit notes, numbers | record, generate, finalize, void | every read before the transaction | an event is charged once |
| auth | refresh tokens, failed logins | login, refresh, logout, password change | rotations beside revocations | an ended session stays ended |
| enterprise operations | device commands, webhooks, VAS and cross-dock jobs, yard | queue, claim, answer, replay | late answers, commands queued again | a command is repeated only after a failure |
| labels and print agent | print jobs, leases, the agent's claimed jobs | create, claim, report, retry | lost answers, restarts of the agent | no label is printed again unasked |
| front end | offline scan queue, token pair | save, send, refresh, log out | refused stores, reloads, shared refresh | a saved scan is kept; a refresh logs nobody out or in |
| reliability, alerting | incidents, alerts, retention | evaluate, deliver, clean up | overlapping runs | one incident for one cause |

`PROJECT.json` lists every component with its sources, also those that are left out and why,
and the hazards of this code with the properties that cover them.

Components interact through rows, not messages: allocation, reservations, fulfillment, the
scanner, waves, shipping and outbound edits all write `outbound_orders`; the first four,
inventory, putaway, replenishment, inbound and counts write `stock_quants`.  Business
operations append rows to the outbox in their own transaction, and a queue worker
(`jobs/queue-worker.service.ts`) delivers them to integration endpoints.

## 2. Plan

Done, in this order: `Outbox`; `OrderStock` with `ReservationLedger`; `FloorPicking`; `StockRows`
with `Inventory`, `MoveTasks`, `Inbound` and `CycleCount`; `PrintQueue`; `Requests` with `Shipping`,
`Waves`, `WarehouseOrders`, `Returns`, `Sessions`, `Billing`, `Serials` and `EnterpriseOps`;
`OfflineScans`; `BrowserSession`; the proofs about most of them.

Left: incidents and alert delivery of `reliability`; the inbox and the circuit breaker, for
which no property is stated anywhere; scoring (slotting) as a pure algorithm.  Every safety property that
a run checks is also a theorem.

## 3. Modules

Conventions.  A request is what it has read so far (`txn`, `reqs`, `op`, `ask`); a statement outside
a transaction is a step of its own; a transaction is as many steps as it has reads that another
transaction can outdate, and its writes become visible in its last one.  A check that fails
disables the step, and then only `Rollback`, `Abort` or the like is left, which also stands for
lock timeouts, deadlock victims and crashes.  "history" marks what the program does not store
and a property needs.  Quantities are small numbers, names are model values, time is what
the code compares with it (a lease that is over, a date that has come).  Audit rows, movements that nothing sums
up, wording and the shape of answers are left out.

### Messages out of the house
`Outbox`: one row per event; `status`, `attempts` and `sentAt` are columns, `due` is the comparison
`available_at <= now`, the only use the queries make of time.  `batch`, `current`, `pos` and `failing` are the
local variables of `dispatchPending` and of the endpoint loop it calls
(`IntegrationDispatchService.dispatchOutboxEvent`).  `ClaimPendingEvents` is one statement with SKIP LOCKED;
`DispatchToEndpoint` is one iteration of the loop, which may be reported as failed although the endpoint took
the event, and leaves a dead letter; `UpdateSent` and `UpdateFailed` write by id.  `LoseBatch` is a crash of the
worker, or an exception in the catch block.  `markSent` and `requeueDeadLetter` are a read and a write,
`replayDeadLetter` a single statement.

### The order desk
`OrderStock`: quants, reservations, tasks, orders and lines; `txn[c]` is what transaction `c` has read
and where it stands, `owner` the row locks, `dQty` and `dRes` its uncommitted increments.  It
begins with its unlocked reads, takes each lock in a step (`LockOrder...`, `LockResv...`,
`ReserveStockQuant`, ...), rereads and checks under it what the code does, and commits in one
step.  Rows that a statement updates without a lock before it make the commit wait for whoever
holds them (`RowsToWrite`).  Task requests are an unlocked check and a write (`ReadTask`), or take
the row lock and check again (`ClaimTask`, `LockTask`).  The strategies of allocation are any
order of the candidates (`Plans`).

`ReservationLedger`: what the desk promises, one atomic step per request (`Promise`, `Withdraw`,
`Take`, `Advance`) with its conditions evaluated in the state it changes.  `OrderStock` implements it under
`stage <- Effective` (the status in the metadata wins over the column).

`FloorPicking`: `OrderStock` with the scanner (`completePickTask`, `reportTaskException`), tasks made
by hand and edits of an order.  The scanner's pick reads everything first, locks the quant, and
then only updates reservation, line and order.  `RfReadLines` is the increment of the line with the
second read after it.

### Goods
`StockRows`: the stock tables of one SKU and what all operations on them share: `Begin...` (reads without
locks), `LockSource` (row lock and re-read), `LockIdentity` (the advisory lock of the row it adds to),
commit.  `Inventory` adds receive, move, adjust, block and unblock; `MoveTasks` putaway and
replenishment tasks; `Inbound` receipts against the lines of a shipment and edits of its
status; `CycleCount` a plan with its freezes, submission and approval.  Each extends the one before.

### Services over `Requests`
`Requests` is the frame: requests in progress and a budget of operations.  `Shipping` (packages, staging, shipping and labels of
two shipments), `Waves` (over it), `WarehouseOrders`, `Returns` (every statement a step, no transaction), `Sessions`
(token families of one user; the user row as a lock), `Billing` (a unique index is all that
protects it), `Serials` (serial numbers through receiving, picking, packing), `EnterpriseOps`
(commands, webhook attempts, jobs, yard).  They share no rows except through `Shipping` and `Waves`.

### Clients of the server
`PrintQueue`: runtime print jobs, and print agents with the jobs of a claim (`todo`, `got`), the job at
hand, restarts, and their calls (a report lives on in `calls` when the agent has stopped waiting for
it or has died; `live` says whether it still waits).  `sheets` and `retries` are history.
`OfflineScans`: the queue of a handheld in IndexedDB and localStorage, either of which may refuse
any access, the removal of a fallback included; the page, which may be reloaded between any two
steps; and the server's ingest and replay of the scans, which may die between any two statements.
`ops` holds the operations on the queue: appends and removals take turns (`Turn`, of `serializeWarehouse`), the loads
of the page do not.  `Revisit` is a switch of warehouse and back, or the page left and opened again: the
operations under way go on beside the new load, while `ReloadPage` ends them.
`BrowserSession`: one tab's token pair, its requests that share one refresh, its realtime stream
and its logout, against the token families of the server; an answer may be lost.

### Instances and proofs
`MCOutbox`, `MCOrderStock`, `MCFloorPicking`, `MCStorage`, `MCScans`, `MCServices`, `MCDevices`, `MCQueues` hold constants,
symmetry and, for the last three, the composition of modules that share no state.  `OutboxProofs`,
`DeskProofs`, `LedgerProofs`, `StorageProofs`, `ServicesProofs`, `OfficeProofs`, `DevicesProofs` hold the theorems, and
`SumLemmas` the laws of sums over finite sets that they use.  A component that is only checked in a composition
has a specification of its own for its theorems (`WavesSpec`, `WorderSpec`, `ReturnsSpec`, `SerialsSpec`, ...).

## 4. Runs

| run | instance | shows |
|---|---|---|
| `order_races` | 2 clients, 1 order of 2 lines with 2 pieces each, 1 quant of 4, 2 reservations, 2 tasks, 6 transactions from reservation to shipment, task requests | `ReservedIsActive`, `LineNotOverpromised`, `TakenIsPicked`, `PickedMeansPicked`, `ReservationFinal` |
| `order_allocations` | 2 clients, 2 orders of 1 line, 2 quants of 2, 3 reservations, 4 transactions, requests with and without an order or line (`Loose`) | `LedgerSpec`: the interleaved transactions implement the atomic ledger |
| `floor_stock` | 2 clients, desk and scanner, tasks made by hand, an edit that cancels, picks that name another line (`LineOverride`), 2 lines of 1, 1 quant of 2, 5 transactions | `ReservedWithinOnHand`, `DeadlockNeedsRfOrAllocation` |
| `queues` | the outbox with 2 workers, 2 events claimed together, 2 attempts, 2 faults, batches within their lease; the scans of a handheld with 2 scans on 2 steps, 2 faults (a refusal of a store, a reload or revisit, a mishap of the server) | `OneHolder`, `DeadLetterUsedAttempts`, `SentIsFinal`, `KeptOnDevice`, `AppliedOnce` |
| `outbox_delivery` | 2 workers, 1 event, 2 endpoints, 2 attempts, leases that overrun, one API client, a fault, a requeue, fairness | `SentWasAccepted`, `EventuallySettled` |
| `storage` | 2 clients, 2 locations, 1 key, 4 rows, 2 move tasks, 2 inbound lines, 10 mixes of operations of 3 to 6 requests | `ReservedWithinOnHand`, `OneRowPerIdentity`, `KeyUsedOnce`, `LedgerExplainsStock`, `ReceivedMeansComplete`, `ReceiptsCounted`, types |
| `services` | 2 clients, 13 mixes of 4 to 10 requests over 2 orders, 2 shipments, 1 wave, 1 warehouse order, a return of 2 lines, 4 tokens, 2 billing events, 3 invoices, 2 serials, 2 commands, 2 doors | `PackedWithinPicked`, `OneShipmentShips`, `WaveNeverReopens`, `ClosedOrderClosedLines`, `ReturnWithinExpected`, `OneActivePerFamily`, `EndedStaysEnded`, `FailuresCounted`, `BilledOnce`, `OneSerialPerPiece`, `ClaimsFollowFailures`, types |
| `devices` | 2 agents, 2 printers, up to 2 jobs of 2 attempts, 2 operator edits, a mishap; 1 scan on 2 steps, a fault; 3 askers (one a stream), 4 token pairs, 2 logins or a login and a fault | `NoBlindReprint`, `PrintedWasSent`, `SessionSurvives`, `LogoutIsFinal`, `JobsAreServed`, types |

Each property has a mutant in `PROJECT.json`: a plausible bug (a check under the lock dropped, a
lock not taken, a retry status that is never claimed, an index forgotten) under which it
fails.

Bounds.  Two clients are enough for the races the code guards against: every guard is on rows
that one other transaction may have changed.  Two pieces per line let two requests fit one at
a time but not together; three or four transactions make a race, and six are the shortest way
through reserve or allocate, release picking, two picks, pack and ship, so that every status of an
order is reached.  The mixes (`Mixes`) of `storage` and `services` put together the operations that write
the same rows and let each mix run as long as a race of three requests with their
preparations; all operations at once would only multiply independent steps.  Two agents and a lost
answer make every double print the code could produce; two faults are what `OfflineScans` needs to
leave a fallback and then have its removal refused, or meet it in a load that runs beside an append.  An operation that works on
a left-over fallback alone takes more: `old_fallback` has four, and the device without the server was also
checked, without violation, with three scans and four faults.  One append or removal waits behind the one that
runs: more would only wait.  Four token pairs are two logins with a rotation each.
`CHECK_DEADLOCK FALSE` everywhere: operations are bounded, so a run ends when they are used up.
A cycle of lock waits, which PostgreSQL would break, is looked for by
`DeadlockNeedsRfOrAllocation` instead.

Fairness.  `outbox_delivery`: the queue worker polls for ever (`runLoop`), so a worker that can take a
step does; a lease or retry delay ends because time passes; an API call that has read its row
writes it.  Nothing is assumed of endpoints; crashes and requeues are finite (`MaxFaults`,
`MaxRequeues`), otherwise no event need ever settle.  `devices` (`PrintFairness`): a running agent
polls on, the server answers a call it has received, and a claim's lease expires; agents may die and
answers be lost, but not for ever.

### Disagreements found

Four runs expect a violation, each of a line of the repository that says otherwise; the
findings in `PROJECT.json` quote both sides.

| run | property refuted | what happens |
|---|---|---|
| `floor_rf_release` | `ReservedIsActive` | a scanner pick acts on a reservation that was released between its read and its lock |
| `count_freeze` | `FrozenStockStays` | the freeze of a count names quant, location and SKU at once and therefore matches no request: counted stock moves |
| `double_confirm` | `MovedOnce` | two confirmations of one putaway task both move the goods |
| `old_fallback` | `SurvivesOldFallback` | a fallback whose removal was refused is later taken for the whole queue and replaces it |

Some properties set such behaviour apart, so that they say something of everything else.

- `KeptOnDevice` says nothing once an append or a removal has worked on a left-over fallback alone (`misled`),
  which is what `old_fallback` shows, or written while a load was putting a fallback back (`raced`).  In that
  race the load of a page (`RfPage.tsx:352`), which takes no turn with the other operations, replaces the store with what it
  read before an append of an earlier visit wrote its scan (`rfOfflineQueue.ts:42`): the scan was shown as saved and
  is gone, where `rfOfflineQueue.ts:20` says that concurrent writes do not clobber each other.  It needs the append's write between
  the load's `getAll` and its `replaceWarehouseQueue`: these are two IndexedDB transactions on two
  connections, which the browser orders by their creation, and nothing keeps an append's from falling between.
- `FailuresCounted` sets apart the failed logins whose own INSERT was refused.  While an email has no row,
  `FOR UPDATE` locks nothing: of first wrong passwords at once all but one meet the unique `email_hash`
  (`auth.service.ts:834`) and stay uncounted, and the one that should lock the email need not.
- `BilledOnce` sets apart revived invoices.  A finalization checks the status before its transaction
  (`clients.service.ts:903`) and writes FINALIZED by id, so it makes an invoice final that was voided meanwhile; the void has
  released its events, the next invoice bills them, and they stand on two invoices that are both final.
- `PickedMeansPicked` is checked and proved of the desk alone.  The scanner's `completePickTask` increments the
  line, reads it again and adds the quantity once more (`rf-workflows.service.ts:868`): a pick of half a line
  makes the order PICKED.

Other behaviour the models contain and a reader of the code should know of:

- A task request checks the status it read and writes without a lock, so two can overwrite a
  finished task; two scanners at two quants are not serialised on the line.
- An order edit to CANCELLED leaves its reservations active; a hand-made task without a
  reservation picks whatever the quant holds; `confirmPick` lets the order and line of its body win
  over those of the task.
- A requeue writes a row that may have been requeued or sent since its read.  A replay of a dead
  letter resets the row of its event whatever became of it, and leaves `sent_at`: an event that is
  sent, replayed and then refused is a dead letter that the API shows as SENT and refuses to requeue.
- The last scan of a putaway task on the scanner ends the task and moves nothing; afterwards no
  confirmation can move the goods under that task.
- Two receipts of one return line at once are counted as one; the other's goods are not.
- A scanner pick of goods with serial numbers captures none; the last one sets the order PICKED whatever
  its status was (`rf-workflows.service.ts:872`).
- An offline scan whose row stays QUEUED or FAILED when the server dies is answered DUPLICATE to the
  next attempt and removed from the handheld without having been applied (`rf-workflows.service.ts:985`).
- A change of password with a wrong current password is answered 401: the front end refreshes,
  repeats the request and clears the session on the second 401.  A request begun in an earlier login is
  repeated with the next login's token (`http.ts:177-183`), and a 401 that joins an old
  session's refresh clears the new session.  `SessionSurvives` excepts these two.
- Two confirmations, or a second failure of the same kind, share an event key
  (`enterprise-ops.service.ts:1007`), so the second sends no webhook.

Seen in parts that are not modelled: a retry of an integration event by id reopens an APPLIED one
(`operations-runtime`); `sendWebhook` is returned without `await` in the try block of the alert
delivery, so a network failure escapes its catch and ends the rest of the run.

## 5. Proofs

All theorems hold for every value of the constants, from the typing of the constants alone
(`OutboxConstants`, `OrderStockConstants`, `FloorPickingConstants`, `StockConstants`, `MoveConstants`, `InboundConstants`,
`CountConstants`, `ShippingConstants`, `WavesConstants` (finitely many orders, which a wave lists), `WorderConstants`,
`ReturnConstants`, `SessionConstants`, `SerialConstants`, `OfflineConstants`, `PrintConstants`, `BrowserConstants`) unless
said otherwise.

`OutboxProofs`.  `OutboxTypeCorrect`; `SentOnlyAfterDelivery` (`Spec => []SentWasAccepted`) from an invariant that
ties the worker's position to what the endpoints have taken: while a worker is past endpoint `i` and
has seen no failure, `i` took the event, and what an endpoint took it has for good.
`OneHolderWithinLease`, `DeadLettersUsedAttempts` and `SentStaysSent` assume `LeaseHolds`: no batch outlives its lease and no
API call writes rows (with either they are false, which is why their run has neither).  Their
invariant `LeaseInv` adds `Hands`: a row in a worker's batch is PROCESSING, not due, and has the attempts
the worker read, so no other worker can claim it and the update by id changes what was claimed.

`DeskProofs`.  `NeverOverReserved` (`Spec => []ReservedWithinOnHand`).  The property is not inductive: a
commit adds increments that were checked earlier.  The strengthening `IInv` says of each transaction
and quant (`Covered`) that it has changes only on quants it has locked, and that with these counted
`0 <= reserved <= quantity`; and of each transaction (`Ready`) that at a quant step it has a plan.
Another transaction cannot commit to a locked quant, so what was covered at the check is covered at the
commit.  `LocalStep`, `QuantStep`, `CommitStep` and `RollbackStep` prove this for the four shapes of
step; each operation is an instance.  `StockStaysCovered` is the invariant, `OrderStockTypeCorrect` its
typing part.  The CHECK constraints of the database are not relied on.

`FinalReservationStays` (`Spec => ReservationFinal`) and `PickedOrderIsPicked`
(`Spec => []PickedMeansPicked`), on top of `IInv`.  Both depend on data read under a lock and used at the
commit.  The strengthening `Settled` says of each transaction which rows it has locked (`Holds`), that
what it has read under these locks is still so (`Knows`: its reservation is active, its line has the picked
quantity it saw, its order is PICKED or PACKED), and of the table that reservations are numbered in
the order of their creation, so an insert writes none that exists.  `StepOn` proves this for the steps
that change no data and `OthersStay` for the commits, which write only what the transaction has locked;
`Final`, what a step may not do to a reservation that has ended, is proved along with it.  It is about the
desk alone: a pick of the scanner breaks `PickedMeansPicked` (section 4).

`DeadlockTakesAScanner` (`FloorSpec => []DeadlockNeedsRfOrAllocation`) is about the desk with the scanner and the edits
beside it.  Its invariant `InTurn` says of every lock why it is no obstacle: its owner is a scanner, or it comes,
in the order order, reservation, quant, task, before whatever its owner will ask for (`Behind`).  Two transactions that wait
for each other would each hold a row the other still asks for.  An allocation is the exception: it holds one quant
while it asks for the next, in the order of its plan.  `Proceeds`, `Begins`, `Locking` and `Ends` are the shapes of step.

`FloorStaysCovered` (`FloorSpec => []ReservedWithinOnHand`) is the stock cover of `NeverOverReserved` with the scanner, the
tasks made by hand and the edits beside the desk.  The invariant is `IInv` together with `RowsAgree`, which the scanner
needs because it writes rows by what it read before it locked them: the reservations that exist are numbered from 1, the
task of a reservation names a line (`Lined` follows that back to the plan of the request that reserved), and a reservation a
transaction is going to write exists (`OfItsRows`).  The UPDATE of a scanner locks the reservation and passes the CHECK
of the table, so that from then on only its own write can shrink it, and the quantity it writes stays a natural number.
The stock itself is safe for one reason: nothing takes off more than is reserved at that moment (`TakeOff`).  `RfLockQuant` looks at
`reserved_quantity` under the quant lock; `RfReleaseQuant` has only the CHECK constraint of the table, so unlike the desk
the scanner does rely on the database here.
Each desk step has a lemma for `RowsAgree` of its own (`ReservingAgree` ...
`RollbackAgree`); its `IInv` part is that of `NeverOverReserved`.

`SumLemmas`.  Sums over finite sets (`SumOf`) by induction on strict subsets: adding and removing a
term, changing one, comparing, joining and renaming.

`LedgerProofs`.  The books of the desk, on top of `IInv`, `Settled` and `SumLemmas`.  `DeskBalances` is `Spec => []Books`:
`RowsSound` (what rows refer to), `PlansSound` (what each transaction carries, made under its locks), and, for
any set of parts, that what is reserved, held and credited balances with the increments still to be
committed.  `ReservedStockIsHeld` (`ReservedIsActive`) and `TakenStockIsCredited` (`TakenIsPicked`) follow.
`LineKeepsItsOrder` (`LineNotOverpromised`) and `DeskIsALedger` (`Spec => LedgerSpec`) assume `~LineOverride`: a
confirmation that books on another line of the task's order is no step of the ledger, which is why the
run has none either.  The refinement is proved step by step: reads, locks, plans and rollbacks leave the
ledger's variables alone; the commit of a reservation, an allocation, a release, a pick, a pack and a
shipment is `Promise`, `Withdraw`, `Take` or `Advance`, whose conditions hold at the commit because what was read
under the locks is still so.

`StorageProofs`.  The storage side (`StorageSpec` of `CycleCount`): receipts, moves, blocks, adjustments, putaway,
replenishment, counts, the inbound shipment and what the order side does to a row, for any number of
requests, rows, locations and targets.  `StorageInvariant` is `Spec => []StorageInv`, which has three parts.  `StockInv`:
a transaction is shaped as its operation makes it (`Shaped`), the rows it has found are still of the
identity it looked for and where it found none there is still none (`Placed`), what it is about to take
is there and unreserved (`Covered`), and no two are at one row or one identity (`Apart`).  The last is what the row
locks and the advisory lock on an identity give; `replenish` takes no such lock, so rows it creates are
marked `by = "search"` and the theorem says what is left true: no two of the others share an identity.  Only with
`Placed` and `Apart` does a write that was decided several steps ago still land where it should.
`BooksInv`: the movements of a location, with what left it and the drift of count approvals, add up to what
it has unreserved; each operation posts movements that say what its write does (`Tells`, `Gains`), summed with
`SumLemmas`.  `DocsInv`: requests are about tasks, rows, lines and counts that are there; rows and tasks are
never removed and received quantities only grow, so this outlasts the steps of others (`RequestsStay`).  From these
`PromisedIsOnHand`, `OneIdentityOneRow`, `KeyOnce`, `LedgerBalances`, `EveryReceiptCounts` and `StorageTypes`.  `ReceivedIsComplete`
assumes that nobody sets RECEIVED by hand (`"RECEIVED" \notin EditStatus`): `update` does not look at the lines, so
without this the property is false.  The soundness of the rows at the start is an assumption
(`StockConstants`).

`ServicesProofs`.  Results about services that share no rows, each with its own invariant.
Shipping beside waves: `PackagesWithinPicked`, `OneShipmentLeaves` and `WavesNeverReopen` from `PInv`.  What a packer has computed under
the lock of its order is still so when it commits (`Planned`), because two who hold that lock cannot both be there
(`OrderLocks`); an order that a release has updated stays where it was until the release commits.  Staging and shipping
lock nothing: `OneCleared` says that even so at most one shipment of an order has left or has been found complete, since a
shipment is found complete only when its packages cover every picked piece of the order, which leaves none for a package
of another shipment (`CoveredAlone`).  Warehouse orders: `ClosedOrdersClosedLines` from
`WInv`; no lock is needed, because each transaction writes the order and all its lines.  Returns: `ReturnsStayWithinExpected` from `RInv`, that what a
request read and is about to write was within bounds when it was read, as the quantities written are absolute.  Serial
numbers: `SerialPerPiece` from `SInv`: at most one request is at an order and at a quant (`SerialLocks`), what it knows of
the serials stays so (`Knows`), and the serials gone with a line are as many as were taken, unless a scanner picked for the
order or a serial was named wrongly, which the property excepts.

The typing of these parts is proved beside them (`WavesTypeCorrect`, `WorderTypeCorrect`, `ReturnsTypeCorrect`,
`SerialsTypeCorrect`), and is more than the kinds of columns.  A label names a shipment and a wave links tasks that exist,
although a release collects both over several steps: rows are never deleted (`ShipmentsStay`, `TasksKept`,
`WordersStay`), and what a release has found so far is among them (`Gathers`).  Of a return, what its movements have posted
stays within what went into stock: the inspections that have added stock and not yet posted the movement
(`Moving`) owe the rest, a sum over requests (`Owed`) that each step of an inspection moves by its own part.

`OfficeProofs`.  Sessions: `OneUsableToken` and `LogoutIsFinal` from `TInv`: a family has one active token, an ended one none
(`Usable`), and only one request at a time is between its lock on the user row and its write
(`Turns`), so a rotation that saw its token active is still right when it writes, and a revocation has
seen whatever is active.  `EveryFailureCounts` from `FInv`, about the lock on the row of failed
logins, once there is a row: what a failed login has read and is about to write is the count as it is, or it saw no
row and inserts the first, or its INSERT is refused; a refused one is the only one that stays uncounted.
Billing: `ChargedOnce` from `BInv`: an event charged for by an invoice that is neither void nor revived is linked by
it, and the unique index allows one link.  No lock is involved.  Commands: `ReclaimedForFailures` from `CInv`: a
command that may be claimed has had as many failures as claims.  Typing: `SessionsTypeCorrect`, `BillingTypeCorrect`,
`EnterpriseTypeCorrect`, the last of which needs that a replay writes the number it has read plus one under a key that
was recorded (`Delivered`).

At the end of the module the eight services are put together.  They write one table of requests, so what is
proved of each alone is not yet proved of all: `ServicesInv` is the conjunction of their invariants, and a
step of one service must leave those of the other seven alone.  `WavesTouch` ... `EnterpriseTouch` say which operations a
step of a service can leave in the request it writes, `OpsApart` that no two services share one, and
`WavesApart` ... `EnterpriseApart` that an invariant outlasts requests of foreign operations, as it speaks of its own only.  With
`OwnStep` this gives `ServicesInductive`, and from it `ServicesTypeCorrect`, `ServicesSafe` (the ten invariants of the run
`services`) and `ServicesNeverReopen`, about the very specification that TLC checks.

`DevicesProofs`.  `KeptUntilReceived` and `AppliedAtMostOnce` from `OfflineInv`, the conjunction of types, of `AtWork` (a
sync request works on a scan), of `QueueInv` and of `OnceInv` (a scan's row is inserted once, and only the
request that inserted it works on the scan).  `QueueInv` says who may write the store (`Turns`: one append or removal at a
time, and a load only with a fallback in its hands), and, until an operation was misled or raced (`Stored`), where
every scan is that the page has shown as saved and the server does not know: in the stores as the next load will
read them (`Stores`), in what the append or removal that runs has read or is about to write (`Promise`), and in
what a load is about to put back (`Merging`).  Loads that hold a fallback hold the same one, as nothing else
has written since.

In the same module `NoLabelTwice` and `PrintedIsPrinted`, about the print queue.  Neither bound on the sheets of a job is inductive: a
report that the server is about to answer will put another agent at the printer.  `PInv` counts
what may still come.  For every job (`Count`) the sheets, the agents at the printer (`Printers`) and one
more while it is queued, claimed or PRINTING with the process that claimed it still before it
(`Chance`) are at most one more than the retries; the sheets, the agents at the printer and one more
while such a claim is out (`Owed`) are at most the attempts, which `claimPrintJobs` keeps within
`max_attempts`.  `Whole` adds that a process has at most one live call, about the job at hand, and that
a report of PRINTED is about a label that was sent.  One lemma per step; `CountsMove`, `WholeMoves`,
`RowStep`, `SentToPrinter` and `Told` are their shapes.

Also there, about the browser tab, `TabStaysSignedIn` and `LeftIsLeft` from `BInv`.  It says which calls can be under way (`UnderWay`: the shared
refresh, the logout, and what was sent by a refresh or logout that no longer waits), that the refresh and the logout hold answers about the
families they asked for (`Refreshing`, `Leaving`), that the pair in the tab, or the one in an answer it is about to store, is active
unless an answer of its family was lost (`Holds`), and that a family the server has ended has no active token.  The sharp case is
an answer that comes when the tab has been left or signed in again: it is not stored, because the tab no longer holds what
was sent.

`DevicesTypeCorrect` and `DevicesSafe` are about the composition.  Its parts share no variable, so the invariants of the
parts are inductive together.  The typing of the tab is the work: that a logout, a refresh or a
waiting caller holds numbers of pairs that were issued (`TabTyped`) follows from `BInv`, which says whose answers
they are.

Only model-checked: liveness (`EventuallySettled`, `JobsAreServed`), whose fairness needs ENABLED.

## 6. Not modelled

The components with status `not_modelled` in `PROJECT.json` say why.  Most of the source by size is not
behaviour of the kind checked here: React pages, reports and dashboards, rendering of labels and
documents, validation and mapping of request bodies, a static demonstration, installation scripts and
tests.  That is why the mapped lines are a small share of all lines, while the
operations that write shared rows are mostly there.

Simplified within modelled operations, where no property depends on it: `releasePlan` of a count reads and writes in
one step; two approvals that overlap may in the code each see the other's task still SUBMITTED when they decide the
status of the plan, in `CycleCount` the later one sees it approved; an adjustment that creates a row checks less than
the service; a putaway confirmation may name any row, place and quantity, its check of a handling unit is left out
with the handling units; the death of an agent in the midst of a claim ends the server's handler too, where the server may
in fact finish the claim (then the agent died one step later, before the answer).

In the modelled services: lots, owner scopes, parcels and audit rows; deletion of terminal rows by
retention; carts, totes and packing stations; MFA, profiles and permissions; a tab that was
duplicated with its session storage; what an expired database session does beyond a rollback.
`idempotency` is a service with an API of its own that no other service calls; operations keep their
keys in their own rows.  The workflow table of transitions is documentation that no operation
consults: the findings quote it.
