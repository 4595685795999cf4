---------------------------- MODULE OfflineScans ----------------------------
(***************************************************************************)
(* Scans captured by a handheld without a connection: the queue kept in the *)
(* browser (core/scanning/rfOfflineQueue.ts, one tab on one warehouse), the *)
(* page that fills and sends it (RfPage), and RfWorkflowsService, which     *)
(* stores each scan under its key and replays it on its scanner session.    *)
(* Either store may refuse any access; the page may be reloaded, the        *)
(* warehouse switched, and the server may die, between any two steps.       *)
(***************************************************************************)
EXTENDS Integers, Sequences, FiniteSets

CONSTANTS NumScans,     \* bound: scans captured, numbered in that order
          NumSteps,     \* steps of the session's task
          Codes,        \* what may be scanned: the step whose code it is, or 0
          NumFaults     \* bound: refusals of a store, page and server mishaps

ASSUME OfflineConstants ==
  NumScans \in Nat /\ NumSteps \in Nat \ {0} /\ NumFaults \in Nat

VARIABLES
  idb, fallback,   \* the keys in IndexedDB, and the fallback in localStorage
  acked,           \* scans the page has shown as saved
  page,            \* React state: pending, error, whether a sync is running
  ops,             \* the loads, appends and removals under way
  syncs,           \* sync requests at the server
  row,             \* rf_offline_scan_queue.status by key
  session,         \* scanner_sessions.status and its workflow steps
  history          \* faults left, steps completed by scan, queues put at risk

offlineVars == <<idb, fallback, acked, page, ops, syncs, row, session, history>>
Scan       == 1..NumScans
RowStatus  == {"NONE", "QUEUED", "SYNCED", "FAILED", "DUPLICATE"}

(* old (history): its removal was refused once IndexedDB held what it has.  *)
Fallback   == [is : BOOLEAN, keys : SUBSET Scan, old : BOOLEAN]
NoFallback == [is |-> FALSE, keys |-> {}, old |-> FALSE]

Page == [id : Nat \ {0}, visit : Nat \ {0}, pending : SUBSET Scan, loaded : BOOLEAN,
         error : BOOLEAN, syncing : BOOLEAN, confirmed : Seq(SUBSET Scan)]
(* A load belongs to a visit of the page; visit 0: an append or a removal.  *)
Operation == [kind : {"load", "append", "remove"}, keys : SUBSET Scan, visit : Nat,
              fb : Fallback, stored : SUBSET Scan,
              pc : {"fallback", "read", "merge", "clean", "persist", "drop", "end"}]
Sync == [todo : SUBSET Scan, now : 0..NumScans, pc : {"ingest", "read", "commit", "record"},
         saw : Nat, ok : BOOLEAN, confirmed : SUBSET Scan, page : Nat]
Session == [st : {"ACTIVE", "COMPLETED", "CANCELLED"},
            steps : Seq([n : 1..NumSteps, open : BOOLEAN])]
(* misled: an append or a removal worked on an old fallback alone.          *)
(* raced: one wrote while a load held a fallback it was yet to put back.    *)
History == [faults : Nat, next : Nat, code : Codes, applied : [Scan -> Nat],
            misled : BOOLEAN, raced : BOOLEAN]

OfflineTypeOK ==
  /\ idb \subseteq Scan /\ fallback \in Fallback
  /\ acked \subseteq Scan /\ row \in [Scan -> RowStatus]
  /\ page \in Page /\ ops \subseteq Operation /\ syncs \subseteq Sync
  /\ session \in Session /\ history \in History

NewPage(n, v) == [id |-> n, visit |-> v, pending |-> {}, loaded |-> FALSE, error |-> FALSE,
                  syncing |-> FALSE, confirmed |-> <<>>]

Begun(kind, keys, v) == [kind |-> kind, keys |-> keys, visit |-> v, fb |-> NoFallback,
                         stored |-> {}, pc |-> "fallback"]
(* The effect of the page: every visit loads, whatever else is under way.   *)
LoadPage(v) == Begun("load", {}, v)

OfflineInit ==
  /\ idb = {} /\ fallback = NoFallback /\ acked = {} /\ syncs = {}
  /\ page = NewPage(1, 1) /\ ops = {LoadPage(1)}
  /\ row = [k \in Scan |-> "NONE"]
  /\ session = [st |-> "ACTIVE", steps |-> <<[n |-> 1, open |-> TRUE]>>]
  /\ \E code \in Codes :
       history = [faults |-> NumFaults, next |-> 1, code |-> code,
                  applied |-> [k \in Scan |-> 0], misled |-> FALSE, raced |-> FALSE]

serverVars == <<syncs, row, session>>
Fault == history.faults > 0 /\ history' = [history EXCEPT !.faults = @ - 1]

-----------------------------------------------------------------------------
(* The queue on the device.  An operation loads, changes and persists it.   *)
Becomes(o, q)  == ops' = (ops \ {o}) \cup {q}
Goto(o, pc)    == Becomes(o, [o EXCEPT !.pc = pc])
Loaded(o, S)   == Becomes(o, [o EXCEPT !.stored = S,
                                       !.pc = IF o.kind = "load" THEN "end" ELSE "persist"])
(* What becomes of a load of an earlier visit is dropped.                   *)
Heard(o) == o.kind = "load" => o.visit = page.visit
Fails(o) == ops' = ops \ {o} /\ page' = IF Heard(o) THEN [page EXCEPT !.error = TRUE] ELSE page

(* serializeWarehouse: appends and removals take turns; the loads of the    *)
(* page do not go through it.  Bound: one waits behind the one that runs.   *)
Turn(o) == o.kind # "load" => \A q \in ops : q.kind # "load" => q.pc = "fallback"
Enqueue(kind, keys) == /\ \A o \in ops : o.kind # "load" => o.pc # "fallback"
                       /\ ops' = ops \cup {Begun(kind, keys, 0)}

(* loadRfOfflineQueue: the fallback is read first and, where there is one,  *)
(* goes back into IndexedDB; if that refuses, it alone is the queue.        *)
ReadFallback(o) ==
  /\ o.pc = "fallback" /\ Turn(o)
  /\ \/ Becomes(o, [o EXCEPT !.fb = fallback, !.pc = "read"]) /\ UNCHANGED <<page, history>>
     \/ Fault /\ Fails(o)                               \* unreadable
  /\ UNCHANGED <<idb, fallback, acked, serverVars>>

OnFallbackAlone(o) ==
  /\ history.faults > 0 /\ Loaded(o, o.fb.keys) /\ UNCHANGED page
  /\ history' = [history EXCEPT !.faults = @ - 1, !.misled = @ \/ (o.kind # "load" /\ o.fb.old)]

ReadStore(o) ==
  /\ o.pc = "read"
  /\ \/ ~o.fb.is /\ Loaded(o, idb) /\ UNCHANGED <<page, history>>
     \/ /\ o.fb.is /\ Becomes(o, [o EXCEPT !.stored = idb \cup o.fb.keys, !.pc = "merge"])
        /\ UNCHANGED <<page, history>>
     \/ o.fb.is /\ OnFallbackAlone(o)
     \/ ~o.fb.is /\ Fault /\ Fails(o)
  /\ UNCHANGED <<idb, fallback, acked, serverVars>>

MergeFallback(o) ==
  /\ o.pc = "merge"
  /\ \/ idb' = o.stored /\ Goto(o, "clean") /\ UNCHANGED <<page, history>>
     \/ OnFallbackAlone(o) /\ UNCHANGED idb
  /\ UNCHANGED <<fallback, acked, serverVars>>

(* A refusal is swallowed: the fallback stays and the operation goes on.    *)
RemoveFallback(o) ==
  /\ o.pc \in {"clean", "drop"}
  /\ \/ fallback' = NoFallback /\ UNCHANGED history
     \/ fallback.is /\ Fault /\ fallback' = [fallback EXCEPT !.old = TRUE]
  /\ IF o.pc = "clean" THEN Loaded(o, o.stored) ELSE Goto(o, "end")
  /\ UNCHANGED <<idb, acked, page, serverVars>>

(* (Variant: an append writes its scan over what the store holds.)          *)
ChangedOnly(o) == IF o.kind = "append" THEN o.keys ELSE o.stored \ o.keys
Changed(o)     == IF o.kind = "append" THEN o.stored \cup o.keys ELSE o.stored \ o.keys

(* persistWarehouseQueue; localStorage may be full.                         *)
Crossed == \E q \in ops : q.kind = "load" /\ q.fb.is /\ q.pc \in {"read", "merge", "clean"}
Wrote(n) == /\ n <= history.faults
            /\ history' = [history EXCEPT !.faults = @ - n, !.raced = @ \/ Crossed]

PersistQueue(o) ==
  /\ o.pc = "persist"
  /\ \/ idb' = Changed(o) /\ Goto(o, "drop") /\ Wrote(0) /\ UNCHANGED <<fallback, page>>
     \/ /\ fallback' = [is |-> TRUE, keys |-> Changed(o), old |-> FALSE]
        /\ Goto(o, "end") /\ Wrote(1) /\ UNCHANGED <<idb, page>>
     \/ Fault /\ Fails(o) /\ UNCHANGED <<idb, fallback>>
  /\ UNCHANGED <<acked, serverVars>>

EndOp(o) ==
  /\ o.pc = "end"
  /\ ops' = ops \ {o}
  /\ page' = CASE o.kind # "load" -> [page EXCEPT !.pending = Changed(o)]
               [] ~Heard(o)       -> page
               [] OTHER           -> [page EXCEPT !.pending = o.stored, !.loaded = TRUE]
  /\ acked' = IF o.kind = "append" THEN acked \cup o.keys ELSE acked
  /\ UNCHANGED <<idb, fallback, history, serverVars>>

-----------------------------------------------------------------------------
(* RfPage.                                                                  *)
SubmitScan ==
  /\ page.loaded /\ ~page.error /\ history.next \in Scan
  /\ Enqueue("append", {history.next})
  /\ history' = [history EXCEPT !.next = @ + 1]
  /\ UNCHANGED <<idb, fallback, acked, page, serverVars>>

(* The queue of the page.  Bound: one removal waits at a time.              *)
SyncPending ==
  /\ page.confirmed = <<>> /\ ~page.error /\ ~page.syncing /\ page.pending # {}
  /\ page' = [page EXCEPT !.syncing = TRUE]
  /\ syncs' = syncs \cup {[todo |-> page.pending, now |-> 0, pc |-> "ingest", saw |-> 0,
                           ok |-> FALSE, confirmed |-> {}, page |-> page.id]}
  /\ UNCHANGED <<idb, fallback, acked, ops, row, session, history>>

RemoveConfirmed ==
  /\ page.confirmed # <<>> /\ Enqueue("remove", Head(page.confirmed))
  /\ page' = [page EXCEPT !.confirmed = Tail(@)]
  /\ UNCHANGED <<idb, fallback, acked, history, serverVars>>

ReloadPage ==
  /\ Fault
  /\ page' = NewPage(page.id + 1, page.visit + 1) /\ ops' = {LoadPage(page.visit + 1)}
  /\ UNCHANGED <<idb, fallback, acked, serverVars>>

(* Another warehouse and back to this one: what is under way goes on.       *)
Revisit ==
  /\ Fault
  /\ page' = [page EXCEPT !.visit = @ + 1, !.pending = {}, !.loaded = FALSE, !.error = FALSE]
  /\ ops' = ops \cup {LoadPage(page.visit + 1)}
  /\ UNCHANGED <<idb, fallback, acked, serverVars>>

(* The request fails or times out for the page; the server may go on.       *)
SyncFails ==
  /\ page.syncing /\ Fault
  /\ page' = [page EXCEPT !.syncing = FALSE, !.id = @ + 1]
  /\ UNCHANGED <<idb, fallback, acked, ops, serverVars>>

deviceVars == <<idb, fallback, acked, ops>>

-----------------------------------------------------------------------------
(* syncOfflineQueue and ingestOfflineScan, scan by scan, the newest first.  *)
Update(r, q) == syncs' = (syncs \ {r}) \cup {q}
NextScan(r, done) == [r EXCEPT !.pc = "ingest", !.now = 0, !.confirmed = @ \cup done]
Newest(S) == {k \in S : \A j \in S : j <= k}

(* INSERT ... ON CONFLICT DO NOTHING.  (Variant: what is not SYNCED yet is  *)
(* tried once more.)                                                        *)
InsertedUnlessSynced(k) == row[k] # "SYNCED"
Inserted(k)             == row[k] = "NONE"

Ingest(r) ==
  /\ r.pc = "ingest"
  /\ \E k \in Newest(r.todo) : LET q == [r EXCEPT !.todo = @ \ {k}] IN
     \/ /\ Inserted(k)
        /\ row' = [row EXCEPT ![k] = "QUEUED"]
        /\ \/ Update(r, [q EXCEPT !.pc = "read", !.now = k])
           \/ Update(r, NextScan(q, {}))            \* it names no session
     \/ /\ ~Inserted(k)
        /\ row' = [row EXCEPT ![k] = IF @ = "SYNCED" THEN "SYNCED" ELSE "DUPLICATE"]
        /\ Update(r, NextScan(q, {k}))
  /\ UNCHANGED <<session, page, history, deviceVars>>

OpenSteps == {i \in DOMAIN session.steps : session.steps[i].open}

(* scan: session and step are read without a lock.                          *)
ScanRead(r) ==
  /\ r.pc = "read"
  /\ IF session.st # "ACTIVE" \/ OpenSteps = {}
     THEN Update(r, [r EXCEPT !.pc = "record", !.ok = FALSE])
     ELSE \E i \in OpenSteps : Update(r, [r EXCEPT !.pc = "commit", !.saw = i])
  /\ UNCHANGED <<row, session, page, history, deviceVars>>

(* The last step, a quantity, takes any value.                              *)
IsExpected(i, k) == LET n == session.steps[i].n IN history.code[k] = n \/ n = NumSteps
StepDone(i) == [session.steps EXCEPT ![i].open = FALSE]

ScanCommit(r) ==
  LET k == r.now  i == r.saw  n == session.steps[i].n IN
  /\ r.pc = "commit"
  /\ Update(r, [r EXCEPT !.pc = "record", !.ok = IsExpected(i, k)])
  /\ IF IsExpected(i, k)
     THEN /\ session' = IF n < NumSteps
                        THEN [session EXCEPT !.steps = Append(StepDone(i), [n |-> n + 1, open |-> TRUE])]
                        ELSE [st |-> "COMPLETED", steps |-> StepDone(i)]
          /\ history' = [history EXCEPT !.applied[k] = @ + 1]
     ELSE UNCHANGED <<session, history>>
  /\ UNCHANGED <<row, page, deviceVars>>

(* The transaction conflicts, or the task refuses its completion.           *)
ScanRefused(r) ==
  /\ r.pc = "commit" /\ Fault
  /\ Update(r, [r EXCEPT !.pc = "record", !.ok = FALSE])
  /\ UNCHANGED <<row, session, page, deviceVars>>

Record(r) ==
  LET k == r.now IN
  /\ r.pc = "record"
  /\ row' = [row EXCEPT ![k] = IF r.ok THEN "SYNCED" ELSE "FAILED"]
  /\ Update(r, NextScan(r, IF r.ok THEN {k} ELSE {}))
  /\ UNCHANGED <<session, page, history, deviceVars>>

Respond(r) ==
  /\ r.pc = "ingest" /\ r.todo = {}
  /\ syncs' = syncs \ {r}
  /\ page' = IF page.syncing /\ page.id = r.page
             THEN [page EXCEPT !.syncing = FALSE, !.confirmed = Append(@, r.confirmed)] ELSE page
  /\ UNCHANGED <<row, session, history, deviceVars>>

ServerDies(r) ==
  /\ Fault
  /\ syncs' = syncs \ {r}
  /\ page' = IF page.id = r.page THEN [page EXCEPT !.syncing = FALSE] ELSE page
  /\ UNCHANGED <<row, session, deviceVars>>

(* cancelSession: by id, whatever the status.                               *)
CancelSession ==
  /\ Fault
  /\ session' = [session EXCEPT !.st = "CANCELLED"]
  /\ UNCHANGED <<syncs, row, page, deviceVars>>

OfflineNext ==
  \/ \E o \in ops : \/ ReadFallback(o) \/ ReadStore(o) \/ MergeFallback(o) \/ RemoveFallback(o)
                    \/ PersistQueue(o) \/ EndOp(o)
  \/ SubmitScan \/ SyncPending \/ RemoveConfirmed \/ ReloadPage \/ Revisit \/ SyncFails
  \/ \E r \in syncs : \/ Ingest(r) \/ ScanRead(r) \/ ScanCommit(r) \/ ScanRefused(r) \/ Record(r)
                      \/ Respond(r) \/ ServerDies(r)
  \/ CancelSession

OfflineSpec == OfflineInit /\ [][OfflineNext]_offlineVars

-----------------------------------------------------------------------------
Unanswered == {k \in acked : row[k] = "NONE"}

(* A scan shown as saved stays in the store the next load will use, open or *)
(* not, until the server has a row for it.  After the refused removal of a  *)
(* fallback that takes an IndexedDB that opens; and nothing is said once an *)
(* operation worked on such a fallback alone, or wrote beside a load.       *)
KeptOnDevice ==
  \/ history.misled \/ history.raced
  \/ /\ Unanswered \subseteq idb \cup fallback.keys
     /\ fallback.is /\ ~fallback.old => Unanswered \subseteq fallback.keys

(* "Never discard an unacknowledged operation": no fallback left behind     *)
(* costs a scan saved after it.                                             *)
SurvivesOldFallback == history.raced \/ Unanswered \subseteq idb \cup fallback.keys

(* However often a scan is sent, it completes one step at most.             *)
AppliedOnce == \A k \in Scan : history.applied[k] <= 1
=============================================================================
