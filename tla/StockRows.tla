----------------------------- MODULE StockRows ------------------------------
(***************************************************************************)
(* The stock tables that every operation on goods shares: stock_quants, the *)
(* stock_movements ledger and its idempotency keys, together with the       *)
(* transaction steps InventoryService, PutawayService, ReplenishmentService, *)
(* CycleCountsService and InboundService have in common.                    *)
(*                                                                          *)
(* One warehouse, one SKU without lots: a quant is identified by location   *)
(* and status.  A request reads without locks (Begin...), locks and re-reads *)
(* its source row (LockSource), takes the advisory identity lock of each    *)
(* row it adds to (LockIdentity) and commits.  Its writes touch only rows   *)
(* it has locked, so they become visible together, in the commit.           *)
(***************************************************************************)
EXTENDS Integers, Sequences, FiniteSets, SequencesExt, FiniteSetsExt

CONSTANTS
  Client,    \* concurrent requests
  Loc,       \* locations
  Key,       \* idempotency keys
  NoKey,     \* a request without one
  Amount,    \* quantities a request may name
  Start,     \* stock_quants at the beginning: Seq of quant rows
  NumRows,   \* bound: stock_quants ever created
  Mixes      \* which operations are considered together, and the bound on
             \* the requests ever begun: set of [mix, max]

None == "none"     \* a column or field that is null
QuantStatus == {"AVAILABLE", "RESERVED", "QUARANTINE", "DAMAGED", "BLOCKED"}
Place == [loc : Loc, st : QuantStatus]

VARIABLES
  quant,     \* stock_quants in creation order
  freeze,    \* active stock_freezes: [row, loc, sku], with 0, None and FALSE for
             \* a column that is null
  ledger,    \* what rebuildStockBalancesFromMovements returns per location
  keys,      \* movement type under each idempotency key already inserted
  applied,   \* history: movements ever committed under each key
  shipped,   \* history: pieces picked per location
  drift,     \* history: per location, what stale counts wrote beside the ledger
  txn,       \* per request: its transaction
  ops        \* [n, mix, max]: requests begun so far, and one of Mixes

stockVars == <<quant, ledger, keys, applied, shipped, drift, txn, ops>>

Row == DOMAIN quant
QuantRow == [loc : Loc, st : QuantStatus, qty : Nat, res : Nat, by : {"identity", "search"}]

(* The stock there is at the start is sound: a row holds what is reserved in *)
(* it, and goods of one identity lie in one row.                            *)
ASSUME StockConstants ==
  /\ None \notin Loc /\ NoKey \notin Key
  /\ Amount \subseteq Nat \ {0}
  /\ NumRows \in Nat
  /\ Start \in Seq(QuantRow)
  /\ \A r, s \in DOMAIN Start :
       /\ Start[r].res <= Start[r].qty
       /\ r # s /\ Start[r].loc = Start[s].loc /\ Start[r].st = Start[s].st
          => "search" \in {Start[r].by, Start[s].by}

(* puts: rows still to add to; into: identities locked, with the row found  *)
(* (0: to be created); doc: the task, demand, line or count of the request. *)
Idle == [op |-> "idle", pc |-> None, row |-> 0, n |-> 0, puts |-> <<>>, into |-> <<>>,
         key |-> NoKey, doc |-> 0, saw |-> 0, st |-> None]

PutSet == [loc : Loc, st : QuantStatus, n : Nat \ {0}, row : Nat]

StockTypeOK ==
  /\ quant \in Seq(QuantRow)
  /\ ledger \in [Loc -> Int]
  /\ \A k \in DOMAIN keys : k \in Key
  /\ applied \in [Key -> Nat] /\ shipped \in [Loc -> Nat] /\ drift \in [Loc -> Int]
  /\ \A c \in Client : /\ txn[c].pc \in {None, "source", "identity", "commit"}
                       /\ txn[c].row \in 0..Len(quant)
                       /\ \A i \in DOMAIN txn[c].into : txn[c].into[i] \in PutSet

Unreserved(l) ==
  MapThenSumSet(LAMBDA r : quant[r].qty - quant[r].res, {r \in Row : quant[r].loc = l})

StockInit ==
  /\ quant = Start
  /\ ledger = [l \in Loc |-> Unreserved(l)]
  /\ keys = [k \in {} |-> None]
  /\ applied = [k \in Key |-> 0]
  /\ shipped = [l \in Loc |-> 0]
  /\ drift = [l \in Loc |-> 0]
  /\ txn = [c \in Client |-> Idle]
  /\ \E m \in Mixes : ops = [n |-> 0, mix |-> m.mix, max |-> m.max]

-----------------------------------------------------------------------------
(* rebuildStockBalancesFromMovements: what a movement adds to a location.   *)
(* None is a location the movement does not name.                           *)
Transfer == {"MOVE", "PUTAWAY", "BLOCK", "UNBLOCK"}
Inward   == {"RECEIVE", "PUTAWAY", "UNBLOCK"}
Outward  == {"PICK", "PACK", "SHIP", "RESERVE", "BLOCK"}
Move(type, from, to, n, delta) ==
  [type |-> type, from |-> from, to |-> to, n |-> n, delta |-> delta]
Either(a, b) == IF a # None THEN a ELSE b
At(l, m, n) == IF l = m THEN n ELSE 0

ApplyDelta(m, l) ==
  LET both == m.type \in Transfer /\ m.from # None /\ m.to # None IN
  CASE both                                         -> At(l, m.to, m.n) - At(l, m.from, m.n)
    [] m.type = "ADJUST"                            -> At(l, Either(m.to, m.from), m.delta)
    [] ~both /\ m.type \in Inward /\ m.to # None    -> At(l, m.to, m.n)
    [] ~both /\ m.type \in Outward /\ m.from # None -> -At(l, m.from, m.n)
    [] OTHER                                        -> At(l, Either(m.to, m.from), m.n)

Posted(M) == [l \in Loc |-> ledger[l] + MapThenSumSet(LAMBDA i : ApplyDelta(M[i], l), DOMAIN M)]

-----------------------------------------------------------------------------
(* buildActiveStockFreezeWhere: one of the scopes, all its other columns null. *)
Frozen(r, l) ==
  \E f \in freeze :
     \/ f.row = 0 /\ f.loc \in {None, l}
     \/ f.row = r /\ f.row # 0 /\ f.loc = None /\ ~f.sku

HeldRows(c) == ({txn[c].row} \cup {txn[c].into[i].row : i \in DOMAIN txn[c].into}) \ {0}

(* The row locks and advisory locks a transaction has taken so far.         *)
Locks(c, r) == txn[c].pc \in {"identity", "commit"} /\ r \in HeldRows(c)
Free(c, r)  == \A d \in Client \ {c} : ~Locks(d, r)
HoldsIdentity(c, p) == \E i \in DOMAIN txn[c].into :
                          txn[c].into[i].loc = p.loc /\ txn[c].into[i].st = p.st

May(op) == op \in ops.mix /\ ops.n < ops.max
OneMore == [ops EXCEPT !.n = @ + 1]

(* A row counts as locked once its transaction is past LockSource; a request *)
(* that has only read it (pc = "source") holds nothing.                     *)
Begin(c, t) ==
  /\ txn[c] = Idle /\ May(t.op)
  /\ t.key = NoKey \/ t.key \notin DOMAIN keys
  /\ txn' = [txn EXCEPT ![c] = t]
  /\ ops' = OneMore
  /\ UNCHANGED <<quant, ledger, keys, applied, shipped, drift>>

Request(op, pc, r, n, puts, key, doc, saw) ==
  [op |-> op, pc |-> pc, row |-> r, n |-> n, puts |-> puts, into |-> <<>>,
   key |-> key, doc |-> doc, saw |-> saw, st |-> None]

Put(l, s, n) == [loc |-> l, st |-> s, n |-> n, row |-> 0]

(* The transaction fails: a check, a unique or CHECK constraint, a deadlock, *)
(* a lost connection.  Nothing of it is kept.                               *)
Rollback(c) ==
  /\ txn[c].op # "idle"
  /\ txn' = [txn EXCEPT ![c] = Idle]
  /\ UNCHANGED <<quant, ledger, keys, applied, shipped, drift, ops>>

(* SELECT ... FOR UPDATE of the source row and the check on what it holds.  *)
LockSource(c, allowed) ==
  /\ txn[c].pc = "source"
  /\ Free(c, txn[c].row)
  /\ allowed
  /\ txn' = [txn EXCEPT ![c].pc = IF txn[c].puts = <<>> THEN "commit" ELSE "identity"]
  /\ UNCHANGED <<quant, ledger, keys, applied, shipped, drift, ops>>

FindRow(p) == {r \in Row : quant[r].loc = p.loc /\ quant[r].st = p.st}
Found(p)   == IF FindRow(p) = {} THEN {0} ELSE FindRow(p)     \* findFirst

(* The rest of the search: take the row found and go on with the next one.  *)
AddTo(c, p) ==
  /\ txn[c].pc = "identity"
  /\ \E r \in Found(p) :
       /\ r # 0 => Free(c, r)
       /\ txn' = [txn EXCEPT ![c] =
                    [@ EXCEPT !.into = Append(txn[c].into, [p EXCEPT !.row = r]),
                              !.puts = Tail(txn[c].puts),
                              !.pc = IF Len(txn[c].puts) = 1 THEN "commit" ELSE "identity"]]
  /\ UNCHANGED <<quant, ledger, keys, applied, shipped, drift, ops>>

(* Variant: the search without the identity lock.                           *)
LockIdentityNot(c) ==
  /\ txn[c].pc = "identity" /\ txn[c].op # "replenish"
  /\ AddTo(c, Head(txn[c].puts))

(* lockStockQuantIdentity and the search for the row to add to; waiting for *)
(* that row's own lock is folded into the step.                             *)
LockIdentity(c) ==
  /\ txn[c].pc = "identity" /\ txn[c].op # "replenish"
  /\ \A d \in Client \ {c} : ~HoldsIdentity(d, Head(txn[c].puts))
  /\ AddTo(c, Head(txn[c].puts))

(* incrementOrCreateQuant: the row that was found, or a new one.            *)
PutInto(rows, p, by) ==
  IF p.row # 0 THEN [rows EXCEPT ![p.row].qty = @ + p.n]
  ELSE Append(rows, [loc |-> p.loc, st |-> p.st, qty |-> p.n, res |-> 0, by |-> by])

TakenFrom(rows, r, n) == IF r = 0 THEN rows ELSE [rows EXCEPT ![r].qty = @ - n]

(* The rows after the transaction.                                          *)
Written(c, by) ==
  FoldLeft(LAMBDA rows, p : PutInto(rows, p, by),
           TakenFrom(quant, txn[c].row, txn[c].n), txn[c].into)

(* The unique index of stock_movements on the key.                          *)
InsertKeyAnyway(k) == TRUE                   \* variant: no such index
InsertKey(k) == k = NoKey \/ k \notin DOMAIN keys

(* The commit: rows, movements (the unique index refuses a used key and the *)
(* CHECK a movement of nothing), and the locks are gone.                    *)
CommitStock(c, rows, M) ==
  LET k == txn[c].key IN
  /\ txn[c].pc = "commit"
  /\ Len(rows) <= NumRows
  /\ InsertKey(k)
  /\ \A i \in DOMAIN M : M[i].n > 0
  /\ quant' = rows
  /\ ledger' = Posted(M)
  /\ keys' = IF k = NoKey \/ M = <<>> THEN keys
             ELSE [x \in DOMAIN keys \cup {k} |-> IF x = k THEN M[1].type ELSE keys[x]]
  /\ applied' = IF k = NoKey THEN applied ELSE [applied EXCEPT ![k] = @ + 1]
  /\ txn' = [txn EXCEPT ![c] = Idle]
  /\ UNCHANGED <<shipped, ops>>

-----------------------------------------------------------------------------
(* The order side, as OrderStock proves it: it changes a row it has locked  *)
(* and re-read, in one step as seen from here.                              *)
Unlocked(r) == \A c \in Client : ~Locks(c, r)

OrderStep(r, type, n) ==
  /\ May("order") /\ Unlocked(r) /\ ~Frozen(r, quant[r].loc)
  /\ ledger' = Posted(<<Move(type, quant[r].loc, None, n, 0)>>)
  /\ ops' = OneMore
  /\ UNCHANGED <<keys, applied, drift, txn>>

ReserveStockQuant(r, n) ==
  /\ quant[r].st = "AVAILABLE" /\ n <= quant[r].qty - quant[r].res
  /\ quant' = [quant EXCEPT ![r].res = @ + n]
  /\ OrderStep(r, "RESERVE", n)
  /\ UNCHANGED shipped

(* Variant: gives back what was never reserved.                             *)
ReleaseStockQuantUnchecked(r, n) ==
  /\ quant' = [quant EXCEPT ![r].res = @ - n]
  /\ OrderStep(r, "CANCEL_RESERVATION", n)
  /\ UNCHANGED shipped

ReleaseStockQuant(r, n) ==
  /\ n <= quant[r].res
  /\ quant' = [quant EXCEPT ![r].res = @ - n]
  /\ OrderStep(r, "CANCEL_RESERVATION", n)
  /\ UNCHANGED shipped

PickStockQuant(r, n) ==
  /\ n <= quant[r].res
  /\ quant' = [quant EXCEPT ![r].qty = @ - n, ![r].res = @ - n]
  /\ shipped' = [shipped EXCEPT ![quant[r].loc] = @ + n]
  /\ OrderStep(r, "PICK", n)

OrderSide == \E r \in Row, n \in Amount :
               ReserveStockQuant(r, n) \/ ReleaseStockQuant(r, n) \/ PickStockQuant(r, n)

-----------------------------------------------------------------------------
(* What is promised is on the shelf, whatever moves, counts and reservations *)
(* do at once (decrementQuant, the CHECK that putaway leaves it to).        *)
ReservedWithinOnHand == \A r \in Row : quant[r].res <= quant[r].qty

(* Goods of one identity lie in one row, but for the rows that a replenishment *)
(* added without the identity lock (incrementOrCreateQuant).                *)
OneRowPerIdentity ==
  \A r, s \in Row : r # s /\ quant[r].loc = quant[s].loc /\ quant[r].st = quant[s].st
                    => "search" \in {quant[r].by, quant[s].by}

(* A key is applied once, although it is looked up before the transaction.  *)
KeyUsedOnce == \A k \in Key : applied[k] <= 1

(* The movements add up to the unreserved stock of every location, apart    *)
(* from each pick, which the rebuild deducts a second time after its        *)
(* reservation, and from counts approved after the stock had moved.         *)
LedgerExplainsStock == \A l \in Loc : ledger[l] + shipped[l] + drift[l] = Unreserved(l)
=============================================================================
