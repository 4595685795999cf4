------------------------------ MODULE Serials -------------------------------
(***************************************************************************)
(* Serial numbers of one SKU that requires them: captured by receive, moved *)
(* on by confirmPick, pack and ship, and edited by hand (TraceabilityService)*)
(* No operation locks a serial number: what keeps two picks off one serial  *)
(* is the row lock on the quant, which holds the goods it stands for.       *)
(* An order has one line here; the code treats every line by itself.        *)
(***************************************************************************)
EXTENDS Requests

CONSTANTS Serial, SerialOrder, Bin,   \* Bin: the stock quants of the SKU
          Needed                      \* ordered_quantity of every line

ASSUME SerialConstants == /\ IsFiniteSet(Serial) /\ Needed \in Nat
                          /\ "none" \notin SerialOrder \cup Bin

VARIABLES serial,     \* serial_numbers: status, line and quant, or NONE
          pickst,     \* per order: its fulfillment status
          taken,      \* per order: picked_quantity of its line
          scanned,    \* history: orders a scanner picked for
          misnamed    \* history: a serial was named that the goods do not bear

serialVars == <<serial, pickst, taken, scanned, misnamed>>

(* AVAILABLE is also RESERVED, HELD every status from which nothing leads.  *)
SerialStatus == {"EXPECTED", "AVAILABLE", "PICKED", "PACKED", "SHIPPED", "HELD"}
NoOrder == "none"
NoBin   == "none"

SerialsTypeOK ==
  /\ serial \in [Serial -> [st : SerialStatus \cup {"NONE"}, order : SerialOrder \cup {NoOrder},
                            bin : Bin \cup {NoBin}]]
  /\ pickst \in [SerialOrder -> {"PICKING", "PICKED", "PACKED", "SHIPPED"}]
  /\ taken \in [SerialOrder -> 0..Needed]
  /\ scanned \subseteq SerialOrder /\ misnamed \in BOOLEAN

SerialsInit ==
  /\ serial = [s \in Serial |-> [st |-> "NONE", order |-> NoOrder, bin |-> NoBin]]
  /\ pickst = [o \in SerialOrder |-> "PICKING"]
  /\ taken = [o \in SerialOrder |-> 0]
  /\ scanned = {} /\ misnamed = FALSE

SetSerials(S, row(_)) == [s \in Serial |-> IF s \in S THEN row(s) ELSE serial[s]]
Serialled(o, st) == {s \in Serial : serial[s].st = st /\ serial[s].order = o}
Holding(ops) == {c \in Client : reqs[c].op \in ops}

-----------------------------------------------------------------------------
(* createSerialNumber inserts an unknown serial, updateSerialNumber sets any *)
(* status whatever the old one was.                                         *)
CreateSerial ==
  /\ Once("serialNew")
  /\ \E s \in Serial, b \in Bin \cup {NoBin}, st \in {"EXPECTED", "AVAILABLE"} :
       /\ serial[s].st = "NONE"
       /\ serial' = SetSerials({s}, LAMBDA x : [st |-> st, order |-> NoOrder, bin |-> b])
  /\ UNCHANGED <<pickst, taken, scanned, misnamed>>

UpdateSerial ==
  /\ Once("serialEdit")
  /\ \E s \in Serial, st \in SerialStatus :
       /\ serial[s].st # "NONE"
       /\ serial' = [serial EXCEPT ![s].st = st]
  /\ misnamed' = TRUE
  /\ UNCHANGED <<pickst, taken, scanned>>

-----------------------------------------------------------------------------
(* recordReceiveSerials: a serial is new or EXPECTED.  The lock on the stock *)
(* identity serializes receipts into one quant only.                        *)
BeginSerialReceive(c) ==
  \E s \in Serial, b \in Bin, st \in {"AVAILABLE", "HELD"} :
    LET others == Holding({"serialReceive"}) IN
    /\ serial[s].st \in {"NONE", "EXPECTED"}
    /\ \A d \in Holding({"serialReceive", "serialPick"}) : reqs[d].bin # b
    /\ Begin(c, [op |-> "serialReceive", pc |-> "commit", serials |-> {s}, bin |-> b,
                 st |-> st, known |-> serial[s].st # "NONE"])
    /\ misnamed' = (misnamed \/ \E d \in others : s \in reqs[d].serials)
    /\ UNCHANGED <<serial, pickst, taken, scanned>>

RecordReceiveSerials(c) ==
  LET r == reqs[c] IN
  /\ At(c, "serialReceive", "commit")
  /\ r.known \/ \A s \in r.serials : serial[s].st = "NONE"
  /\ serial' = SetSerials(r.serials, LAMBDA s : [st |-> r.st, order |-> serial[s].order, bin |-> r.bin])
  /\ Finish(c)
  /\ UNCHANGED <<pickst, taken, scanned, misnamed>>

-----------------------------------------------------------------------------
(* Row locks held to the commit: on the order, and of a pick on its quant.  *)
(* (Variant: a pick does not lock the quant.)                               *)
QuantFreeAlways(b) == TRUE
QuantFree(b) == \A c \in Holding({"serialReceive", "serialPick"}) : reqs[c].bin # b
SerialOrderFree(o) == \A c \in Holding({"serialPick", "serialPack"}) : reqs[c].order # o

(* confirmPick: the request names one serial for each piece.                *)
BeginSerialPick(c) ==
  \E o \in SerialOrder, b \in Bin, S \in SUBSET Serial :
    /\ pickst[o] = "PICKING" /\ S # {} /\ taken[o] + Cardinality(S) <= Needed
    /\ SerialOrderFree(o) /\ QuantFree(b)
    /\ \A s \in S : serial[s].st = "AVAILABLE" /\ serial[s].order \in {NoOrder, o}
    /\ Begin(c, [op |-> "serialPick", pc |-> "commit", order |-> o, bin |-> b, serials |-> S,
                 saw |-> taken[o]])
    /\ misnamed' = (misnamed \/ \E s \in S : serial[s].bin # b)
    /\ UNCHANGED <<serial, pickst, taken, scanned>>

CommitSerialPick(c) ==
  LET r == reqs[c]  n == r.saw + Cardinality(r.serials) IN
  /\ At(c, "serialPick", "commit")
  /\ serial' = SetSerials(r.serials, LAMBDA s : [st |-> "PICKED", order |-> r.order, bin |-> NoBin])
  /\ taken' = [taken EXCEPT ![r.order] = n]
  /\ pickst' = IF n = Needed THEN [pickst EXCEPT ![r.order] = "PICKED"] ELSE pickst
  /\ Finish(c)
  /\ UNCHANGED <<scanned, misnamed>>

(* completePickTask of a scanner takes a piece and asks for no serial; only *)
(* the status of an order it finds picked (counting the piece twice) waits  *)
(* for the order lock.                                                      *)
ScannerPick ==
  /\ Once("serialScan")
  /\ \E o \in SerialOrder, b \in Bin :
       /\ taken[o] < Needed /\ QuantFree(b)
       /\ taken' = [taken EXCEPT ![o] = @ + 1]
       /\ scanned' = scanned \cup {o}
       /\ IF taken[o] + 2 >= Needed
          THEN SerialOrderFree(o) /\ pickst' = [pickst EXCEPT ![o] = "PICKED"]
          ELSE UNCHANGED pickst
  /\ UNCHANGED <<serial, misnamed>>

-----------------------------------------------------------------------------
(* transitionOrderSerials, for pack and ship: named or found, there must be *)
(* exactly as many serials of the line as were picked.                      *)
(* (Variant: at least one is enough.)                                       *)
SerialStep == [PICKED |-> "PACKED", PACKED |-> "SHIPPED"]
EnoughSerials(S, o) == S # {}
ExactSerials(S, o)  == Cardinality(S) = taken[o]

BeginSerialTransition(c) ==
  \E o \in SerialOrder :
    /\ pickst[o] \in DOMAIN SerialStep /\ SerialOrderFree(o)
    /\ \E S \in SUBSET Serialled(o, pickst[o]) :
         /\ ExactSerials(S, o)
         /\ Begin(c, [op |-> "serialPack", pc |-> "commit", order |-> o, serials |-> S])
    /\ UNCHANGED serialVars

TransitionOrderSerials(c) ==
  LET r == reqs[c]  to == SerialStep[pickst[r.order]] IN
  /\ At(c, "serialPack", "commit")
  /\ serial' = SetSerials(r.serials, LAMBDA s : [serial[s] EXCEPT !.st = to, !.order = r.order])
  /\ pickst' = [pickst EXCEPT ![r.order] = to]
  /\ Finish(c)
  /\ UNCHANGED <<taken, scanned, misnamed>>

SerialsStep ==
  \/ CreateSerial \/ UpdateSerial \/ ScannerPick
  \/ \E c \in Client : \/ BeginSerialReceive(c) \/ RecordReceiveSerials(c) \/ BeginSerialPick(c)
                       \/ CommitSerialPick(c) \/ BeginSerialTransition(c) \/ TransitionOrderSerials(c)

SerialsNext == SerialsStep \/ \E c \in Client : Abort(c) /\ UNCHANGED serialVars
SerialsSpec == ReqInit /\ SerialsInit /\ [][SerialsNext]_<<reqVars, serialVars>>

-----------------------------------------------------------------------------
(* As long as every pick names serials of the quant it takes from and none  *)
(* is edited, a line picked at the desk has one serial for each piece, and  *)
(* they go with the order: a shipped order shipped them all.                *)
OneSerialPerPiece ==
  ~misnamed => \A o \in SerialOrder \ scanned :
    /\ Cardinality(Serialled(o, "PICKED") \cup Serialled(o, "PACKED") \cup Serialled(o, "SHIPPED")) = taken[o]
    /\ pickst[o] \in {"PACKED", "SHIPPED"} => Cardinality(Serialled(o, pickst[o])) = taken[o]
=============================================================================
