------------------------------- MODULE Waves --------------------------------
(***************************************************************************)
(* WavePickingService beside shipping: waves over orders, and the pick tasks *)
(* a release makes for reservations without one.  No operation locks a wave *)
(* before it checks it; a release row-locks the wave's orders one by one as *)
(* it updates them, and commits.  Carts and totes are assigned without any  *)
(* check and left out.                                                      *)
(***************************************************************************)
EXTENDS Shipping

CONSTANTS NumWaves, NumTasks   \* bounds

ASSUME WavesConstants == IsFiniteSet(Order)

VARIABLES wave,     \* pick_waves with pick_wave_orders and pick_wave_tasks
          task,     \* warehouse_tasks of type PICK
          active    \* orders whose reservation is ACTIVE

waveVars == <<wave, task, active>>
WaveStatus      == {"DRAFT", "PLANNED", "RELEASED", "PICKING", "COMPLETED"}
WaveOrderStatus == {"PLANNED", "RELEASED", "PICKED"}
PickStatus      == {"OPEN", "DONE", "CANCELLED"}

WavesTypeOK ==
  /\ \A w \in DOMAIN wave : /\ wave[w].st \in WaveStatus
                            /\ wave[w].orders \in Seq([order : Order, st : WaveOrderStatus])
                            /\ wave[w].links \subseteq DOMAIN task
  /\ \A t \in DOMAIN task : task[t].order \in Order /\ task[t].st \in PickStatus
  /\ active \subseteq Order

WavesInit == wave = <<>> /\ task = <<>> /\ active = Order

Open(o) == {t \in DOMAIN task : task[t].order = o /\ task[t].st = "OPEN"}
SetOrders(w, S, st) == [i \in DOMAIN wave[w].orders |->
  IF wave[w].orders[i].st \in S THEN [wave[w].orders[i] EXCEPT !.st = st] ELSE wave[w].orders[i]]

(* createWave: buildWavePlan takes orders that are ALLOCATED or PICKING; a  *)
(* filter or the limit may leave some of them out.                          *)
BeginWave(c) ==
  /\ Len(wave) < NumWaves
  /\ \E plan \in SetToAllKPermutations({o \in Order : order[o] \in {"ALLOCATED", "PICKING"}}) :
       Begin(c, [op |-> "wave", pc |-> "insert", plan |-> plan])
  /\ UNCHANGED <<shipVars, waveVars>>

InsertWave(c) ==
  LET plan == reqs[c].plan IN
  /\ At(c, "wave", "insert")
  /\ wave' = Append(wave, [st |-> IF plan = <<>> THEN "DRAFT" ELSE "PLANNED", links |-> {},
                           orders |-> [i \in DOMAIN plan |-> [order |-> plan[i], st |-> "PLANNED"]]])
  /\ Finish(c)
  /\ UNCHANGED <<shipVars, task, active>>

-----------------------------------------------------------------------------
(* releaseWave.  done: orders of the wave visited, in its sequence; found:  *)
(* open tasks to link; new: orders that get a task for their reservation;   *)
(* locks: outbound orders updated.  The tasks of an order are read before   *)
(* its rows are updated, which waits for another release of the wave.       *)
BeginRelease(c, w) ==
  /\ wave[w].st \in {"DRAFT", "PLANNED"}
  /\ Begin(c, [op |-> "release", pc |-> "read", wave |-> w, done |-> 0,
               found |-> {}, new |-> {}, locks |-> {}])
  /\ UNCHANGED <<shipVars, waveVars>>

ToVisit(r) == r.done < Len(wave[r.wave].orders)
NextOrder(r) == wave[r.wave].orders[r.done + 1].order

ReadTasks(c) ==
  LET r == reqs[c]  o == NextOrder(r) IN
  /\ At(c, "release", "read") /\ ToVisit(r)
  /\ \E createMissing \in BOOLEAN :
       Advance(c, [r EXCEPT !.pc = "update", !.found = @ \cup Open(o),
         !.new = IF createMissing /\ Open(o) = {} /\ o \in active THEN @ \cup {o} ELSE @])
  /\ UNCHANGED <<shipVars, waveVars>>

WaveOrderFree(w, i) ==
  \A c \in Client : reqs[c].op = "release" => reqs[c].wave # w \/ reqs[c].done < i

(* (Variant: whatever the status of the order is now.)                      *)
ToPickingAlways(o) == TRUE
ToPicking(o)       == order[o] \in {"ALLOCATED", "PICKING"}

UpdateOrder(c) ==
  LET r == reqs[c]  o == NextOrder(r) IN
  /\ At(c, "release", "update")
  /\ WaveOrderFree(r.wave, r.done + 1) /\ (ToPicking(o) => OrderFree(o))
  /\ Advance(c, [r EXCEPT !.pc = "read", !.done = @ + 1,
                          !.locks = IF ToPicking(o) THEN @ \cup {o} ELSE @])
  /\ UNCHANGED <<shipVars, waveVars>>

CommitRelease(c) ==
  LET r == reqs[c]  w == r.wave
      made == SetToSeq(r.new)
      all  == task \o [i \in DOMAIN made |-> [order |-> made[i], st |-> "OPEN"]]
  IN /\ At(c, "release", "read") /\ ~ToVisit(r) /\ Len(all) <= NumTasks
     /\ task' = all
     /\ wave' = [wave EXCEPT ![w].st = "RELEASED",
                             ![w].orders = SetOrders(w, WaveOrderStatus, "RELEASED"),
                             ![w].links = @ \cup r.found \cup (Len(task) + 1 .. Len(all))]
     /\ order' = [o \in Order |-> IF o \in r.locks THEN "PICKING" ELSE order[o]]
     /\ Finish(c)
     /\ UNCHANGED <<picked, ship, pack, label, active>>

(* completeWave.                                                            *)
BeginComplete(c, w) ==
  /\ wave[w].st \in {"RELEASED", "PICKING"}
  /\ \A t \in wave[w].links : task[t].st \in {"DONE", "CANCELLED"}
  /\ Begin(c, [op |-> "complete", pc |-> "commit", wave |-> w])
  /\ UNCHANGED <<shipVars, waveVars>>

CommitComplete(c) ==
  LET w == reqs[c].wave IN
  /\ At(c, "complete", "commit")
  /\ wave' = [wave EXCEPT ![w].st = "COMPLETED",
                          ![w].orders = SetOrders(w, {"RELEASED"}, "PICKED")]
  /\ Finish(c)
  /\ UNCHANGED <<shipVars, task, active>>

(* A wave's task is confirmed, or cancelled with its reservation kept.      *)
EndTask(t) ==
  LET o == task[t].order IN
  /\ Once("task") /\ task[t].st = "OPEN"
  /\ \/ /\ task' = [task EXCEPT ![t].st = "DONE"]
        /\ o \in active /\ active' = active \ {o}
        /\ \E l \in Line : Picks(o, l, Ordered)
     \/ /\ task' = [task EXCEPT ![t].st = "CANCELLED"]
        /\ UNCHANGED <<active, picked, order>>
  /\ UNCHANGED <<ship, pack, label, wave>>

WavesStep ==
  \/ \E c \in Client : \/ BeginWave(c) \/ InsertWave(c) \/ ReadTasks(c) \/ UpdateOrder(c)
                       \/ CommitRelease(c) \/ CommitComplete(c)
  \/ \E c \in Client, w \in DOMAIN wave : BeginRelease(c, w) \/ BeginComplete(c, w)
  \/ \E t \in DOMAIN task : EndTask(t)

WavesNext == \/ ShippingStep /\ UNCHANGED waveVars
             \/ WavesStep
             \/ \E c \in Client : Abort(c) /\ UNCHANGED <<shipVars, waveVars>>
WavesSpec == ReqInit /\ ShippingInit /\ WavesInit /\ [][WavesNext]_<<reqVars, shipVars, waveVars>>

-----------------------------------------------------------------------------
(* A wave that was planned when its orders were free for picking never takes *)
(* an order back that was picked, packed or shipped before its commit.      *)
WaveNeverReopens ==
  [][\A o \in Order : order[o] \in {"PICKED", "PACKING", "PACKED", "SHIPPED"} => order'[o] # "PICKING"]_order
=============================================================================
