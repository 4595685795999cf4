---------------------------- MODULE EnterpriseOps ----------------------------
(***************************************************************************)
(* EnterpriseOpsService: commands for automation devices, the domain events *)
(* every operation records with their webhook delivery attempts, value      *)
(* added tasks, cross-dock plans and the yard.  Each operation is one       *)
(* transaction; only claim and complete of a command can meet in the middle.*)
(***************************************************************************)
EXTENDS Requests

CONSTANTS Command,    \* correlation ids of automation commands
          Job,        \* VAS tasks and cross-dock plans
          Visit,      \* dock appointments
          Trailer, Door

VARIABLES command,    \* automation_commands: status, attempts and, as a
                      \* history, the failures written
          delivery,   \* domain_events by event key: the highest
                      \* attempt_number queued for the subscription
          subscribed, \* is the webhook subscription ACTIVE?
          job,        \* vas_tasks.status or cross_dock_plans.status
          visit,      \* dock_appointments: status, door and trailer
          trailer     \* yard_trailers: status and door

enterpriseVars == <<command, delivery, subscribed, job, visit, trailer>>

CommandStatus == {"QUEUED", "CLAIMED", "SENT", "COMPLETED", "FAILED", "DEAD_LETTER", "CANCELLED"}
NoCommand == [st |-> "NONE", attempts |-> 0, failures |-> 0]
NoDoor    == "none"
NoTrailer == "none"

(* An event key is made of the type, the resource and the payload; the      *)
(* payload of an answer of a device is its result or its error message.     *)
EventKey == (Command \cup Job \cup Visit \cup Trailer) \X {"queued", "completed", "failed", "created", "scheduled", "checked_in"}

EnterpriseTypeOK ==
  /\ command \in [Command -> [st : CommandStatus \cup {"NONE"}, attempts : Nat, failures : Nat]]
  /\ DOMAIN delivery \subseteq EventKey /\ \A k \in DOMAIN delivery : delivery[k] \in Nat
  /\ subscribed \in BOOLEAN
  /\ job \in [Job -> {"NONE", "OPEN", "DONE"}]
  /\ visit \in [Visit -> [st : {"NONE", "SCHEDULED", "CHECKED_IN", "DOCK_ASSIGNED"},
                          door : Door \cup {NoDoor}, trailer : Trailer \cup {NoTrailer}]]
  /\ trailer \in [Trailer -> [st : {"NONE", "CHECKED_IN", "DOCKED"}, door : Door \cup {NoDoor}]]

EnterpriseInit ==
  /\ command = [m \in Command |-> NoCommand]
  /\ delivery = <<>> /\ subscribed = TRUE
  /\ job = [j \in Job |-> "NONE"]
  /\ visit = [v \in Visit |-> [st |-> "NONE", door |-> NoDoor, trailer |-> NoTrailer]]
  /\ trailer = [t \in Trailer |-> [st |-> "NONE", door |-> NoDoor]]

-----------------------------------------------------------------------------
(* recordDomainEventInTransaction: an event of a known key is recorded over *)
(* the old one, and its first delivery may exist already.                   *)
EnqueueFirst(n) == IF subscribed /\ n = 0 THEN 1 ELSE n
KnownAttempt(k) == IF k \in DOMAIN delivery THEN delivery[k] ELSE 0
Record(x, kind) ==
  delivery' = [k \in DOMAIN delivery \cup {<<x, kind>>} |->
                 IF k = <<x, kind>> THEN EnqueueFirst(KnownAttempt(k)) ELSE delivery[k]]

SetSubscription ==
  /\ Once("subscribe") /\ subscribed' = ~subscribed
  /\ UNCHANGED <<command, delivery, job, visit, trailer>>

(* replayDomainEvent queues the number after the highest it reads; of two   *)
(* replays that read the same one the second inserts nothing.               *)
BeginReplay(c) ==
  /\ \E k \in DOMAIN delivery :
       subscribed /\ Begin(c, [op |-> "replay", pc |-> "commit", key |-> k, saw |-> delivery[k]])
  /\ UNCHANGED enterpriseVars

Replay(c) ==
  /\ At(c, "replay", "commit")
  /\ delivery' = [delivery EXCEPT ![reqs[c].key] = Max({@, reqs[c].saw + 1})]
  /\ Finish(c)
  /\ UNCHANGED <<command, subscribed, job, visit, trailer>>

-----------------------------------------------------------------------------
(* Variant: a command that is sent again starts again.                      *)
RequeuedAnew(r) == [r EXCEPT !.st = "QUEUED"]

(* The upsert on the correlation id leaves the status of a known command.   *)
Requeued(r) == IF r.st = "NONE" THEN [r EXCEPT !.st = "QUEUED"] ELSE r

EnqueueCommand ==
  /\ Once("command")
  /\ \E m \in Command : command' = [command EXCEPT ![m] = Requeued(@)] /\ Record(m, "queued")
  /\ UNCHANGED <<subscribed, job, visit, trailer>>

(* claimNextAutomationCommand; priority, not_before_at and the device that  *)
(* asks decide which of the claimable commands it is.                       *)
ClaimNext ==
  /\ Once("claim")
  /\ \E m \in Command :
       /\ command[m].st \in {"QUEUED", "FAILED"}
       /\ command' = [command EXCEPT ![m].st = "CLAIMED", ![m].attempts = @ + 1]
  /\ UNCHANGED <<delivery, subscribed, job, visit, trailer>>

(* nextAutomationCommandStatus, for the answers of a device.                *)
Answers == {"CLAIMED", "SENT"} \X {"COMPLETED", "FAILED"} \cup {<<"QUEUED", "FAILED">>}

(* completeAutomationCommand reads the status without a lock and writes the *)
(* next one by id.                                                          *)
BeginAnswer(c) ==
  /\ \E m \in Command, to \in {"COMPLETED", "FAILED"} :
       /\ <<command[m].st, to>> \in Answers
       /\ Begin(c, [op |-> "answer", pc |-> "commit", command |-> m, to |-> to])
  /\ UNCHANGED enterpriseVars

Answered(k, to) ==
  [st |-> to, attempts |-> k.attempts, failures |-> IF to = "FAILED" THEN k.failures + 1 ELSE k.failures]

CompleteCommand(c) ==
  LET r == reqs[c] IN
  /\ At(c, "answer", "commit")
  /\ command' = [command EXCEPT ![r.command] = Answered(@, r.to)]
  /\ Record(r.command, IF r.to = "FAILED" THEN "failed" ELSE "completed")
  /\ Finish(c)
  /\ UNCHANGED <<subscribed, job, visit, trailer>>

-----------------------------------------------------------------------------
(* createVasTask and createCrossDockPlan; confirmVasTask and                *)
(* releaseCrossDockPlan update the row only in its first status.            *)
CreateJob ==
  /\ Once("job")
  /\ \E j \in Job : job[j] = "NONE" /\ job' = [job EXCEPT ![j] = "OPEN"] /\ Record(j, "created")
  /\ UNCHANGED <<command, subscribed, visit, trailer>>

FinishJob ==
  /\ Once("job")
  /\ \E j \in Job : job[j] = "OPEN" /\ job' = [job EXCEPT ![j] = "DONE"] /\ Record(j, "completed")
  /\ UNCHANGED <<command, subscribed, visit, trailer>>

-----------------------------------------------------------------------------
(* The yard: scheduleDockAppointment keeps the status of a known one.       *)
ScheduleAppointment ==
  /\ Once("yard")
  /\ \E v \in Visit, d \in Door \cup {NoDoor} :
       /\ visit' = [visit EXCEPT ![v].st = IF @ = "NONE" THEN "SCHEDULED" ELSE @, ![v].door = d]
       /\ Record(v, "scheduled")
  /\ UNCHANGED <<command, subscribed, job, trailer>>

(* checkInTrailer, with or without an appointment, whatever its status: a   *)
(* door given replaces that of the trailer, but not that of the appointment.*)
CheckInTrailer ==
  /\ Once("yard")
  /\ \E t \in Trailer, d \in Door \cup {NoDoor}, V \in {{}} \cup {{v} : v \in Visit} :
       /\ trailer' = [trailer EXCEPT ![t].st = "CHECKED_IN", ![t].door = IF d = NoDoor THEN @ ELSE d]
       /\ \A v \in V : visit[v].st # "NONE"
       /\ visit' = [v \in Visit |->
             IF v \in V THEN [st |-> "CHECKED_IN", trailer |-> t,
                              door |-> IF visit[v].door = NoDoor THEN d ELSE visit[v].door]
             ELSE visit[v]]
       /\ Record(t, "checked_in")
  /\ UNCHANGED <<command, subscribed, job>>

(* assignDockDoor asks neither whether the door is free nor for a status.   *)
AssignDockDoor ==
  /\ Once("yard")
  /\ \E v \in Visit, d \in Door, T \in {{}} \cup {{t} : t \in Trailer} :
       /\ visit[v].st # "NONE" /\ \A t \in T : trailer[t].st # "NONE"
       /\ visit' = [visit EXCEPT ![v].st = "DOCK_ASSIGNED", ![v].door = d,
                                 ![v].trailer = IF T = {} THEN @ ELSE CHOOSE t \in T : TRUE]
       /\ trailer' = [t \in Trailer |-> IF t \in T THEN [st |-> "DOCKED", door |-> d] ELSE trailer[t]]
  /\ UNCHANGED <<command, delivery, subscribed, job>>

EnterpriseStep ==
  \/ SetSubscription \/ EnqueueCommand \/ ClaimNext \/ CreateJob \/ FinishJob
  \/ ScheduleAppointment \/ CheckInTrailer \/ AssignDockDoor
  \/ \E c \in Client : BeginReplay(c) \/ Replay(c) \/ BeginAnswer(c) \/ CompleteCommand(c)

EnterpriseNext == EnterpriseStep \/ \E c \in Client : Abort(c) /\ UNCHANGED enterpriseVars
EnterpriseSpec == ReqInit /\ EnterpriseInit /\ [][EnterpriseNext]_<<reqVars, enterpriseVars>>

-----------------------------------------------------------------------------
(* A command is claimed again only after an answer that it failed, however  *)
(* often it is queued again and in whatever order answers come.             *)
ClaimsFollowFailures == \A m \in Command : command[m].attempts <= command[m].failures + 1
=============================================================================
