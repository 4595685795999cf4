------------------------------ MODULE MCQueues ------------------------------
(* The two queues that promise delivery, side by side for TLC: the outbox of *)
(* the server and the offline scans of a handheld share no state, so in a    *)
(* behaviour one of them runs and the other rests.                           *)
EXTENDS MCOutbox, MCScans

VARIABLE running

queuesVars == <<vars, offlineVars, running>>
QueuesInit == Init /\ OfflineInit /\ running \in {"outbox", "scans"}
QueuesNext ==
  /\ UNCHANGED running
  /\ \/ running = "outbox" /\ Next        /\ UNCHANGED offlineVars
     \/ running = "scans"  /\ OfflineNext /\ UNCHANGED vars

QueuesSpec == QueuesInit /\ [][QueuesNext]_queuesVars
=============================================================================
