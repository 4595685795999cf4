------------------------------ MODULE MCOutbox ------------------------------
(* Instances of Outbox for TLC.                                             *)
EXTENDS Outbox, TLC

WorkerSymmetry == Permutations(Worker)
=============================================================================
