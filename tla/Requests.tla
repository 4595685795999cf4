------------------------------ MODULE Requests ------------------------------
(***************************************************************************)
(* HTTP requests in progress, for the services that read rows without locks *)
(* and write them later.  A request is a record of what it has read so far; *)
(* what a service keeps of it is said in that service's module.             *)
(***************************************************************************)
EXTENDS Integers, Sequences, FiniteSets, SequencesExt, FiniteSetsExt

CONSTANTS Client,   \* requests that may be in progress at once
          Work      \* set of [mix, n]: which operations are considered
                    \* together, and the bound on how many are begun

VARIABLES reqs,     \* per client: its request
          left      \* one of Work, n counting down

reqVars == <<reqs, left>>
NoReq == [op |-> "none"]

ReqInit == reqs = [c \in Client |-> NoReq] /\ left \in Work

May(op) == op \in left.mix /\ left.n > 0
Spend   == left' = [left EXCEPT !.n = @ - 1]

Begin(c, r)   == reqs[c] = NoReq /\ May(r.op) /\ Spend /\ reqs' = [reqs EXCEPT ![c] = r]
Advance(c, r) == reqs' = [reqs EXCEPT ![c] = r] /\ UNCHANGED left
Finish(c)     == Advance(c, NoReq)
At(c, op, pc) == reqs[c].op = op /\ reqs[c].pc = pc

(* A request that is a single statement, or whose reads nothing can outdate. *)
Once(op) == May(op) /\ Spend /\ UNCHANGED reqs

(* A refusal, an error, a deadlock victim or the death of the process: an   *)
(* open transaction leaves nothing, a service without one what it wrote.    *)
Abort(c) == reqs[c] # NoReq /\ Finish(c)
=============================================================================
