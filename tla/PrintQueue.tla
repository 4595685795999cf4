----------------------------- MODULE PrintQueue -----------------------------
(***************************************************************************)
(* The runtime print queue: wms_print_jobs and its handlers in LabelsService, *)
(* and the print agents (print-agent/agent.mjs) that claim jobs over HTTP,  *)
(* send them to a printer and report.  A result report is a call with a life *)
(* of its own: the agent may stop waiting for it (15 s) or crash, and the   *)
(* server still process it later.  Every statement of the server is atomic, *)
(* no handler is a transaction.  Jobs are numbered by created_at, so "in    *)
(* order" is by number.                                                      *)
(***************************************************************************)
EXTENDS Integers, Sequences, FiniteSets

CONSTANTS Agent, NoAgent,
          Printer,
          Serves,        \* printers mapped in each agent's config
          MaxAttempts,   \* max_attempts of a job
          Limit,         \* AARD_PRINT_CLAIM_LIMIT
          NumJobs,       \* bound: jobs ever created
          Budgets        \* bounds considered: jobs, operator requests (edits) and
                         \* mishaps (agent restarts, timeouts, printer errors)

ASSUME PrintConstants ==
  /\ IsFiniteSet(Agent) /\ NoAgent \notin Agent
  /\ Serves \in [Agent -> SUBSET Printer]
  /\ MaxAttempts \in Nat \ {0} /\ Limit \in Nat \ {0} /\ NumJobs \in Nat
  /\ Budgets \subseteq [jobs : 0..NumJobs, edits : Nat, mishaps : Nat]

VARIABLES
  jobs,       \* wms_print_jobs in the order of created_at
  agents,     \* the process of each agent
  calls,      \* result reports the server has not answered yet
  edits,      \* operator requests that have read their job
  spare       \* what is left of one of Budgets

printVars == <<jobs, agents, calls, edits, spare>>
Job == DOMAIN jobs
PrintStatus == {"QUEUED", "CLAIMED", "PRINTING", "PRINTED", "FAILED", "CANCELLED"}
Reported == {"PRINTING", "PRINTED", "FAILED"}    \* by this agent

(* sheets and retries are history: labels sent to a printer, and requeues by *)
(* an operator.                                                             *)
JobRow == [st : PrintStatus, agent : Agent \cup {NoAgent}, printer : Printer,
           tries : 0..MaxAttempts, lease : BOOLEAN, sheets : Nat, retries : Nat]
(* A process: the candidates or claimed jobs still before it, those it has  *)
(* claimed, the job at hand (0: none), what it is reporting of it and       *)
(* whether it has a printer for it.                                         *)
Process == [pc : {"idle", "claim", "answer", "next", "wait", "print", "done", "fail"},
            todo : SUBSET (1..NumJobs), got : SUBSET (1..NumJobs), job : 0..NumJobs,
            say : Reported \cup {""}, mapped : BOOLEAN]
(* live: the agent still waits for the answer.                              *)
Call == [agent : Agent, job : 1..NumJobs, say : Reported, saw : {"CLAIMED", "PRINTING", ""},
         live : BOOLEAN]

PrintTypeOK ==
  /\ jobs \in Seq(JobRow) /\ agents \in [Agent -> Process]
  /\ calls \subseteq Call
  /\ edits \subseteq [kind : {"retry", "cancel", "reassign"}, job : 1..NumJobs]

(* A process between two jobs, with the claimed jobs S before it.           *)
Between(S) == [pc |-> IF S = {} THEN "idle" ELSE "next", todo |-> S, got |-> {}, job |-> 0,
               say |-> "", mapped |-> TRUE]
Asleep == Between({})
NewJob(a, p) == [st |-> "QUEUED", agent |-> a, printer |-> p, tries |-> 0, lease |-> FALSE,
                 sheets |-> 0, retries |-> 0]

PrintInit ==
  /\ jobs = <<>> /\ calls = {} /\ edits = {}
  /\ agents = [a \in Agent |-> Asleep]
  /\ spare \in Budgets

-----------------------------------------------------------------------------
(* createRuntimePrintJob and reprintRuntimePrintJob.  A used idempotency key *)
(* inserts nothing (ON CONFLICT DO NOTHING) and returns the row it names.   *)
Create(a, p) == /\ spare.jobs > 0
                /\ spare' = [spare EXCEPT !.jobs = @ - 1]
                /\ a # NoAgent => p \in Serves[a]
                /\ jobs' = Append(jobs, NewJob(a, p))
                /\ UNCHANGED <<agents, calls, edits>>

CreateRuntimePrintJob  == \E a \in Agent \cup {NoAgent}, p \in Printer : Create(a, p)
ReprintRuntimePrintJob == \E j \in Job, a \in Agent \cup {NoAgent}, p \in Printer :
  (jobs[j].agent # NoAgent => a # NoAgent) /\ Create(a, p)

-----------------------------------------------------------------------------
(* claimPrintJobs: the SELECT, an UPDATE for each row with its own condition, *)
(* and the answer.                                                          *)
Offered(a, j) == jobs[j].st = "QUEUED" /\ jobs[j].agent \in {NoAgent, a}
Lapsed(S, j)  == jobs[j].st \in S /\ ~jobs[j].lease
Unspent(j)    == jobs[j].tries < MaxAttempts

(* Variants: PRINTING is given out again like CLAIMED; a lapsed claim is not *)
(* given out again; attempts are not counted.                               *)
ClaimableWhilePrinting(a, j) == Unspent(j) /\ (Offered(a, j) \/ Lapsed({"CLAIMED", "PRINTING"}, j))
ClaimableOnlyQueued(a, j)    == Unspent(j) /\ Offered(a, j)
ClaimableForever(a, j)       == Offered(a, j) \/ Lapsed({"CLAIMED"}, j)

Claimable(a, j) == Unspent(j) /\ (Offered(a, j) \/ Lapsed({"CLAIMED"}, j))

Routed(a, j) == jobs[j].agent = a \/ jobs[j].printer \in Serves[a]

First(j, S) == j \in S /\ \A k \in S : j <= k
Candidates(a) == LET S == {j \in Job : Claimable(a, j) /\ Routed(a, j)}
                 IN {j \in S : Cardinality({k \in S : k < j}) < Limit}

ClaimSelect(a) ==
  /\ agents[a].pc = "idle" /\ Candidates(a) # {}
  /\ agents' = [agents EXCEPT ![a] = [@ EXCEPT !.pc = "claim", !.todo = Candidates(a)]]
  /\ UNCHANGED <<jobs, calls, edits, spare>>

ClaimUpdate(a) == \E j \in Job :
  /\ agents[a].pc = "claim" /\ First(j, agents[a].todo)
  /\ IF Claimable(a, j)
     THEN jobs' = [jobs EXCEPT ![j] = [@ EXCEPT !.st = "CLAIMED", !.agent = a, !.lease = TRUE,
                                               !.tries = jobs[j].tries + 1]]
     ELSE UNCHANGED jobs
  /\ agents' = [agents EXCEPT ![a] =
                  LET p == agents[a] IN
                  [p EXCEPT !.todo = p.todo \ {j},
                            !.got = IF Claimable(a, j) THEN p.got \cup {j} ELSE p.got,
                            !.pc = IF p.todo = {j} THEN "answer" ELSE "claim"]]
  /\ UNCHANGED <<calls, edits, spare>>

(* To the next of the claimed jobs S, or to the sleep of runLoop.           *)
TakeUp(a, S) == [agents EXCEPT ![a] = Between(S)]

ClaimAnswer(a) ==
  /\ agents[a].pc = "answer"
  /\ agents' = TakeUp(a, agents[a].got)
  /\ UNCHANGED <<jobs, calls, edits, spare>>

LeaseExpires(j) ==
  /\ jobs[j].lease
  /\ jobs' = [jobs EXCEPT ![j] = [@ EXCEPT !.lease = FALSE]]
  /\ UNCHANGED <<agents, calls, edits, spare>>

-----------------------------------------------------------------------------
(* The agent: processJob.                                                   *)
Calling(a, j, s) ==
  calls' = calls \cup {[agent |-> a, job |-> j, say |-> s, saw |-> "", live |-> TRUE]}

StartJob(a) == \E j \in Job :
  LET s == IF jobs[j].printer \in Serves[a] THEN "PRINTING" ELSE "FAILED" IN
  /\ agents[a].pc = "next" /\ First(j, agents[a].todo)
  /\ agents' = [agents EXCEPT ![a] = [@ EXCEPT !.pc = "wait", !.say = s, !.job = j,
                                               !.todo = agents[a].todo \ {j},
                                               !.mapped = (s = "PRINTING")]]
  /\ Calling(a, j, s)
  /\ UNCHANGED <<jobs, edits, spare>>

Say(a, s) ==
  /\ agents' = [agents EXCEPT ![a] = [@ EXCEPT !.pc = "wait", !.say = s]]
  /\ Calling(a, agents[a].job, s)
  /\ UNCHANGED <<jobs, edits, spare>>

Onto(a, pc) == [agents EXCEPT ![a] = [@ EXCEPT !.pc = pc, !.say = ""]]
NextJob(a)  == TakeUp(a, agents[a].todo)

Mishap == spare.mishaps > 0 /\ spare' = [spare EXCEPT !.mishaps = @ - 1]

Printed(j, n) == [jobs EXCEPT ![j] = [@ EXCEPT !.sheets = jobs[j].sheets + n]]

PrintZpl(a) ==
  /\ agents[a].pc = "print"
  /\ jobs' = Printed(agents[a].job, 1)
  /\ agents' = Onto(a, "done")
  /\ UNCHANGED <<calls, edits, spare>>

(* The printer times out, before or after it took the label; or at a later  *)
(* copy: then nothing is reported, the job stays PRINTING.                  *)
PrintFails(a) ==
  /\ agents[a].pc = "print" /\ Mishap
  /\ \/ /\ \E n \in {0, 1} : jobs' = Printed(agents[a].job, n)
        /\ agents' = Onto(a, "fail")
     \/ /\ jobs' = Printed(agents[a].job, 1)
        /\ agents' = NextJob(a)
  /\ UNCHANGED <<calls, edits>>

ReportPrinted(a) == agents[a].pc = "done" /\ Say(a, "PRINTED")
ReportFailed(a)  == agents[a].pc = "fail" /\ Say(a, "FAILED")

(* What the agent does with the end of a report, its 15 s timeout included: *)
(* without PRINTING nothing is sent and the job is reported FAILED.  When   *)
(* the report of a job without a printer goes wrong, runLoop catches the    *)
(* error and drops the rest of the batch.  (Variant: it is taken for sent.) *)
Onwards(a, ok) == IF ok \/ agents[a].mapped THEN NextJob(a) ELSE TakeUp(a, {})

AfterHopeful(a, ok) ==
  IF agents[a].say # "PRINTING" THEN Onwards(a, ok)
  ELSE Onto(a, IF ok THEN "print" ELSE "done")

After(a, ok) ==
  IF agents[a].say # "PRINTING" THEN Onwards(a, ok)
  ELSE Onto(a, IF ok THEN "print" ELSE "fail")

(* The server goes on with the calls that the agent gave up.                *)
HangUp(a) == calls' = {[q EXCEPT !.live = @ /\ q.agent # a] : q \in calls}

AgentTimeout(a) ==
  /\ agents[a].pc = "wait" /\ Mishap
  /\ agents' = After(a, FALSE)
  /\ HangUp(a)
  /\ UNCHANGED <<jobs, edits>>

(* A restart; also a loop error, which drops the rest of the batch.  In the *)
(* midst of a claim the server fails with it (it claims row by row, without *)
(* a transaction); one that lives on finishes first.                        *)
AgentCrash(a) ==
  /\ agents[a].pc # "idle" /\ Mishap
  /\ agents' = [agents EXCEPT ![a] = Asleep]
  /\ HangUp(a)
  /\ UNCHANGED <<jobs, edits>>

-----------------------------------------------------------------------------
(* reportPrintJobResult.                                                    *)
Answer(q, ok) == /\ calls' = calls \ {q}
                 /\ agents' = IF q.live THEN After(q.agent, ok) ELSE agents

(* isPrintAgentStatusTransitionAllowed.                                     *)
Allowed(from, to) == from \in {"CLAIMED", "PRINTING"} \/ from = to

ReportRead(q) ==
  LET r == jobs[q.job] IN
  /\ q.saw = ""
  /\ \/ /\ r.agent = q.agent /\ r.st \in {"CLAIMED", "PRINTING"}
        /\ calls' = (calls \ {q}) \cup {[q EXCEPT !.saw = r.st]}
        /\ UNCHANGED agents
     \/ /\ r.agent = q.agent /\ Allowed(r.st, q.say) /\ r.st \notin {"CLAIMED", "PRINTING"}
        /\ Answer(q, TRUE)
     \/ /\ r.agent # q.agent \/ ~Allowed(r.st, q.say)
        /\ Answer(q, FALSE)
  /\ UNCHANGED <<jobs, edits, spare>>

StillAsRead(q) == jobs[q.job].st = q.saw /\ jobs[q.job].agent = q.agent

ReportWrite(q) ==
  LET r == jobs[q.job] IN
  /\ q.saw # ""
  /\ \/ /\ StillAsRead(q)
        /\ jobs' = [jobs EXCEPT ![q.job] = [@ EXCEPT !.st = q.say, !.lease = (q.say = "PRINTING")]]
        /\ Answer(q, TRUE)
     \/ /\ ~StillAsRead(q)
        /\ Answer(q, r.agent = q.agent /\ r.st = q.say)
        /\ UNCHANGED jobs
  /\ UNCHANGED <<edits, spare>>

-----------------------------------------------------------------------------
(* retry, cancel and reassign: the job is read, then written by id.         *)
EditRead(kind) ==
  \E j \in Job :
    /\ spare.edits > 0
    /\ jobs[j].st \notin (IF kind = "reassign" THEN {"CLAIMED", "PRINTING", "PRINTED"} ELSE {"PRINTED"})
    /\ edits' = edits \cup {[kind |-> kind, job |-> j]}
    /\ spare' = [spare EXCEPT !.edits = @ - 1]
    /\ UNCHANGED <<jobs, agents, calls>>

Requeued(j, a, p) == [jobs EXCEPT ![j] = [@ EXCEPT !.st = "QUEUED", !.agent = a, !.printer = p,
                                                   !.lease = FALSE, !.retries = jobs[j].retries + 1]]

RetryRuntimePrintJob(e) ==
  /\ e.kind = "retry"
  /\ \E a \in Agent \cup {NoAgent}, p \in Printer :
       /\ a # NoAgent => p \in Serves[a]
       /\ jobs[e.job].agent # NoAgent => a # NoAgent
       /\ jobs' = Requeued(e.job, a, p)

CancelRuntimePrintJob(e) ==
  /\ e.kind = "cancel"
  /\ jobs' = [jobs EXCEPT ![e.job] = [@ EXCEPT !.st = "CANCELLED", !.lease = FALSE]]

ReassignRuntimePrintJob(e) ==
  /\ e.kind = "reassign"
  /\ IF jobs[e.job].st \in {"CLAIMED", "PRINTING", "PRINTED"} THEN UNCHANGED jobs
     ELSE \E a \in Agent \cup {NoAgent}, p \in Printer :
            (a # NoAgent => p \in Serves[a]) /\ jobs' = Requeued(e.job, a, p)

EditWrite(e) ==
  /\ RetryRuntimePrintJob(e) \/ CancelRuntimePrintJob(e) \/ ReassignRuntimePrintJob(e)
  /\ edits' = edits \ {e}
  /\ UNCHANGED <<agents, calls, spare>>

-----------------------------------------------------------------------------
(* Steps that a live agent and a live server take.                          *)
AgentStep(a) == ClaimSelect(a) \/ ClaimUpdate(a) \/ ClaimAnswer(a) \/ StartJob(a)
                \/ PrintZpl(a) \/ ReportPrinted(a) \/ ReportFailed(a)
CallStep == \E q \in calls : ReportRead(q) \/ ReportWrite(q)

PrintNext ==
  \/ CreateRuntimePrintJob \/ ReprintRuntimePrintJob
  \/ \E a \in Agent : AgentStep(a) \/ PrintFails(a) \/ AgentTimeout(a) \/ AgentCrash(a)
  \/ CallStep
  \/ \E j \in Job : LeaseExpires(j)
  \/ \E k \in {"retry", "cancel", "reassign"} : EditRead(k)
  \/ \E e \in edits : EditWrite(e)

PrintSpec == PrintInit /\ [][PrintNext]_printVars

PrintFairness ==
  /\ \A a \in Agent : WF_printVars(AgentStep(a))
  /\ WF_printVars(CallStep)
  /\ \A j \in 1..NumJobs : WF_printVars(j \in Job /\ LeaseExpires(j))

-----------------------------------------------------------------------------
(* A label goes to a printer again only when an operator asked for it, and  *)
(* never more often than max_attempts, whatever answers get lost.           *)
NoBlindReprint == \A j \in Job : jobs[j].sheets <= 1 + jobs[j].retries
                                 /\ jobs[j].sheets <= MaxAttempts

(* PRINTED is only said of a job that reached a printer.                    *)
PrintedWasSent == \A j \in Job : jobs[j].st = "PRINTED" => jobs[j].sheets > 0

(* A job never stays queued or claimed while it has attempts left.          *)
Pending(j) == j \in Job /\ jobs[j].st \in {"QUEUED", "CLAIMED"} /\ jobs[j].tries < MaxAttempts
JobsAreServed == \A j \in 1..NumJobs : Pending(j) ~> ~Pending(j)
=============================================================================
