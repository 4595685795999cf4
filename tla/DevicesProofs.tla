--------------------------- MODULE DevicesProofs ---------------------------
(* What the devices at the edge promise, for any number of agents, printers, *)
(* jobs, scans, requests and mishaps.  The print queue prints a label again  *)
(* only when an operator asked for it, and says PRINTED only of a label that *)
(* was sent; the handheld repeats no scan, and loses none unless it is       *)
(* misled by an old fallback or writes beside a load; the browser tab stays  *)
(* signed in until it leaves, and then has left for good.                    *)
EXTENDS MCDevices, SequenceTheorems, FiniteSetTheorems, TLAPS

(* May process p still come to print job j on the strength of its present   *)
(* claim: j is claimed and before it, or it is asking whether to print.     *)
Before(p, j) == \/ p.pc \in {"claim", "answer"} /\ j \in p.got
                \/ p.pc \notin {"claim", "answer"} /\ j \in p.todo
                \/ p.pc = "wait" /\ p.say = "PRINTING" /\ p.job = j
Held(j) == jobs[j].agent \in Agent /\ Before(agents[jobs[j].agent], j)

(* The sheets that may still come without another claim, or another request *)
(* of an operator: those of agents at the printer, and one of a job that is *)
(* waiting, claimed, or PRINTING in the hands of its agent.                 *)
Prints(p, j) == IF p.pc = "print" /\ p.job = j THEN 1 ELSE 0
Printers(j)  == {a \in Agent : Prints(agents[a], j) = 1}
Chance(j)    == IF jobs[j].st \in {"QUEUED", "CLAIMED"} \/ (jobs[j].st = "PRINTING" /\ Held(j))
                THEN 1 ELSE 0
Owed(j)      == IF jobs[j].st \in {"CLAIMED", "PRINTING"} /\ Held(j) THEN 1 ELSE 0

Shape ==
  /\ jobs \in Seq(JobRow)
  /\ agents \in [Agent -> Process]
  /\ calls \subseteq Call
  /\ edits \subseteq [kind : {"retry", "cancel", "reassign"}, job : 1..NumJobs]
  /\ spare \in [jobs : 0..NumJobs, edits : Nat, mishaps : Nat]
  /\ Len(jobs) + spare.jobs <= NumJobs

InHand(p) ==
  /\ p.todo \subseteq Job /\ p.got \subseteq Job
  /\ p.pc \notin {"claim", "answer"} => p.got = {}
  /\ p.pc \in {"wait", "print", "done", "fail"} => p.job \in Job \ p.todo
  /\ p.pc = "done" => jobs[p.job].sheets > 0

OnTheWire(q) ==
  /\ q.job \in Job
  /\ q.live => /\ agents[q.agent].pc = "wait" /\ agents[q.agent].say = q.say
               /\ agents[q.agent].job = q.job
  /\ q.say = "PRINTED" => jobs[q.job].sheets > 0

OneCall == \A q, r \in calls : q.live /\ r.live /\ q.agent = r.agent => q = r

Count(j) ==
  LET sent == jobs[j].sheets + Cardinality(Printers(j)) IN
  /\ sent + Chance(j) <= 1 + jobs[j].retries
  /\ sent + Owed(j) <= jobs[j].tries

Whole == /\ Shape
         /\ \A a \in Agent : InHand(agents[a])
         /\ \A q \in calls : OnTheWire(q)
         /\ OneCall
         /\ \A e \in edits : e.job \in Job
         /\ PrintedWasSent
Counts == \A j \in Job : Count(j)
PInv == Whole /\ Counts
-----------------------------------------------------------------------------
(* A row rewritten.                                                         *)
LEMMA RowWritten ==
  ASSUME jobs \in Seq(JobRow), NEW j \in Job, NEW r \in JobRow, jobs' = [jobs EXCEPT ![j] = r]
  PROVE  /\ jobs' \in Seq(JobRow) /\ Len(jobs') = Len(jobs) /\ Job' = Job
         /\ \A k \in Job : jobs'[k] = IF k = j THEN r ELSE jobs[k]
BY DEF Job

(* The agents at the printer, when one process moves.                       *)
LEMMA PrintersMove ==
  ASSUME agents \in [Agent -> Process], NEW a \in Agent, NEW p \in Process, NEW j,
         agents' = [agents EXCEPT ![a] = p]
  PROVE  /\ Cardinality(Printers(j)) \in Nat
         /\ Cardinality(Printers(j)') = Cardinality(Printers(j)) - Prints(agents[a], j) + Prints(p, j)
<1> DEFINE P == Printers(j)
<1>1. IsFiniteSet(P)
  BY PrintConstants, FS_Subset DEF Printers
<1>2. Cardinality(P) \in Nat
  BY <1>1, FS_CardinalityType
<1>3. \A b \in Agent : agents'[b] = IF b = a THEN p ELSE agents[b]
  OBVIOUS
<1>4. Prints(agents[a], j) \in {0, 1} /\ Prints(p, j) \in {0, 1}
  BY DEF Prints
<1>5. Printers(j)' = {b \in Agent : Prints(agents'[b], j) = 1}
  BY DEF Printers
<1>6. CASE Prints(agents[a], j) = Prints(p, j)
  <2>1. Printers(j)' = P
    BY <1>3, <1>5, <1>6 DEF Printers
  <2>2. QED
    BY <2>1, <1>2, <1>4, <1>6
<1>7. CASE Prints(agents[a], j) = 0 /\ Prints(p, j) = 1
  <2>1. Printers(j)' = P \cup {a} /\ a \notin P
    BY <1>3, <1>5, <1>7 DEF Printers
  <2>2. QED
    <3>1. Cardinality(P \cup {a}) = Cardinality(P) + 1
      BY <2>1, <1>1, FS_AddElement
    <3>2. QED
      BY <2>1, <1>2, <1>7, <3>1
<1>8. CASE Prints(agents[a], j) = 1 /\ Prints(p, j) = 0
  <2>1. Printers(j)' = P \ {a} /\ a \in P
    BY <1>3, <1>5, <1>8 DEF Printers
  <2>2. QED
    <3>1. Cardinality(P \ {a}) = Cardinality(P) - 1
      BY <2>1, <1>1, FS_RemoveElement
    <3>2. QED
      BY <2>1, <1>2, <1>8, <3>1
<1>9. QED
  BY <1>4, <1>6, <1>7, <1>8

(* A process moves and the jobs stay: it does not come to the printer, and  *)
(* has no job before it that it had not.                                    *)
LEMMA CountsMove ==
  ASSUME PInv, jobs' = jobs, NEW a \in Agent, NEW p \in Process, agents' = [agents EXCEPT ![a] = p],
         p.pc # "print", \A j \in Job : Before(p, j) => Before(agents[a], j)
  PROVE  Counts'
<1> SUFFICES ASSUME NEW j \in Job PROVE Count(j)'
  BY DEF Counts, Job
<1>1. /\ Cardinality(Printers(j)) \in Nat
      /\ Cardinality(Printers(j)') = Cardinality(Printers(j)) - Prints(agents[a], j) + Prints(p, j)
  BY PrintersMove DEF PInv, Whole, Shape
<1>2. Prints(p, j) = 0 /\ Prints(agents[a], j) \in {0, 1}
  BY DEF Prints
<1>3. Held(j)' => Held(j)
  BY DEF Held, PInv, Whole, Shape
<1>4. Chance(j)' <= Chance(j) /\ Owed(j)' <= Owed(j) /\ {Chance(j), Chance(j)', Owed(j), Owed(j)'} \subseteq {0, 1}
  BY <1>3 DEF Chance, Owed
<1>5. jobs[j] \in JobRow
  BY DEF PInv, Whole, Shape, Job
<1>6. Count(j)
  BY DEF PInv, Counts
<1>7. QED
  BY <1>1, <1>2, <1>4, <1>5, <1>6 DEF Count, JobRow

(* The same for what the processes and the calls know.                      *)
LEMMA WholeMoves ==
  ASSUME Whole, jobs' = jobs, edits' = edits, spare' \in [jobs : {spare.jobs}, edits : Nat, mishaps : Nat],
         NEW a \in Agent, NEW p \in Process, agents' = [agents EXCEPT ![a] = p], InHand(p),
         calls' \subseteq Call, \A q \in calls' : OnTheWire(q)', OneCall'
  PROVE  Whole'
<1>1. Shape'
  BY DEF Whole, Shape
<1>2. \A b \in Agent : InHand(agents[b])'
  BY DEF Whole, Shape, InHand, Job
<1>3. (\A e \in edits : e.job \in Job)' /\ PrintedWasSent'
  BY DEF Whole, PrintedWasSent, Job
<1>4. QED
  BY <1>1, <1>2, <1>3 DEF Whole

(* Calls that no process waits for lose nothing when process a moves on.    *)
LEMMA CallsStay ==
  ASSUME Whole, jobs' = jobs, NEW a \in Agent, NEW p \in Process, agents' = [agents EXCEPT ![a] = p],
         NEW q \in Call, OnTheWire(q), q.live => q.agent # a
  PROVE  OnTheWire(q)'
BY DEF Whole, Shape, OnTheWire, Job, Call
-----------------------------------------------------------------------------
(* A process at work: the claims.                                           *)
LEMMA SelectStep ==
  ASSUME PInv, NEW a \in Agent, ClaimSelect(a)
  PROVE  PInv'
<1> DEFINE p == [agents[a] EXCEPT !.pc = "claim", !.todo = Candidates(a)]
<1>1. /\ agents[a].pc = "idle" /\ agents' = [agents EXCEPT ![a] = p]
      /\ jobs' = jobs /\ calls' = calls /\ edits' = edits /\ spare' = spare
  BY DEF ClaimSelect
<1>2. Shape /\ InHand(agents[a]) /\ agents[a] \in Process /\ Job \subseteq 1..NumJobs
  BY PrintConstants DEF PInv, Whole, Shape, Job
<1>3. Candidates(a) \subseteq Job
  BY DEF Candidates
<1>4. p \in Process /\ InHand(p) /\ p.pc = "claim" /\ p.got = {}
  BY <1>1, <1>2, <1>3 DEF Process, InHand
<1>5. \A q \in calls : OnTheWire(q)'
  BY <1>1, <1>2, <1>4, CallsStay DEF PInv, Whole, Shape, OnTheWire
<1>6. Whole'
  BY <1>1, <1>2, <1>4, <1>5, WholeMoves DEF PInv, Whole, OneCall, Shape
<1>7. \A j \in Job : ~Before(p, j)
  BY <1>4 DEF Before
<1>8. Counts'
  BY <1>1, <1>4, <1>7, CountsMove
<1>9. QED
  BY <1>6, <1>8 DEF PInv

(* An agent that has finished a job and holds others.                       *)
LEMMA BetweenJobs ==
  ASSUME Whole, NEW S \in SUBSET Job
  PROVE  /\ Between(S) \in Process /\ InHand(Between(S))
         /\ Between(S).pc \in {"idle", "next"} /\ Between(S).todo = S
<1> DEFINE p == Between(S)
<1>1. Job \subseteq 1..NumJobs
  BY PrintConstants DEF Whole, Shape, Job
<1>2. p \in Process /\ p.pc \in {"idle", "next"} /\ p.todo = S /\ p.got = {}
  BY <1>1, PrintConstants DEF Between, Process, Reported
<1> HIDE DEF p
<1>3. InHand(p)
  BY <1>2 DEF InHand
<1>4. QED
  BY <1>2, <1>3 DEF p

(* To the rest of the work, of what is claimed and before the process.      *)
LEMMA TakenUp ==
  ASSUME PInv, NEW a \in Agent, NEW S \in SUBSET Job, agents' = TakeUp(a, S),
         \A j \in S : Before(agents[a], j),
         jobs' = jobs, calls' \subseteq Call, edits' = edits,
         spare' \in [jobs : {spare.jobs}, edits : Nat, mishaps : Nat],
         \A q \in calls' : OnTheWire(q)', OneCall'
  PROVE  PInv'
<1> DEFINE p == Between(S)
<1>1. agents' = [agents EXCEPT ![a] = p]
  BY DEF TakeUp
<1>2. p \in Process /\ InHand(p) /\ p.pc \in {"idle", "next"} /\ p.todo = S
  BY BetweenJobs DEF PInv
<1> HIDE DEF p
<1>3. Whole'
  BY <1>1, <1>2, WholeMoves DEF PInv
<1>4. \A j \in Job : Before(p, j) => Before(agents[a], j)
  BY <1>2 DEF Before
<1>5. Counts'
  BY <1>1, <1>2, <1>4, CountsMove
<1>6. QED
  BY <1>3, <1>5 DEF PInv

(* The agent learns what it has claimed.                                    *)
LEMMA AnswerStep ==
  ASSUME PInv, NEW a \in Agent, ClaimAnswer(a)
  PROVE  PInv'
<1>1. /\ agents[a].pc = "answer" /\ agents' = TakeUp(a, agents[a].got)
      /\ jobs' = jobs /\ calls' = calls /\ edits' = edits /\ spare' = spare
  BY DEF ClaimAnswer
<1>2. Shape /\ InHand(agents[a]) /\ agents[a].got \in SUBSET Job
  BY DEF PInv, Whole, InHand
<1>3. \A j \in agents[a].got : Before(agents[a], j)
  BY <1>1 DEF Before
<1>4. \A q \in calls : OnTheWire(q) /\ q \in Call /\ (q.live => q.agent # a)
  BY <1>1 DEF PInv, Whole, Shape, OnTheWire
<1>5. \A q \in calls : OnTheWire(q)'
  BY <1>1, <1>4 DEF OnTheWire, Call, Job, PInv, Whole, Shape, TakeUp
<1>6. QED
  BY <1>1, <1>2, <1>3, <1>5, TakenUp DEF Shape, PInv, Whole, OneCall

(* The claim writes one job after the other.                                *)
LEMMA ClaimStep ==
  ASSUME PInv, NEW a \in Agent, ClaimUpdate(a)
  PROVE  PInv'
<1> DEFINE P(j) == [agents[a] EXCEPT !.todo = agents[a].todo \ {j},
                        !.got = IF Claimable(a, j) THEN agents[a].got \cup {j} ELSE agents[a].got,
                        !.pc = IF agents[a].todo = {j} THEN "answer" ELSE "claim"]
           R(j) == [jobs[j] EXCEPT !.st = "CLAIMED", !.agent = a, !.lease = TRUE,
                                   !.tries = jobs[j].tries + 1]
<1>1. PICK j \in Job :
        /\ agents[a].pc = "claim" /\ First(j, agents[a].todo)
        /\ Claimable(a, j) => jobs' = [jobs EXCEPT ![j] = R(j)]
        /\ ~Claimable(a, j) => jobs' = jobs
        /\ agents' = [agents EXCEPT ![a] = P(j)]
        /\ calls' = calls /\ edits' = edits /\ spare' = spare
  BY DEF ClaimUpdate
<1> DEFINE p == P(j)
           r == R(j)
<1>2. Shape /\ InHand(agents[a]) /\ agents[a] \in Process /\ Job \subseteq 1..NumJobs /\ jobs[j] \in JobRow
  BY PrintConstants DEF PInv, Whole, Shape, Job
<1>3. /\ p \in Process /\ p.pc \in {"claim", "answer"} /\ p.todo \subseteq Job /\ p.got \subseteq Job
      /\ p.got = IF Claimable(a, j) THEN agents[a].got \cup {j} ELSE agents[a].got
  BY <1>2 DEF Process, InHand
<1>4. agents' = [agents EXCEPT ![a] = p] /\ calls' = calls /\ edits' = edits /\ spare' = spare
  BY <1>1
<1>5. \A q \in calls : OnTheWire(q) /\ q \in Call /\ (q.live => q.agent # a)
  BY <1>1 DEF PInv, Whole, Shape, OnTheWire
<1> HIDE DEF p
<1>6. CASE ~Claimable(a, j)
  <2>1. jobs' = jobs
    BY <1>1, <1>6
  <2>2. InHand(p)
    BY <1>3 DEF InHand
  <2>3. \A q \in calls : OnTheWire(q)'
    BY <1>3, <1>4, <1>5, <2>1, CallsStay DEF PInv
  <2>4. Whole'
    BY <1>2, <1>3, <1>4, <2>1, <2>2, <2>3, WholeMoves DEF PInv, Whole, OneCall, Shape
  <2>5. \A k \in Job : Before(p, k) => Before(agents[a], k)
    BY <1>1, <1>3, <1>6 DEF Before
  <2>6. Counts'
    BY <1>3, <1>4, <2>1, <2>5, CountsMove
  <2>7. QED
    BY <2>4, <2>6 DEF PInv
<1>7. CASE Claimable(a, j)
  <2>1. jobs[j].st \in {"QUEUED", "CLAIMED"} /\ jobs[j].tries + 1 \in 0..MaxAttempts
    BY <1>2, <1>7, PrintConstants DEF Claimable, Unspent, Offered, Lapsed, JobRow
  <2>2. /\ r \in JobRow /\ r.st = "CLAIMED" /\ r.agent = a /\ r.tries = jobs[j].tries + 1
        /\ r.sheets = jobs[j].sheets /\ r.retries = jobs[j].retries
    BY <1>2, <2>1 DEF JobRow, PrintStatus
  <2>3. jobs' = [jobs EXCEPT ![j] = r]
    BY <1>1, <1>7
  <2> HIDE DEF r
  <2>4. /\ jobs' \in Seq(JobRow) /\ Len(jobs') = Len(jobs) /\ Job' = Job
        /\ \A k \in Job : jobs'[k] = IF k = j THEN r ELSE jobs[k]
    BY <1>2, <2>2, <2>3, RowWritten DEF Shape
  <2>5. \A k \in Job : jobs'[k].sheets = jobs[k].sheets
    BY <2>2, <2>4
  <2>6. Shape'
    BY <1>2, <1>3, <1>4, <2>4 DEF Shape
  <2>7. \A b \in Agent : InHand(agents[b])'
    BY <1>2, <1>3, <1>4, <2>4, <2>5 DEF InHand, Shape, PInv, Whole
  <2>8. \A q \in calls : OnTheWire(q)'
    BY <1>2, <1>4, <1>5, <2>4, <2>5 DEF OnTheWire, Shape, Call
  <2>9. PrintedWasSent'
    BY <2>2, <2>4, <2>5 DEF PrintedWasSent, PInv, Whole
  <2>10. Whole'
    BY <1>4, <2>4, <2>6, <2>7, <2>8, <2>9 DEF Whole, OneCall, PInv
  <2>11. ASSUME NEW k \in Job PROVE Count(k)'
    <3>1. /\ Cardinality(Printers(k)) \in Nat
          /\ Cardinality(Printers(k)') = Cardinality(Printers(k)) - Prints(agents[a], k) + Prints(p, k)
      BY <1>2, <1>3, <1>4, PrintersMove DEF Shape
    <3>2. Prints(p, k) = 0 /\ Prints(agents[a], k) = 0
      BY <1>1, <1>3 DEF Prints
    <3>3. Count(k) /\ jobs[k] \in JobRow
      BY <1>2 DEF PInv, Counts, Shape, Job
    <3>4. CASE k = j
      <4>1. Chance(k) = 1 /\ Chance(k)' <= 1 /\ Owed(k) \in {0, 1} /\ Owed(k)' \in {0, 1} /\ Chance(k)' \in {0, 1}
        BY <2>1, <3>4 DEF Chance, Owed
      <4>2. /\ jobs'[k].sheets = jobs[k].sheets /\ jobs'[k].retries = jobs[k].retries
            /\ jobs'[k].tries = jobs[k].tries + 1
        BY <2>2, <2>4, <3>4
      <4>3. jobs[k].sheets \in Nat /\ jobs[k].retries \in Nat /\ jobs[k].tries \in Nat
        BY <3>3, PrintConstants DEF JobRow
      <4>4. QED
        BY <3>1, <3>2, <3>3, <4>1, <4>2, <4>3 DEF Count
    <3>5. CASE k # j
      <4>1. jobs'[k] = jobs[k]
        BY <2>4, <3>5
      <4>2. Before(p, k) => Before(agents[a], k)
        BY <1>1, <1>3, <1>7, <3>5 DEF Before
      <4>3. Held(k)' => Held(k)
        BY <1>2, <1>4, <4>1, <4>2 DEF Held, Shape
      <4>4. /\ Chance(k)' <= Chance(k) /\ Owed(k)' <= Owed(k)
            /\ {Chance(k), Chance(k)', Owed(k), Owed(k)'} \subseteq {0, 1}
        BY <4>1, <4>3 DEF Chance, Owed
      <4>5. QED
        BY <3>1, <3>2, <3>3, <4>1, <4>4 DEF Count, JobRow
    <3>6. QED
      BY <3>4, <3>5
  <2>12. QED
    BY <2>4, <2>10, <2>11 DEF PInv, Counts
<1>8. QED
  BY <1>6, <1>7
-----------------------------------------------------------------------------
(* A process at work: the jobs.                                             *)
LEMMA Spoken ==
  ASSUME PInv, NEW a \in Agent, NEW p \in Process, agents' = [agents EXCEPT ![a] = p],
         agents[a].pc # "wait", InHand(p), p.pc = "wait", p.say \in Reported,
         \A j \in Job : Before(p, j) => Before(agents[a], j),
         p.say = "PRINTED" => jobs[p.job].sheets > 0,
         Calling(a, p.job, p.say), UNCHANGED <<jobs, edits, spare>>
  PROVE  PInv'
<1> DEFINE n == [agent |-> a, job |-> p.job, say |-> p.say, saw |-> "", live |-> TRUE]
<1>1. calls' = calls \cup {n} /\ jobs' = jobs /\ edits' = edits /\ spare' = spare
  BY DEF Calling
<1>2. p.job \in Job /\ n \in Call /\ Shape
  <2>1. Shape /\ p.job \in Job
    BY DEF PInv, Whole, InHand
  <2>2. Job \subseteq 1..NumJobs
    BY <2>1, PrintConstants DEF Shape, Job
  <2>3. QED
    BY <2>1, <2>2 DEF Call
<1>3. \A q \in calls : OnTheWire(q) /\ q \in Call /\ (q.live => q.agent # a)
  BY DEF PInv, Whole, Shape, OnTheWire
<1>4. \A q \in calls : OnTheWire(q)'
  BY <1>1, <1>3, CallsStay DEF PInv
<1>5. OnTheWire(n)'
  BY <1>1, <1>2 DEF OnTheWire, Shape, Job
<1>6. OneCall'
  <2>1. n.live /\ n.agent = a /\ OneCall
    BY DEF PInv, Whole
  <2> HIDE DEF n
  <2>2. QED
    BY <1>1, <1>3, <2>1 DEF OneCall
<1>7. Whole'
  BY <1>1, <1>2, <1>4, <1>5, <1>6, WholeMoves DEF PInv, Shape
<1>8. Counts'
  BY <1>1, CountsMove
<1>9. QED
  BY <1>7, <1>8 DEF PInv

(* The agent takes up a job, or fails one that is not for its printers.     *)
LEMMA StartStep ==
  ASSUME PInv, NEW a \in Agent, StartJob(a)
  PROVE  PInv'
<1> DEFINE S(j) == IF jobs[j].printer \in Serves[a] THEN "PRINTING" ELSE "FAILED"
           P(j) == [agents[a] EXCEPT !.pc = "wait", !.say = S(j), !.job = j,
                                     !.todo = agents[a].todo \ {j}, !.mapped = (S(j) = "PRINTING")]
<1>1. PICK j \in Job : /\ agents[a].pc = "next" /\ First(j, agents[a].todo)
                       /\ agents' = [agents EXCEPT ![a] = P(j)]
                       /\ Calling(a, j, S(j))
                       /\ UNCHANGED <<jobs, edits, spare>>
  BY DEF StartJob
<1> DEFINE p == P(j)
<1>2. InHand(agents[a]) /\ agents[a] \in Process /\ j \in agents[a].todo /\ j \in 0..NumJobs
  BY <1>1, PrintConstants DEF PInv, Whole, Shape, First, Job
<1>3. /\ p \in Process /\ p.pc = "wait" /\ p.say \in {"PRINTING", "FAILED"} /\ p.job = j
      /\ p.say = S(j) /\ p.got = agents[a].got /\ p.todo = agents[a].todo \ {j}
  BY <1>2 DEF Process, Reported
<1> HIDE DEF S, P
<1>4. InHand(p)
  BY <1>1, <1>2, <1>3 DEF InHand
<1>5. \A k \in Job : Before(p, k) => Before(agents[a], k)
  BY <1>1, <1>2, <1>3 DEF Before
<1>6. QED
  BY <1>1, <1>3, <1>4, <1>5, Spoken DEF Reported

(* The agent reports what became of a label.                                *)
LEMMA SayStep ==
  ASSUME PInv, NEW a \in Agent, ReportPrinted(a) \/ ReportFailed(a)
  PROVE  PInv'
<1>1. PICK s \in {"PRINTED", "FAILED"} :
        agents[a].pc = (IF s = "PRINTED" THEN "done" ELSE "fail") /\ Say(a, s)
  BY DEF ReportPrinted, ReportFailed
<1> DEFINE p == [agents[a] EXCEPT !.pc = "wait", !.say = s]
<1>2. InHand(agents[a]) /\ agents[a] \in Process
  BY DEF PInv, Whole, Shape
<1>3. /\ p \in Process /\ p.pc = "wait" /\ p.say = s /\ p.job = agents[a].job
      /\ p.got = agents[a].got /\ p.todo = agents[a].todo
  BY <1>2 DEF Process, Reported
<1>4. /\ agents' = [agents EXCEPT ![a] = p] /\ Calling(a, p.job, p.say)
      /\ UNCHANGED <<jobs, edits, spare>>
  BY <1>1, <1>3 DEF Say
<1> HIDE DEF p
<1>5. InHand(p)
  BY <1>1, <1>2, <1>3 DEF InHand
<1>6. \A k \in Job : Before(p, k) => Before(agents[a], k)
  BY <1>1, <1>3 DEF Before
<1>7. s = "PRINTED" => jobs[p.job].sheets > 0
  BY <1>1, <1>2, <1>3 DEF InHand
<1>8. QED
  BY <1>1, <1>3, <1>4, <1>5, <1>6, <1>7, Spoken DEF Reported

(* At the printer: whatever becomes of the process, it has left.            *)
LEMMA PrinterStep ==
  ASSUME PInv, NEW a \in Agent, agents[a].pc = "print", NEW n \in {0, 1},
         NEW p \in Process, p.pc # "print", agents' = [agents EXCEPT ![a] = p],
         InHand(p) \/ (p.pc = "done" /\ n = 1 /\ p.job = agents[a].job /\ p.todo = agents[a].todo
                                    /\ p.got = agents[a].got),
         \A k \in Job : Before(p, k) => Before(agents[a], k),
         jobs' = Printed(agents[a].job, n), calls' = calls, edits' = edits,
         spare' \in [jobs : {spare.jobs}, edits : Nat, mishaps : Nat]
  PROVE  PInv'
<1> DEFINE j == agents[a].job
           r == [jobs[j] EXCEPT !.sheets = jobs[j].sheets + n]
<1>1. Shape /\ InHand(agents[a]) /\ agents[a] \in Process /\ j \in Job /\ jobs[j] \in JobRow
  <2>1. Shape /\ InHand(agents[a]) /\ agents[a] \in Process
    BY DEF PInv, Whole, Shape
  <2>2. j \in Job
    BY <2>1 DEF InHand
  <2>3. QED
    BY <2>1, <2>2 DEF Shape, Job
<1>2. /\ p.todo \subseteq Job /\ p.got \subseteq Job
      /\ p.pc \notin {"claim", "answer"} => p.got = {}
      /\ p.pc \in {"wait", "print", "done", "fail"} => p.job \in Job \ p.todo
      /\ p.pc = "done" => jobs[p.job].sheets > 0 \/ (n = 1 /\ p.job = j)
  BY <1>1 DEF InHand
<1>3. /\ r \in JobRow /\ r.sheets = jobs[j].sheets + n /\ r.st = jobs[j].st /\ r.agent = jobs[j].agent
      /\ r.tries = jobs[j].tries /\ r.retries = jobs[j].retries
  BY <1>1 DEF JobRow
<1>4. jobs' = [jobs EXCEPT ![j] = r]
  BY DEF Printed
<1> HIDE DEF r, j
<1>5. /\ jobs' \in Seq(JobRow) /\ Len(jobs') = Len(jobs) /\ Job' = Job
      /\ \A k \in Job : jobs'[k] = IF k = j THEN r ELSE jobs[k]
  <2>1. jobs \in Seq(JobRow)
    BY <1>1 DEF Shape
  <2>2. QED
    BY <1>1, <1>3, <1>4, <2>1, RowWritten
<1>6. \A k \in Job : /\ jobs[k].sheets \in Nat
                     /\ jobs'[k].sheets = IF k = j THEN jobs[k].sheets + n ELSE jobs[k].sheets
                     /\ jobs'[k].st = jobs[k].st /\ jobs'[k].agent = jobs[k].agent
                     /\ jobs'[k].tries = jobs[k].tries /\ jobs'[k].retries = jobs[k].retries
  <2>1. \A k \in Job : jobs[k] \in JobRow
    BY <1>1 DEF Shape, Job
  <2>2. \A k \in Job : jobs[k].sheets \in Nat
    BY <2>1 DEF JobRow
  <2>3. QED
    BY <1>3, <1>5, <2>2
<1>7. \A k \in Job : jobs'[k].sheets \in Nat /\ jobs'[k].sheets >= jobs[k].sheets
  BY <1>6
<1>8. Shape'
  BY <1>1, <1>5 DEF Shape
<1>9. \A b \in Agent : InHand(agents[b])'
  <2>1. InHand(p)'
    BY <1>2, <1>5, <1>6, <1>7 DEF InHand
  <2>2. ASSUME NEW b \in Agent, b # a PROVE InHand(agents[b])'
    <3>1. agents'[b] = agents[b] /\ InHand(agents[b])
      BY <1>1, <1>4, <2>2 DEF Shape, PInv, Whole
    <3>2. QED
      BY <1>5, <1>6, <1>7, <3>1 DEF InHand
  <2>3. agents'[a] = p
    BY <1>1, <1>4 DEF Shape
  <2>4. QED
    BY <2>1, <2>2, <2>3 DEF InHand
<1>10. \A q \in calls : OnTheWire(q)'
  <2>1. \A q \in calls : OnTheWire(q) /\ q \in Call /\ (q.live => q.agent # a)
    BY DEF PInv, Whole, Shape, OnTheWire
  <2>2. \A b \in Agent : b # a => agents'[b] = agents[b]
    BY <1>1, <1>4 DEF Shape
  <2>3. ASSUME NEW q \in calls PROVE OnTheWire(q)'
    <3>1. q.agent \in Agent /\ q.job \in Job
      BY <2>1 DEF Call, OnTheWire
    <3>2. q.live => agents'[q.agent] = agents[q.agent]
      BY <2>1, <2>2, <3>1
    <3>3. jobs'[q.job].sheets >= jobs[q.job].sheets /\ jobs[q.job].sheets \in Nat /\ jobs'[q.job].sheets \in Nat
      BY <1>6, <1>7, <3>1
    <3>4. QED
      BY <1>5, <2>1, <3>1, <3>2, <3>3 DEF OnTheWire
  <2>4. QED
    BY <2>3
<1>11. PrintedWasSent'
  BY <1>5, <1>6, <1>7 DEF PrintedWasSent, PInv, Whole
<1>12. Whole'
  BY <1>5, <1>8, <1>9, <1>10, <1>11 DEF Whole, OneCall, PInv
<1>13. ASSUME NEW k \in Job PROVE Count(k)'
  <2>1. /\ Cardinality(Printers(k)) \in Nat
        /\ Cardinality(Printers(k)') = Cardinality(Printers(k)) - Prints(agents[a], k) + Prints(p, k)
    <3>1. agents \in [Agent -> Process]
      BY <1>1 DEF Shape
    <3>2. QED
      BY <3>1, PrintersMove
  <2>2. Prints(p, k) = 0 /\ Prints(agents[a], k) = IF k = j THEN 1 ELSE 0
    BY DEF Prints, j
  <2>3. Count(k) /\ jobs[k].tries \in Int /\ jobs[k].retries \in Nat
    <3>1. jobs[k] \in JobRow
      BY <1>1 DEF Shape, Job
    <3>2. QED
      BY <3>1, PrintConstants DEF PInv, Counts, JobRow
  <2>4. Before(p, k) => Before(agents[a], k)
    OBVIOUS
  <2>5. Held(k)' => Held(k)
    BY <1>1, <1>4, <1>6, <2>4 DEF Held, Shape
  <2>6. /\ Chance(k)' <= Chance(k) /\ Owed(k)' <= Owed(k)
        /\ {Chance(k), Chance(k)', Owed(k), Owed(k)'} \subseteq {0, 1}
    BY <1>6, <2>5 DEF Chance, Owed
  <2>7. QED
    BY <1>6, <2>1, <2>2, <2>3, <2>6 DEF Count
<1>14. QED
  BY <1>5, <1>12, <1>13 DEF PInv, Counts
-----------------------------------------------------------------------------
(* A process that stops waiting, with an answer or without.                 *)
LEMMA AfterMoves ==
  ASSUME Whole, NEW a \in Agent, agents[a].pc = "wait", NEW ok \in BOOLEAN
  PROVE  \E p \in Process :
           /\ After(a, ok) = [agents EXCEPT ![a] = p]
           /\ InHand(p)
           /\ \A j \in Job : Before(p, j) => Before(agents[a], j)
           /\ p.pc # "wait"
           /\ p.pc = "print" => ok /\ agents[a].say = "PRINTING" /\ p.job = agents[a].job
           /\ agents[a].say = "PRINTING" /\ ok
                => p.pc = "print" /\ p.job = agents[a].job /\ p.todo = agents[a].todo
<1>1. Shape /\ InHand(agents[a]) /\ agents[a] \in Process
  BY DEF Whole, Shape
<1>2. CASE agents[a].say # "PRINTING"
  <2>0. PICK S \in SUBSET agents[a].todo : Onwards(a, ok) = TakeUp(a, S)
    BY DEF Onwards, NextJob
  <2> DEFINE p == Between(S)
  <2>1. /\ p \in Process /\ InHand(p) /\ p.pc \in {"idle", "next"} /\ p.todo \subseteq agents[a].todo
    BY <1>1, BetweenJobs DEF InHand
  <2>2. After(a, ok) = [agents EXCEPT ![a] = p]
    BY <1>2, <2>0 DEF After, TakeUp
  <2> HIDE DEF p
  <2>3. \A j \in Job : Before(p, j) => Before(agents[a], j)
    BY <1>1, <2>1 DEF Before
  <2>4. QED
    BY <1>2, <2>1, <2>2, <2>3
<1>3. CASE agents[a].say = "PRINTING"
  <2> DEFINE p == [agents[a] EXCEPT !.pc = IF ok THEN "print" ELSE "fail", !.say = ""]
  <2>1. /\ p \in Process /\ p.pc = (IF ok THEN "print" ELSE "fail") /\ p.job = agents[a].job
        /\ p.got = agents[a].got /\ p.todo = agents[a].todo
    BY <1>1 DEF Process
  <2>2. After(a, ok) = [agents EXCEPT ![a] = p]
    BY <1>3 DEF After, Onto
  <2> HIDE DEF p
  <2>3. InHand(p) /\ \A j \in Job : Before(p, j) => Before(agents[a], j)
    BY <1>1, <2>1 DEF InHand, Before
  <2>4. QED
    BY <1>3, <2>1, <2>2, <2>3
<1>4. QED
  BY <1>2, <1>3

(* The calls that a hung-up process leaves behind.                          *)
LEMMA HungUp ==
  ASSUME Whole, jobs' = jobs, NEW a \in Agent, NEW p \in Process, agents' = [agents EXCEPT ![a] = p],
         HangUp(a)
  PROVE  calls' \subseteq Call /\ (\A q \in calls' : OnTheWire(q)') /\ OneCall'
<1> DEFINE G(q) == [q EXCEPT !.live = q.live /\ q.agent # a]
<1>1. calls' = {G(q) : q \in calls}
  BY DEF HangUp
<1>2. ASSUME NEW q \in calls
      PROVE  /\ G(q) \in Call /\ G(q).agent = q.agent /\ G(q).job = q.job /\ G(q).say = q.say
             /\ G(q).live = (q.live /\ q.agent # a)
  <2>1. q \in Call
    BY DEF Whole, Shape
  <2>2. QED
    BY <2>1 DEF Call
<1>3. \A q \in calls : OnTheWire(q)
  BY DEF Whole
<1> HIDE DEF G
<1>4. ASSUME NEW q \in calls PROVE OnTheWire(G(q))
  <2>1. OnTheWire(q)
    BY <1>3
  <2>2. QED
    BY <1>2, <2>1 DEF OnTheWire
<1>5. \A q \in calls : OnTheWire(G(q))'
  BY <1>2, <1>4, CallsStay
<1>6. OneCall'
  <2>1. ASSUME NEW x \in calls', NEW y \in calls', x.live, y.live, x.agent = y.agent PROVE x = y
    <3>1. PICK q \in calls : x = G(q)
      BY <1>1
    <3>2. PICK r \in calls : y = G(r)
      BY <1>1
    <3>3. q.live /\ r.live /\ q.agent = r.agent
      BY <1>2, <2>1, <3>1, <3>2
    <3>4. QED
      BY <3>1, <3>2, <3>3 DEF OneCall, Whole
  <2>2. QED
    BY <2>1 DEF OneCall
<1>7. QED
  BY <1>1, <1>2, <1>5, <1>6

(* A mishap is paid for, and jobs are not created by one.                   *)
LEMMA MishapSpends ==
  ASSUME Whole, Mishap
  PROVE  spare' \in [jobs : {spare.jobs}, edits : Nat, mishaps : Nat]
<1>1. spare \in [jobs : 0..NumJobs, edits : Nat, mishaps : Nat]
  BY DEF Whole, Shape
<1>2. spare.mishaps - 1 \in Nat /\ spare' = [spare EXCEPT !.mishaps = spare.mishaps - 1]
  BY <1>1 DEF Mishap
<1>3. QED
  BY <1>1, <1>2

(* An agent that hangs up or crashes forgets what it holds.                 *)
LEMMA TimeoutStep ==
  ASSUME PInv, NEW a \in Agent, AgentTimeout(a) \/ AgentCrash(a)
  PROVE  PInv'
<1>1. /\ HangUp(a) /\ jobs' = jobs /\ edits' = edits
      /\ spare' \in [jobs : {spare.jobs}, edits : Nat, mishaps : Nat]
  BY MishapSpends DEF AgentTimeout, AgentCrash, PInv
<1>2. PICK p \in Process : /\ agents' = [agents EXCEPT ![a] = p] /\ InHand(p) /\ p.pc # "print"
                           /\ \A j \in Job : Before(p, j) => Before(agents[a], j)
  <2>1. CASE AgentTimeout(a)
    BY <2>1, AfterMoves DEF AgentTimeout, PInv
  <2>2. CASE AgentCrash(a)
    <3>1. Asleep \in Process /\ Asleep.pc = "idle" /\ Asleep.got = {} /\ Asleep.todo = {}
      BY PrintConstants DEF Asleep, Between, Process, Reported
    <3>2. InHand(Asleep) /\ \A j \in Job : ~Before(Asleep, j)
      BY <3>1 DEF InHand, Before
    <3>3. QED
      BY <2>2, <3>1, <3>2 DEF AgentCrash
  <2>3. QED
    BY <2>1, <2>2
<1>3. calls' \subseteq Call /\ (\A q \in calls' : OnTheWire(q)') /\ OneCall'
  BY <1>1, <1>2, HungUp DEF PInv
<1>4. Whole'
  BY <1>1, <1>2, <1>3, WholeMoves DEF PInv
<1>5. Counts'
  BY <1>1, <1>2, CountsMove
<1>6. QED
  BY <1>4, <1>5 DEF PInv
-----------------------------------------------------------------------------
(* A row that the server rewrites while process a moves (p: what becomes of *)
(* it) or none does.                                                        *)
Kept(r, j) == /\ r.sheets = jobs[j].sheets /\ r.tries = jobs[j].tries
              /\ r.retries >= jobs[j].retries
              /\ r.st = "PRINTED" => r.sheets > 0

(* One row written, with agents and calls as they should be.                *)
LEMMA WholeRow ==
  ASSUME Whole, NEW j \in Job, NEW r \in JobRow, Kept(r, j), jobs' = [jobs EXCEPT ![j] = r],
         agents' \in [Agent -> Process], \A a \in Agent : InHand(agents'[a]),
         calls' \subseteq Call,
         \A q \in calls' : /\ OnTheWire(q)
                           /\ q.live => agents'[q.agent] = agents[q.agent],
         OneCall', edits' \subseteq edits,
         spare' = spare
  PROVE  /\ Whole' /\ Job' = Job
         /\ \A k \in Job : jobs'[k] = IF k = j THEN r ELSE jobs[k]
<1>1. Shape
  BY DEF Whole
<1>2. /\ jobs' \in Seq(JobRow) /\ Len(jobs') = Len(jobs) /\ Job' = Job
      /\ \A k \in Job : jobs'[k] = IF k = j THEN r ELSE jobs[k]
  BY <1>1, RowWritten DEF Shape
<1>3. \A k \in Job : jobs'[k].sheets = jobs[k].sheets
  BY <1>2 DEF Kept
<1>4. Shape'
  BY <1>1, <1>2 DEF Shape
<1>5. \A a \in Agent : InHand(agents[a])'
  BY <1>2, <1>3 DEF InHand
<1>6. \A q \in calls' : OnTheWire(q)'
  BY <1>2, <1>3 DEF OnTheWire
<1>7. (\A e \in edits : e.job \in Job)'
  BY <1>2 DEF Whole
<1>8. PrintedWasSent'
  BY <1>2, <1>3 DEF PrintedWasSent, Kept, Whole
<1>9. QED
  BY <1>2, <1>4, <1>5, <1>6, <1>7, <1>8 DEF Whole

(* What one row and its counts allow.                                       *)
LEMMA CountKept ==
  ASSUME PInv, NEW k \in Job, NEW n \in Nat, NEW r \in JobRow, Kept(r, k), jobs'[k] = r,
         n = Cardinality(Printers(k)), Cardinality(Printers(k)') \in Nat,
         Cardinality(Printers(k)') + Chance(k)' - r.retries <= n + Chance(k) - jobs[k].retries,
         Cardinality(Printers(k)') + Owed(k)' <= n + Owed(k)
  PROVE  Count(k)'
<1>1. jobs[k] \in JobRow
  BY DEF PInv, Whole, Shape, Job
<1>2. jobs[k].sheets \in Nat /\ jobs[k].retries \in Nat /\ jobs[k].tries \in Int /\ r.retries \in Nat
  BY <1>1, PrintConstants DEF JobRow
<1>3. {Chance(k), Chance(k)', Owed(k), Owed(k)'} \subseteq {0, 1}
  BY DEF Chance, Owed
<1>4. Count(k)
  BY DEF PInv, Counts
<1>5. QED
  BY <1>2, <1>3, <1>4 DEF Count, Kept

(* While no process moves: the row may lose its chance and what it is owed, *)
(* and gets a chance only with a retry.                                     *)
LEMMA RowStep ==
  ASSUME PInv, NEW j \in Job, NEW r \in JobRow, Kept(r, j), jobs' = [jobs EXCEPT ![j] = r],
         agents' = agents, calls' \subseteq calls, edits' \subseteq edits, spare' = spare,
         \/ r.st \in {"PRINTED", "FAILED", "CANCELLED"}
         \/ r.st = "QUEUED" /\ r.retries = jobs[j].retries + 1
         \/ r.st = jobs[j].st /\ r.agent = jobs[j].agent
         \/ r.st = "PRINTING" /\ jobs[j].st = "CLAIMED" /\ r.agent = jobs[j].agent
  PROVE  PInv'
<1>1. Shape /\ OneCall /\ (\A a \in Agent : InHand(agents[a])) /\ \A q \in calls : OnTheWire(q)
  BY DEF PInv, Whole
<1>2. /\ Whole' /\ Job' = Job
      /\ \A k \in Job : jobs'[k] = IF k = j THEN r ELSE jobs[k]
  BY <1>1, WholeRow DEF Shape, OneCall, PInv
<1>3. ASSUME NEW k \in Job PROVE Count(k)'
  <2>1. Printers(k)' = Printers(k) /\ Cardinality(Printers(k)) \in Nat
    <3>1. IsFiniteSet(Printers(k))
      BY PrintConstants, FS_Subset DEF Printers
    <3>2. QED
      BY <3>1, FS_CardinalityType DEF Printers
  <2>2. CASE k # j
    <3>1. jobs'[k] = jobs[k]
      BY <1>2, <2>2
    <3>2. Chance(k)' = Chance(k) /\ Owed(k)' = Owed(k)
      BY <3>1 DEF Chance, Owed, Held
    <3>3. QED
      BY <2>1, <3>1, <3>2 DEF Count, PInv, Counts
  <2>3. CASE k = j
    <3>1. jobs'[k] = r
      BY <1>2, <2>3
    <3>2. jobs[k].retries \in Nat /\ r.retries \in Nat
      <4>1. jobs[k] \in JobRow
        BY <1>1 DEF Shape, Job
      <4>2. QED
        BY <4>1 DEF JobRow
    <3>3. r.agent = jobs[k].agent => (Held(k)' <=> Held(k))
      BY <3>1 DEF Held
    <3>4. /\ Owed(k)' <= Owed(k)
          /\ Chance(k)' <= Chance(k) \/ (Chance(k)' <= 1 /\ r.retries = jobs[k].retries + 1)
          /\ {Chance(k), Chance(k)', Owed(k), Owed(k)'} \subseteq {0, 1}
      BY <2>3, <3>1, <3>3 DEF Chance, Owed
    <3>5. r.retries >= jobs[k].retries
      BY <2>3 DEF Kept
    <3>6. QED
      BY <2>1, <2>3, <3>1, <3>2, <3>4, <3>5, CountKept
  <2>4. QED
    BY <2>2, <2>3
<1>4. QED
  BY <1>2, <1>3 DEF PInv, Counts
-----------------------------------------------------------------------------
(* The results: an answer without a change of the job.                      *)
LEMMA Answered ==
  ASSUME PInv, NEW q \in calls, NEW ok \in BOOLEAN, Answer(q, ok), ok => q.say # "PRINTING",
         UNCHANGED <<jobs, edits, spare>>
  PROVE  PInv'
<1>1. Whole /\ Shape /\ q \in Call /\ OnTheWire(q) /\ OneCall
  BY DEF PInv, Whole, Shape
<1>2. calls' = calls \ {q} /\ jobs' = jobs /\ edits' = edits /\ spare' = spare
  BY DEF Answer
<1>3. CASE ~q.live
  <2>1. agents' = agents
    BY <1>3 DEF Answer
  <2>2. QED
    <3>1. Shape' /\ OneCall' /\ PrintedWasSent' /\ (\A e \in edits : e.job \in Job)'
      BY <1>1, <1>2, <2>1 DEF Whole, Shape, OneCall, PrintedWasSent, Job
    <3>2. (\A a \in Agent : InHand(agents[a])) /\ \A x \in calls : OnTheWire(x)
      BY <1>1 DEF Whole
    <3>3. (\A a \in Agent : InHand(agents[a])') /\ \A x \in calls' : OnTheWire(x)'
      BY <1>2, <2>1, <3>2 DEF InHand, OnTheWire, Job
    <3>4. Counts'
      BY <1>2, <2>1 DEF PInv, Job, Counts, Count, Printers, Prints, Chance, Owed, Held, Before
    <3>5. QED
      BY <2>1, <3>1, <3>3, <3>4 DEF PInv, Whole
<1>4. CASE q.live
  <2> DEFINE a == q.agent
  <2>1. /\ a \in Agent /\ agents[a].pc = "wait" /\ agents[a].say = q.say /\ agents' = After(a, ok)
    BY <1>1, <1>4 DEF Answer, OnTheWire, Call
  <2>2. PICK p \in Process : /\ agents' = [agents EXCEPT ![a] = p] /\ InHand(p) /\ p.pc # "print"
                             /\ \A j \in Job : Before(p, j) => Before(agents[a], j)
    BY <1>1, <2>1, AfterMoves
  <2>3. \A x \in calls' : OnTheWire(x) /\ x \in Call /\ (x.live => x.agent # a)
    BY <1>1, <1>2, <1>4 DEF OneCall, Whole, Shape
  <2>4. \A x \in calls' : OnTheWire(x)'
    BY <1>1, <1>2, <2>1, <2>2, <2>3, CallsStay
  <2>5. OneCall'
    BY <1>1, <1>2 DEF OneCall
  <2>6. Whole'
    BY <1>1, <1>2, <2>1, <2>2, <2>3, <2>4, <2>5, WholeMoves DEF Shape
  <2>7. Counts'
    BY <1>2, <2>1, <2>2, CountsMove
  <2>8. QED
    BY <2>6, <2>7 DEF PInv
<1>5. QED
  BY <1>3, <1>4

(* The server reads the job a report is about,                              *)
LEMMA ReadStep ==
  ASSUME PInv, NEW q \in calls, ReportRead(q)
  PROVE  PInv'
<1>1. Whole /\ Shape /\ q \in Call /\ OnTheWire(q) /\ OneCall
  BY DEF PInv, Whole, Shape
<1>2. jobs' = jobs /\ edits' = edits /\ spare' = spare
  BY DEF ReportRead
<1>3. CASE Answer(q, TRUE) /\ Allowed(jobs[q.job].st, q.say) /\ jobs[q.job].st \notin {"CLAIMED", "PRINTING"}
  BY <1>2, <1>3, Answered DEF Allowed
<1>4. CASE Answer(q, FALSE)
  BY <1>2, <1>4, Answered
<1>5. CASE /\ calls' = (calls \ {q}) \cup {[q EXCEPT !.saw = jobs[q.job].st]} /\ agents' = agents
           /\ jobs[q.job].st \in {"CLAIMED", "PRINTING"}
  <2> DEFINE n == [q EXCEPT !.saw = jobs[q.job].st]
  <2>1. /\ n \in Call /\ n.agent = q.agent /\ n.job = q.job /\ n.say = q.say /\ n.live = q.live
    BY <1>1, <1>5 DEF Call
  <2>2. calls' = (calls \ {q}) \cup {n}
    BY <1>5
  <2> HIDE DEF n
  <2>3. Shape'
    BY <1>1, <1>2, <1>5, <2>1, <2>2 DEF Shape
  <2>4. \A x \in calls' : OnTheWire(x)
    BY <1>1, <2>1, <2>2 DEF OnTheWire, Whole
  <2>5. OneCall'
    BY <1>1, <2>1, <2>2 DEF OneCall
  <2>6. Whole'
    BY <1>1, <1>2, <1>5, <2>3, <2>4, <2>5 DEF Whole, InHand, OnTheWire, PrintedWasSent, Job
  <2>7. Counts'
    BY <1>2, <1>5 DEF PInv, Counts, Count, Printers, Prints, Chance, Owed, Held, Before, Job
  <2>8. QED
    BY <2>6, <2>7 DEF PInv
<1>6. QED
  BY <1>3, <1>4, <1>5 DEF ReportRead

(* An answer to a process that may print now: it was owed the sheet.        *)
LEMMA SentToPrinter ==
  ASSUME PInv, NEW q \in calls, q.live, q.say = "PRINTING",
         NEW r \in JobRow, Kept(r, q.job), jobs' = [jobs EXCEPT ![q.job] = r],
         jobs[q.job].agent = q.agent, jobs[q.job].st \in {"CLAIMED", "PRINTING"},
         r.agent = q.agent, r.st = "PRINTING",
         Answer(q, TRUE), UNCHANGED <<edits, spare>>
  PROVE  PInv'
<1>1. Whole /\ Shape /\ q \in Call /\ OnTheWire(q) /\ OneCall
  BY DEF PInv, Whole, Shape
<1>2. PICK a \in Agent : a = q.agent
  BY <1>1 DEF Call
<1>3. /\ calls' = calls \ {q} /\ edits' = edits /\ spare' = spare /\ q.job \in Job
      /\ agents[a].pc = "wait" /\ agents[a].say = "PRINTING" /\ agents[a].job = q.job
      /\ agents' = After(a, TRUE)
  BY <1>1, <1>2 DEF Answer, OnTheWire
<1>4. PICK p \in Process : /\ agents' = [agents EXCEPT ![a] = p] /\ InHand(p)
                           /\ \A j \in Job : Before(p, j) => Before(agents[a], j)
                           /\ p.pc = "print" /\ p.job = q.job /\ p.todo = agents[a].todo
  <2>1. PICK p \in Process : /\ After(a, TRUE) = [agents EXCEPT ![a] = p] /\ InHand(p)
                             /\ \A j \in Job : Before(p, j) => Before(agents[a], j)
                             /\ agents[a].say = "PRINTING" /\ TRUE
                                  => p.pc = "print" /\ p.job = agents[a].job /\ p.todo = agents[a].todo
    BY <1>1, <1>3, AfterMoves
  <2>2. QED
    BY <1>3, <2>1
<1>5. /\ agents' \in [Agent -> Process] /\ agents'[a] = p
      /\ \A b \in Agent : b # a => agents'[b] = agents[b]
  BY <1>1, <1>4 DEF Shape
<1>6. \A b \in Agent : InHand(agents'[b])
  BY <1>1, <1>4, <1>5 DEF Whole
<1>7. \A x \in calls' : OnTheWire(x) /\ x \in Call /\ (x.live => x.agent # a)
  BY <1>1, <1>2, <1>3 DEF OneCall, Whole, Shape
<1>8. \A x \in calls' : OnTheWire(x) /\ (x.live => agents'[x.agent] = agents[x.agent])
  BY <1>5, <1>7 DEF Call
<1>9. calls' \subseteq Call /\ OneCall'
  BY <1>1, <1>3, <1>7 DEF OneCall
<1>10. /\ Whole' /\ Job' = Job
       /\ \A k \in Job : jobs'[k] = IF k = q.job THEN r ELSE jobs[k]
  BY <1>1, <1>3, <1>5, <1>6, <1>8, <1>9, WholeRow
<1>11. ASSUME NEW k \in Job PROVE Count(k)'
  <2>1. /\ Cardinality(Printers(k)) \in Nat
        /\ Cardinality(Printers(k)') = Cardinality(Printers(k)) - Prints(agents[a], k) + Prints(p, k)
    BY <1>1, <1>4, PrintersMove DEF Shape
  <2>2. Prints(agents[a], k) = 0 /\ Prints(p, k) = IF k = q.job THEN 1 ELSE 0
    BY <1>3, <1>4 DEF Prints
  <2>3. Before(p, k) => Before(agents[a], k)
    BY <1>4
  <2>4. jobs[k] \in JobRow
    BY <1>1 DEF Shape, Job
  <2>5. CASE k = q.job
    <3>1. jobs'[k] = r
      BY <1>10, <2>5
    <3>2. Chance(k) = 1 /\ Owed(k) = 1
      BY <1>2, <1>3, <2>5 DEF Chance, Owed, Held, Before
    <3>3. k \notin p.todo
      BY <1>4, <2>5 DEF InHand
    <3>4. Chance(k)' = 0 /\ Owed(k)' = 0
      BY <1>2, <1>4, <1>5, <3>1, <3>3 DEF Chance, Owed, Held, Before
    <3>5. r.retries >= jobs[k].retries /\ r.retries \in Nat /\ jobs[k].retries \in Nat
      BY <2>4, <2>5 DEF Kept, JobRow
    <3>6. QED
      BY <2>1, <2>2, <2>5, <3>1, <3>2, <3>4, <3>5, CountKept
  <2>6. CASE k # q.job
    <3>1. jobs'[k] = jobs[k]
      BY <1>10, <2>6
    <3>2. Held(k)' => Held(k)
      BY <1>5, <2>3, <3>1 DEF Held
    <3>3. /\ Chance(k)' <= Chance(k) /\ Owed(k)' <= Owed(k)
          /\ {Chance(k), Chance(k)', Owed(k), Owed(k)'} \subseteq {0, 1}
      BY <3>1, <3>2 DEF Chance, Owed
    <3>4. Count(k)
      BY DEF PInv, Counts
    <3>5. jobs[k].sheets \in Nat /\ jobs[k].retries \in Nat /\ jobs[k].tries \in Int
      BY <2>4, PrintConstants DEF JobRow
    <3>6. QED
      BY <2>1, <2>2, <2>6, <3>1, <3>3, <3>4, <3>5 DEF Count
  <2>7. QED
    BY <2>5, <2>6
<1>12. QED
  BY <1>10, <1>11 DEF PInv, Counts

(* Any other result that is written: the process goes on to its next job.   *)
LEMMA Told ==
  ASSUME PInv, NEW q \in calls, q.live, q.say # "PRINTING",
         NEW r \in JobRow, Kept(r, q.job), jobs' = [jobs EXCEPT ![q.job] = r],
         r.st \in {"PRINTED", "FAILED"}, r.retries = jobs[q.job].retries,
         Answer(q, TRUE), UNCHANGED <<edits, spare>>
  PROVE  PInv'
<1>1. Whole /\ Shape /\ q \in Call /\ OnTheWire(q) /\ OneCall
  BY DEF PInv, Whole, Shape
<1>2. PICK a \in Agent : a = q.agent
  BY <1>1 DEF Call
<1>3. /\ calls' = calls \ {q} /\ edits' = edits /\ spare' = spare /\ q.job \in Job
      /\ agents[a].pc = "wait" /\ agents[a].say # "PRINTING" /\ agents' = After(a, TRUE)
  BY <1>1, <1>2 DEF Answer, OnTheWire
<1>4. PICK p \in Process : /\ agents' = [agents EXCEPT ![a] = p] /\ InHand(p) /\ p.pc # "print"
                           /\ \A j \in Job : Before(p, j) => Before(agents[a], j)
  BY <1>1, <1>3, AfterMoves
<1>5. /\ agents' \in [Agent -> Process] /\ agents'[a] = p
      /\ \A b \in Agent : b # a => agents'[b] = agents[b]
  BY <1>1, <1>4 DEF Shape
<1>6. \A b \in Agent : InHand(agents'[b])
  BY <1>1, <1>4, <1>5 DEF Whole
<1>7. \A x \in calls' : OnTheWire(x) /\ x \in Call /\ (x.live => x.agent # a)
  BY <1>1, <1>2, <1>3 DEF OneCall, Whole, Shape
<1>8. \A x \in calls' : OnTheWire(x) /\ (x.live => agents'[x.agent] = agents[x.agent])
  BY <1>5, <1>7 DEF Call
<1>9. calls' \subseteq Call /\ OneCall'
  BY <1>1, <1>3, <1>7 DEF OneCall
<1>10. /\ Whole' /\ Job' = Job
       /\ \A k \in Job : jobs'[k] = IF k = q.job THEN r ELSE jobs[k]
  BY <1>1, <1>3, <1>5, <1>6, <1>8, <1>9, WholeRow
<1>11. ASSUME NEW k \in Job PROVE Count(k)'
  <2>1. /\ Cardinality(Printers(k)) \in Nat
        /\ Cardinality(Printers(k)') = Cardinality(Printers(k)) - Prints(agents[a], k) + Prints(p, k)
    BY <1>1, <1>4, PrintersMove DEF Shape
  <2>2. Prints(agents[a], k) = 0 /\ Prints(p, k) = 0
    BY <1>3, <1>4 DEF Prints
  <2>3. Before(p, k) => Before(agents[a], k)
    BY <1>4
  <2>4. (jobs'[k].st = jobs[k].st /\ jobs'[k].agent = jobs[k].agent) \/ jobs'[k].st \in {"PRINTED", "FAILED"}
    BY <1>10
  <2>5. /\ jobs'[k].sheets = jobs[k].sheets /\ jobs'[k].tries = jobs[k].tries
        /\ jobs'[k].retries = jobs[k].retries
    BY <1>10 DEF Kept
  <2>6. jobs'[k].agent = jobs[k].agent => (Held(k)' => Held(k))
    BY <1>5, <2>3 DEF Held
  <2>7. /\ Chance(k)' <= Chance(k) /\ Owed(k)' <= Owed(k)
        /\ {Chance(k), Chance(k)', Owed(k), Owed(k)'} \subseteq {0, 1}
    BY <2>4, <2>6 DEF Chance, Owed
  <2>8. jobs[k] \in JobRow /\ Count(k)
    BY <1>1 DEF Shape, Job, PInv, Counts
  <2>9. jobs[k].sheets \in Nat /\ jobs[k].retries \in Nat /\ jobs[k].tries \in Int
    BY <2>8, PrintConstants DEF JobRow
  <2>10. QED
    BY <2>1, <2>2, <2>5, <2>7, <2>8, <2>9 DEF Count
<1>12. QED
  BY <1>10, <1>11 DEF PInv, Counts

(* and writes what the report says.                                         *)
LEMMA WriteStep ==
  ASSUME PInv, NEW q \in calls, ReportWrite(q)
  PROVE  PInv'
<1> DEFINE j == q.job
           r == [jobs[j] EXCEPT !.st = q.say, !.lease = (q.say = "PRINTING")]
<1>1. /\ Whole /\ q \in Call /\ j \in Job /\ jobs[j] \in JobRow /\ q.saw # ""
      /\ q.say = "PRINTED" => jobs[j].sheets > 0
      /\ edits' = edits /\ spare' = spare
  <2>1. Whole /\ q \in Call /\ OnTheWire(q) /\ jobs \in Seq(JobRow)
    BY DEF PInv, Whole, Shape
  <2>2. j \in Job /\ (q.say = "PRINTED" => jobs[j].sheets > 0)
    BY <2>1 DEF OnTheWire
  <2>3. jobs[j] \in JobRow
    BY <2>1, <2>2 DEF Job
  <2>4. QED
    BY <2>1, <2>2, <2>3 DEF ReportWrite
<1>2. jobs[j].retries \in Nat /\ jobs[j].retries >= jobs[j].retries
  <2>1. jobs[j] \in JobRow
    BY <1>1
  <2>2. \A x \in JobRow : x.retries \in Nat
    BY DEF JobRow
  <2>3. QED
    BY <2>1, <2>2
<1>3. CASE StillAsRead(q) /\ jobs' = [jobs EXCEPT ![j] = r] /\ Answer(q, TRUE)
  <2>1. /\ jobs[j].st \in {"CLAIMED", "PRINTING"} /\ jobs[j].agent = q.agent
        /\ q.say \in {"PRINTING", "PRINTED", "FAILED"}
    BY <1>1, <1>3 DEF StillAsRead, Call, Reported
  <2>2. /\ r \in JobRow /\ r.st = q.say /\ r.agent = q.agent /\ r.retries = jobs[j].retries
        /\ r.sheets = jobs[j].sheets /\ r.tries = jobs[j].tries
    BY <1>1, <2>1 DEF JobRow, PrintStatus
  <2>3. jobs' = [jobs EXCEPT ![q.job] = r]
    BY <1>3
  <2> HIDE DEF r
  <2>4. Kept(r, j)
    <3>1. r.st = "PRINTED" => r.sheets > 0
      BY <1>1, <2>2
    <3>2. QED
      BY <1>2, <2>2, <3>1 DEF Kept
  <2>5. CASE ~q.live
    <3>1. agents' = agents /\ calls' \subseteq calls
      BY <1>3, <2>5 DEF Answer
    <3>2. \/ r.st \in {"PRINTED", "FAILED", "CANCELLED"}
          \/ r.st = jobs[j].st /\ r.agent = jobs[j].agent
          \/ r.st = "PRINTING" /\ jobs[j].st = "CLAIMED" /\ r.agent = jobs[j].agent
      BY <2>1, <2>2
    <3>3. QED
      BY <1>1, <2>2, <2>3, <2>4, <3>1, <3>2, RowStep
  <2>6. CASE q.live /\ q.say = "PRINTING"
    BY <1>1, <1>3, <2>1, <2>2, <2>3, <2>4, <2>6, SentToPrinter
  <2>7. CASE q.live /\ q.say # "PRINTING"
    BY <1>1, <1>3, <2>1, <2>2, <2>3, <2>4, <2>7, Told
  <2>8. QED
    BY <2>5, <2>6, <2>7
<1>4. CASE jobs' = jobs /\ Answer(q, jobs[j].agent = q.agent /\ jobs[j].st = q.say)
  <2> DEFINE ok == jobs[j].agent = q.agent /\ jobs[j].st = q.say
  <2>1. CASE ~ok \/ q.say # "PRINTING"
    BY <1>1, <1>4, <2>1, Answered
  <2>2. CASE ok /\ q.say = "PRINTING" /\ ~q.live
    <3>1. Answer(q, FALSE)
      BY <1>4, <2>2 DEF Answer
    <3>2. QED
      BY <1>1, <1>4, <3>1, Answered
  <2>3. CASE ok /\ q.say = "PRINTING" /\ q.live
    <3>1. Kept(jobs[j], j)
      BY <1>2, <2>3 DEF Kept
    <3>2. jobs' = [jobs EXCEPT ![q.job] = jobs[j]]
      <4>1. Shape
        BY <1>1 DEF Whole
      <4>2. jobs \in [1..Len(jobs) -> JobRow]
        BY <4>1 DEF Shape
      <4>3. QED
        BY <1>4, <4>2
    <3>3. Answer(q, TRUE)
      BY <1>4, <2>3 DEF Answer
    <3>4. QED
      BY <1>1, <2>3, <3>1, <3>2, <3>3, SentToPrinter
  <2>4. QED
    BY <2>1, <2>2, <2>3
<1>5. QED
  BY <1>3, <1>4 DEF ReportWrite
-----------------------------------------------------------------------------
(* The printer, the clock, the operators.                                   *)
LEMMA PrintStep ==
  ASSUME PInv, NEW a \in Agent, PrintZpl(a) \/ PrintFails(a)
  PROVE  PInv'
<1>1. Whole /\ InHand(agents[a]) /\ agents[a] \in Process /\ agents[a].pc = "print"
  BY DEF PInv, Whole, Shape, PrintZpl, PrintFails
<1>2. /\ spare' \in [jobs : {spare.jobs}, edits : Nat, mishaps : Nat]
      /\ calls' = calls /\ edits' = edits
  <2>1. spare \in [jobs : {spare.jobs}, edits : Nat, mishaps : Nat]
    BY <1>1 DEF Whole, Shape
  <2>2. QED
    BY <1>1, <2>1, MishapSpends DEF PrintZpl, PrintFails
<1>3. ASSUME NEW pc \in {"done", "fail"}, NEW n \in {0, 1}, pc = "done" => n = 1,
             agents' = Onto(a, pc), jobs' = Printed(agents[a].job, n)
      PROVE  PInv'
  <2> DEFINE p == [agents[a] EXCEPT !.pc = pc, !.say = ""]
  <2>1. /\ p \in Process /\ p.pc = pc /\ p.job = agents[a].job
        /\ p.got = agents[a].got /\ p.todo = agents[a].todo
    BY <1>1 DEF Process
  <2>2. agents' = [agents EXCEPT ![a] = p]
    BY <1>3 DEF Onto
  <2> HIDE DEF p
  <2>3. pc = "fail" => InHand(p)
    BY <1>1, <2>1 DEF InHand
  <2>4. \A k \in Job : Before(p, k) => Before(agents[a], k)
    BY <1>1, <2>1 DEF Before
  <2>5. QED
    BY <1>1, <1>2, <1>3, <2>1, <2>2, <2>3, <2>4, PrinterStep
<1>4. ASSUME agents' = NextJob(a), jobs' = Printed(agents[a].job, 1)
      PROVE  PInv'
  <2> DEFINE p == Between(agents[a].todo)
  <2>1. p \in Process /\ InHand(p) /\ p.pc \in {"idle", "next"} /\ p.todo = agents[a].todo
    BY <1>1, BetweenJobs DEF InHand
  <2>2. agents' = [agents EXCEPT ![a] = p]
    BY <1>4 DEF NextJob, TakeUp
  <2> HIDE DEF p
  <2>3. \A k \in Job : Before(p, k) => Before(agents[a], k)
    BY <1>1, <2>1 DEF Before
  <2>4. QED
    BY <1>1, <1>2, <1>4, <2>1, <2>2, <2>3, PrinterStep
<1>5. QED
  BY <1>3, <1>4 DEF PrintZpl, PrintFails

(* The lease of a claim runs out.                                           *)
LEMMA LeaseStep ==
  ASSUME PInv, NEW j \in Job, LeaseExpires(j)
  PROVE  PInv'
<1> DEFINE r == [jobs[j] EXCEPT !.lease = FALSE]
<1>1. jobs[j] \in JobRow
  BY DEF PInv, Whole, Shape, Job
<1>2. /\ r \in JobRow /\ r.st = jobs[j].st /\ r.agent = jobs[j].agent /\ r.sheets = jobs[j].sheets
      /\ r.tries = jobs[j].tries /\ r.retries = jobs[j].retries
  BY <1>1 DEF JobRow
<1>3. /\ jobs' = [jobs EXCEPT ![j] = r]
      /\ agents' = agents /\ calls' = calls /\ edits' = edits /\ spare' = spare
  BY DEF LeaseExpires
<1> HIDE DEF r
<1>4. jobs[j].retries \in Nat
  BY <1>1 DEF JobRow
<1>5. Kept(r, j)
  BY <1>2, <1>4 DEF Kept, PInv, Whole, PrintedWasSent
<1>6. QED
  BY <1>2, <1>3, <1>5, RowStep

(* An operator reads a job,                                                 *)
LEMMA ReadJobStep ==
  ASSUME PInv, NEW kind \in {"retry", "cancel", "reassign"}, EditRead(kind)
  PROVE  PInv'
<1>1. PICK j \in Job :
        /\ spare.edits > 0 /\ edits' = edits \cup {[kind |-> kind, job |-> j]}
        /\ spare' = [spare EXCEPT !.edits = spare.edits - 1]
        /\ jobs' = jobs /\ agents' = agents /\ calls' = calls
  BY DEF EditRead
<1>2. Whole /\ Shape /\ Counts /\ j \in 1..NumJobs
  BY PrintConstants DEF PInv, Whole, Shape, Job
<1>3. Shape'
  BY <1>1, <1>2 DEF Shape
<1>4. Whole'
  BY <1>1, <1>2, <1>3 DEF Whole, InHand, OnTheWire, OneCall, PrintedWasSent, Job
<1>5. Counts'
  BY <1>1, <1>2 DEF Counts, Count, Printers, Prints, Chance, Owed, Held, Before, Job
<1>6. QED
  BY <1>4, <1>5 DEF PInv

(* and writes what was read into a decision.                                *)
LEMMA EditStep ==
  ASSUME PInv, NEW e \in edits, EditWrite(e)
  PROVE  PInv'
<1> DEFINE j == e.job
<1>1. /\ j \in Job /\ agents' = agents /\ calls' = calls /\ edits' = edits \ {e} /\ spare' = spare
  BY DEF EditWrite, PInv, Whole
<1>2. jobs[j] \in JobRow
  BY <1>1 DEF PInv, Whole, Shape, Job
<1>3. jobs[j].retries \in Nat
  BY <1>2 DEF JobRow
<1> HIDE DEF j
<1>4. ASSUME NEW a \in Agent \cup {NoAgent}, NEW p \in Printer, jobs' = Requeued(j, a, p)
      PROVE  PInv'
  <2> DEFINE r == [jobs[j] EXCEPT !.st = "QUEUED", !.agent = a, !.printer = p, !.lease = FALSE,
                                  !.retries = jobs[j].retries + 1]
  <2>1. /\ r \in JobRow /\ r.st = "QUEUED" /\ r.sheets = jobs[j].sheets
        /\ r.tries = jobs[j].tries /\ r.retries = jobs[j].retries + 1
    <3> DEFINE m == jobs[j].retries + 1
    <3>1. m \in Nat /\ "QUEUED" \in PrintStatus
      BY <1>3 DEF PrintStatus
    <3> HIDE DEF m
    <3>2. QED
      BY <1>2, <3>1 DEF JobRow, m
  <2>2. jobs' = [jobs EXCEPT ![j] = r]
    BY <1>4 DEF Requeued
  <2> HIDE DEF r
  <2>3. Kept(r, j)
    BY <1>3, <2>1 DEF Kept
  <2>4. QED
    BY <1>1, <2>1, <2>2, <2>3, RowStep
<1>5. CASE RetryRuntimePrintJob(e)
  BY <1>4, <1>5 DEF RetryRuntimePrintJob, j
<1>6. CASE CancelRuntimePrintJob(e)
  <2> DEFINE r == [jobs[j] EXCEPT !.st = "CANCELLED", !.lease = FALSE]
  <2>1. /\ r \in JobRow /\ r.st = "CANCELLED" /\ r.sheets = jobs[j].sheets
        /\ r.tries = jobs[j].tries /\ r.retries = jobs[j].retries
    BY <1>2 DEF JobRow, PrintStatus
  <2>2. jobs' = [jobs EXCEPT ![j] = r]
    BY <1>6 DEF CancelRuntimePrintJob, j
  <2> HIDE DEF r
  <2>3. Kept(r, j)
    BY <1>3, <2>1 DEF Kept
  <2>4. QED
    BY <1>1, <2>1, <2>2, <2>3, RowStep
<1>7. CASE ReassignRuntimePrintJob(e)
  <2>1. CASE jobs' = jobs
    <3>1. Shape' /\ OneCall' /\ PrintedWasSent' /\ (\A x \in edits : x.job \in Job)'
      BY <1>1, <2>1 DEF PInv, Whole, Shape, OneCall, PrintedWasSent, Job
    <3>2. (\A a \in Agent : InHand(agents[a])') /\ \A q \in calls' : OnTheWire(q)'
      BY <1>1, <2>1 DEF PInv, Whole, InHand, OnTheWire, Job
    <3>3. Counts'
      BY <1>1, <2>1 DEF PInv, Job, Counts, Count, Printers, Prints, Chance, Owed, Held, Before
    <3>4. QED
      BY <1>1, <3>1, <3>2, <3>3 DEF PInv, Whole
  <2>2. QED
    BY <1>4, <1>7, <2>1 DEF ReassignRuntimePrintJob, j
<1>8. QED
  BY <1>5, <1>6, <1>7 DEF EditWrite

(* A new job: it is nobody's yet.                                           *)
LEMMA CreateStep ==
  ASSUME PInv, NEW a \in Agent \cup {NoAgent}, NEW p \in Printer, Create(a, p)
  PROVE  PInv'
<1> DEFINE r == NewJob(a, p)
           n == Len(jobs) + 1
<1>1. /\ jobs' = Append(jobs, r) /\ agents' = agents /\ calls' = calls /\ edits' = edits
      /\ spare.jobs > 0 /\ spare' = [spare EXCEPT !.jobs = spare.jobs - 1]
  BY DEF Create
<1>2. Whole /\ Shape /\ Counts
  BY DEF PInv, Whole
<1>3. r \in JobRow /\ r.st = "QUEUED" /\ r.sheets = 0 /\ r.tries = 0 /\ r.retries = 0
  BY PrintConstants DEF NewJob, JobRow, PrintStatus
<1> HIDE DEF r
<1>4. /\ jobs' \in Seq(JobRow) /\ Len(jobs') = n /\ Job' = Job \cup {n} /\ n \notin Job
      /\ jobs'[n] = r /\ \A k \in Job : jobs'[k] = jobs[k]
  BY <1>1, <1>2, <1>3 DEF Shape, Job
<1>5. Shape'
  <2>1. /\ Len(jobs) \in Nat /\ spare \in [jobs : 0..NumJobs, edits : Nat, mishaps : Nat]
        /\ Len(jobs) + spare.jobs <= NumJobs
    BY <1>2 DEF Shape
  <2>2. /\ spare' \in [jobs : 0..NumJobs, edits : Nat, mishaps : Nat]
        /\ spare'.jobs = spare.jobs - 1
    BY <1>1, <2>1, PrintConstants
  <2>3. Len(jobs') + spare'.jobs <= NumJobs
    BY <1>4, <2>1, <2>2, PrintConstants
  <2>4. QED
    BY <1>1, <1>2, <1>4, <2>2, <2>3 DEF Shape
<1> HIDE DEF n
<1>6. \A b \in Agent : InHand(agents[b])'
  <2>1. ASSUME NEW b \in Agent PROVE InHand(agents[b])'
    <3>1. InHand(agents[b])
      BY <1>2 DEF Whole
    <3>2. agents'[b] = agents[b]
      BY <1>1
    <3>3. QED
      BY <1>4, <3>1, <3>2 DEF InHand
  <2>2. QED
    BY <2>1
<1>7. \A q \in calls : OnTheWire(q)'
  BY <1>1, <1>2, <1>4 DEF OnTheWire, Whole
<1>8. PrintedWasSent'
  BY <1>2, <1>3, <1>4 DEF PrintedWasSent, Whole
<1>9. Whole'
  BY <1>1, <1>2, <1>4, <1>5, <1>6, <1>7, <1>8 DEF Whole, OneCall
<1>10. ASSUME NEW k \in Job' PROVE Count(k)'
  <2>1. Printers(k)' = Printers(k)
    BY <1>1 DEF Printers, Prints
  <2>2. CASE k = n
    <3>1. Printers(k) = {}
      BY <1>2, <1>4, <2>2 DEF Printers, Prints, Whole, InHand
    <3>2. Cardinality(Printers(k)') = 0
      BY <2>1, <3>1, FS_EmptySet
    <3>3. Chance(k)' = 1 /\ Owed(k)' = 0
      BY <1>3, <1>4, <2>2 DEF Chance, Owed
    <3>4. QED
      BY <1>3, <1>4, <2>2, <3>2, <3>3 DEF Count
  <2>3. CASE k \in Job
    <3>1. jobs'[k] = jobs[k]
      BY <1>4, <2>3
    <3>2. Chance(k)' = Chance(k) /\ Owed(k)' = Owed(k)
      BY <1>1, <3>1 DEF Chance, Owed, Held
    <3>3. QED
      BY <1>2, <2>1, <2>3, <3>1, <3>2 DEF Count, Counts
  <2>4. QED
    BY <1>4, <2>2, <2>3
<1>11. QED
  BY <1>9, <1>10 DEF PInv, Counts
-----------------------------------------------------------------------------
(* PInv is inductive.                                                       *)
LEMMA Beginning == PrintInit => PInv
<1> SUFFICES ASSUME PrintInit PROVE PInv
  OBVIOUS
<1>1. Job = {} /\ jobs \in Seq(JobRow) /\ Len(jobs) = 0 /\ calls = {} /\ edits = {}
  BY DEF PrintInit, Job
<1>2. /\ Asleep \in Process /\ Asleep.pc = "idle" /\ Asleep.todo = {} /\ Asleep.got = {}
  BY PrintConstants DEF Asleep, Between, Process, Reported
<1>3. agents \in [Agent -> Process] /\ \A a \in Agent : InHand(agents[a])
  BY <1>2 DEF PrintInit, InHand
<1>4. spare \in [jobs : 0..NumJobs, edits : Nat, mishaps : Nat]
  BY PrintConstants DEF PrintInit
<1>5. Shape
  BY <1>1, <1>3, <1>4, PrintConstants DEF Shape
<1>6. QED
  BY <1>1, <1>3, <1>5 DEF PInv, Whole, Counts, OneCall, PrintedWasSent

(* Every step of the queue, its agents and its operators.                   *)
LEMMA EveryStep == PInv /\ [PrintNext]_printVars => PInv'
<1> SUFFICES ASSUME PInv, [PrintNext]_printVars PROVE PInv'
  OBVIOUS
<1>1. CASE CreateRuntimePrintJob
  BY <1>1, CreateStep DEF CreateRuntimePrintJob
<1>2. CASE ReprintRuntimePrintJob
  BY <1>2, CreateStep DEF ReprintRuntimePrintJob
<1>3. CASE \E a \in Agent : AgentStep(a)
  BY <1>3, SelectStep, ClaimStep, AnswerStep, StartStep, PrintStep, SayStep DEF AgentStep
<1>4. CASE \E a \in Agent : PrintFails(a) \/ AgentTimeout(a) \/ AgentCrash(a)
  BY <1>4, PrintStep, TimeoutStep
<1>5. CASE CallStep
  BY <1>5, ReadStep, WriteStep DEF CallStep
<1>6. CASE \E j \in Job : LeaseExpires(j)
  BY <1>6, LeaseStep
<1>7. CASE \E k \in {"retry", "cancel", "reassign"} : EditRead(k)
  BY <1>7, ReadJobStep
<1>8. CASE \E e \in edits : EditWrite(e)
  BY <1>8, EditStep
<1>9. CASE UNCHANGED printVars
  <2>1. Whole' /\ Counts'
    BY <1>9 DEF printVars, PInv, Whole, Shape, InHand, OnTheWire, OneCall, PrintedWasSent, Job, Counts,
       Count, Printers, Prints, Chance, Owed, Held, Before
  <2>2. QED
    BY <2>1 DEF PInv
<1>10. QED
  BY <1>1, <1>2, <1>3, <1>4, <1>5, <1>6, <1>7, <1>8, <1>9 DEF PrintNext

(* What the invariant says of the labels.                                   *)
LEMMA Consequences == PInv => PrintTypeOK /\ NoBlindReprint /\ PrintedWasSent
<1> SUFFICES ASSUME PInv PROVE PrintTypeOK /\ NoBlindReprint /\ PrintedWasSent
  OBVIOUS
<1>1. PrintTypeOK /\ PrintedWasSent
  BY DEF PInv, Whole, Shape, PrintTypeOK
<1>2. ASSUME NEW j \in Job
      PROVE  jobs[j].sheets <= 1 + jobs[j].retries /\ jobs[j].sheets <= MaxAttempts
  <2>1. IsFiniteSet(Printers(j))
    BY PrintConstants, FS_Subset DEF Printers
  <2>2. Cardinality(Printers(j)) \in Nat
    BY <2>1, FS_CardinalityType
  <2>3. Chance(j) \in {0, 1} /\ Owed(j) \in {0, 1} /\ Count(j)
    BY DEF Chance, Owed, PInv, Counts
  <2>4. jobs[j] \in JobRow
    BY DEF PInv, Whole, Shape, Job
  <2>5. /\ jobs[j].sheets \in Nat /\ jobs[j].retries \in Nat
        /\ jobs[j].tries \in Int /\ jobs[j].tries <= MaxAttempts
    BY <2>4, PrintConstants DEF JobRow
  <2>6. QED
    BY <2>2, <2>3, <2>5, PrintConstants DEF Count
<1>3. QED
  BY <1>1, <1>2 DEF NoBlindReprint

(* claimPrintJobs, reportPrintJobResult, processJob and the operators' retry, *)
(* cancel and reassign, in any order and with any answer lost: a job is sent *)
(* to a printer once, once more for each retry, and max_attempts times at   *)
(* most.                                                                     *)
THEOREM NoLabelTwice == PrintSpec => []NoBlindReprint
<1>1. PrintSpec => []PInv
  BY Beginning, EveryStep, PTL DEF PrintSpec
<1>2. QED
  BY <1>1, Consequences, PTL

(* A job that reportPrintJobResult marks PRINTED was sent to a printer, also *)
(* when the report of its start got no answer; and the rows, processes and  *)
(* calls keep their types.                                                  *)
THEOREM PrintedIsPrinted == PrintSpec => [](PrintedWasSent /\ PrintTypeOK)
<1>1. PrintSpec => []PInv
  BY Beginning, EveryStep, PTL DEF PrintSpec
<1>2. QED
  BY <1>1, Consequences, PTL

-----------------------------------------------------------------------------
(* A step of an operation of the queue on the device.                       *)
Works(o) == \/ ReadFallback(o) \/ ReadStore(o) \/ MergeFallback(o) \/ RemoveFallback(o)
            \/ PersistQueue(o) \/ EndOp(o)

(* What the steps of an operation leave alone, and what an operation that   *)
(* goes on keeps: its kind, its keys and its visit.                         *)
LEMMA WorksFrame ==
  ASSUME OfflineTypeOK, NEW o \in ops, Works(o)
  PROVE  /\ syncs' = syncs /\ row' = row /\ session' = session
         /\ history'.applied = history.applied /\ history'.next = history.next
         /\ page'.confirmed = page.confirmed
<1>1. history \in History /\ page \in Page
  BY DEF OfflineTypeOK
<1>2. syncs' = syncs /\ row' = row /\ session' = session
  BY DEF Works, ReadFallback, ReadStore, MergeFallback, RemoveFallback, PersistQueue, EndOp,
     serverVars
<1>3. /\ Fault \/ OnFallbackAlone(o) \/ Wrote(0) \/ Wrote(1) \/ UNCHANGED history
      /\ Fails(o) \/ UNCHANGED page \/ EndOp(o)
  BY DEF Works, ReadFallback, ReadStore, MergeFallback, RemoveFallback, PersistQueue, EndOp,
     OnFallbackAlone
<1>4. history'.applied = history.applied /\ history'.next = history.next
  BY <1>1, <1>3 DEF Fault, OnFallbackAlone, Wrote, History
<1>5. page'.confirmed = page.confirmed
  BY <1>1, <1>3 DEF Fails, EndOp, Page
<1>6. QED
  BY <1>2, <1>4, <1>5

(* One operation of the queue on the device keeps its types.                *)
LEMMA DeviceTypes ==
  ASSUME OfflineTypeOK, NEW o \in ops, Works(o)
  PROVE  OfflineTypeOK'
<1>1. /\ o \in Operation /\ ops \subseteq Operation /\ o.stored \in SUBSET Scan
      /\ o.fb \in Fallback /\ o.fb.keys \in SUBSET Scan /\ idb \in SUBSET Scan
      /\ fallback \in Fallback /\ page \in Page /\ history \in History
  BY DEF OfflineTypeOK, Operation, Fallback
<1>2. Changed(o) \in SUBSET Scan
  BY <1>1 DEF Changed, Operation
<1>3. ASSUME NEW q \in Operation, Becomes(o, q) PROVE ops' \subseteq Operation
  BY <1>1, <1>3 DEF Becomes
<1>4. ASSUME NEW S \in SUBSET Scan, Loaded(o, S) PROVE ops' \subseteq Operation
  <2>1. [o EXCEPT !.stored = S, !.pc = IF o.kind = "load" THEN "end" ELSE "persist"] \in Operation
    BY <1>1 DEF Operation
  <2>2. QED
    BY <1>3, <1>4, <2>1 DEF Loaded
<1>5. ASSUME NEW pc \in {"clean", "drop", "end"}, Goto(o, pc) PROVE ops' \subseteq Operation
  <2>1. [o EXCEPT !.pc = pc] \in Operation
    BY <1>1 DEF Operation
  <2>2. QED
    BY <1>3, <1>5, <2>1 DEF Goto
<1>6. Fault => history' \in History
  BY <1>1 DEF Fault, History
<1>7. Fails(o) => page' \in Page /\ ops' \subseteq Operation
  BY <1>1 DEF Fails, Page
<1>8. OnFallbackAlone(o) => history' \in History /\ page' = page /\ ops' \subseteq Operation
  <2>1. PICK b \in BOOLEAN : b = (history.misled \/ (o.kind # "load" /\ o.fb.old))
    OBVIOUS
  <2>2. OnFallbackAlone(o) =>
          /\ Loaded(o, o.fb.keys) /\ page' = page /\ history.faults > 0
          /\ history' = [history EXCEPT !.faults = @ - 1, !.misled = b]
    BY <2>1, Zenon DEF OnFallbackAlone
  <2>3. ASSUME history.faults > 0
        PROVE  [history EXCEPT !.faults = history.faults - 1, !.misled = b] \in History
    <3>1. history.faults - 1 \in Nat
      BY <1>1, <2>3 DEF History
    <3>2. QED
      BY <1>1, <3>1 DEF History
  <2>4. QED
    BY <1>1, <1>4, <2>2, <2>3, Zenon
<1>9. ASSUME NEW n \in {0, 1}, Wrote(n) PROVE history' \in History
  <2>1. history.faults \in Nat /\ n <= history.faults /\ history.faults - n \in Nat
    BY <1>1, <1>9 DEF Wrote, History
  <2>2. PICK b \in BOOLEAN : b = (history.raced \/ Crossed)
    OBVIOUS
  <2>3. history' = [history EXCEPT !.faults = @ - n, !.raced = b]
    BY <1>9, <2>2, Zenon DEF Wrote
  <2>4. QED
    BY <1>1, <2>1, <2>3 DEF History
<1>10. CASE ReadFallback(o)
  <2>1. [o EXCEPT !.fb = fallback, !.pc = "read"] \in Operation
    BY <1>1 DEF Operation
  <2>2. ops' \subseteq Operation /\ page' \in Page /\ history' \in History
    BY <1>1, <1>3, <1>6, <1>7, <1>10, <2>1 DEF ReadFallback
  <2>3. QED
    BY <1>10, <2>2 DEF ReadFallback, OfflineTypeOK, serverVars
<1>11. CASE ReadStore(o)
  <2>1. [o EXCEPT !.stored = idb \cup o.fb.keys, !.pc = "merge"] \in Operation
    BY <1>1 DEF Operation
  <2>2. ops' \subseteq Operation /\ page' \in Page /\ history' \in History
    BY <1>1, <1>3, <1>4, <1>6, <1>7, <1>8, <1>11, <2>1 DEF ReadStore
  <2>3. QED
    BY <1>11, <2>2 DEF ReadStore, OfflineTypeOK, serverVars
<1>12. CASE MergeFallback(o)
  <2>1. ops' \subseteq Operation /\ page' \in Page /\ history' \in History /\ idb' \subseteq Scan
    BY <1>1, <1>5, <1>8, <1>12 DEF MergeFallback
  <2>2. QED
    BY <1>12, <2>1 DEF MergeFallback, OfflineTypeOK, serverVars
<1>13. CASE RemoveFallback(o)
  <2>1. ops' \subseteq Operation
    BY <1>1, <1>4, <1>5, <1>13 DEF RemoveFallback
  <2>2. fallback' \in Fallback /\ history' \in History
    <3>1. NoFallback \in Fallback /\ [fallback EXCEPT !.old = TRUE] \in Fallback
      BY <1>1 DEF Fallback, NoFallback
    <3>2. QED
      BY <1>1, <1>6, <1>13, <3>1 DEF RemoveFallback
  <2>3. QED
    BY <1>13, <2>1, <2>2 DEF RemoveFallback, OfflineTypeOK, serverVars
<1>14. CASE PersistQueue(o)
  <2>1. /\ ops' \subseteq Operation /\ page' \in Page /\ history' \in History
        /\ idb' \subseteq Scan /\ fallback' \in Fallback
    <3>1. CASE idb' = Changed(o) /\ Goto(o, "drop") /\ Wrote(0) /\ UNCHANGED <<fallback, page>>
      BY <1>1, <1>2, <1>5, <1>9, <3>1
    <3>2. CASE /\ fallback' = [is |-> TRUE, keys |-> Changed(o), old |-> FALSE]
               /\ Goto(o, "end") /\ Wrote(1) /\ UNCHANGED <<idb, page>>
      BY <1>1, <1>2, <1>5, <1>9, <3>2 DEF Fallback
    <3>3. CASE Fault /\ Fails(o) /\ UNCHANGED <<idb, fallback>>
      BY <1>1, <1>6, <1>7, <3>3
    <3>4. QED
      BY <1>14, <3>1, <3>2, <3>3 DEF PersistQueue
  <2>2. QED
    BY <1>14, <2>1 DEF PersistQueue, OfflineTypeOK, serverVars
<1>15. CASE EndOp(o)
  <2>1. page' \in Page
    <3>1. ASSUME NEW S \in SUBSET Scan
          PROVE  [page EXCEPT !.pending = S] \in Page /\ [page EXCEPT !.pending = S, !.loaded = TRUE] \in Page
      BY <1>1 DEF Page
    <3>2. \/ page' = page \/ page' = [page EXCEPT !.pending = Changed(o)]
          \/ page' = [page EXCEPT !.pending = o.stored, !.loaded = TRUE]
      BY <1>15 DEF EndOp
    <3>3. QED
      BY <1>1, <1>2, <3>1, <3>2
  <2>2. acked' \subseteq Scan /\ ops' \subseteq Operation
    BY <1>1, <1>15 DEF OfflineTypeOK, EndOp, Operation
  <2>3. QED
    BY <1>15, <2>1, <2>2 DEF OfflineTypeOK, EndOp, serverVars
<1>16. QED
  BY <1>10, <1>11, <1>12, <1>13, <1>14, <1>15 DEF Works

(* So does one step of the page,                                            *)
LEMMA PageTypes ==
  ASSUME OfflineTypeOK,
         SubmitScan \/ SyncPending \/ RemoveConfirmed \/ ReloadPage \/ Revisit \/ SyncFails
  PROVE  OfflineTypeOK'
<1>1. Fault => history' \in History
  BY DEF OfflineTypeOK, Fault, History
<1>2. page \in Page /\ page.id + 1 \in Nat \ {0} /\ page.visit + 1 \in Nat \ {0}
  BY DEF OfflineTypeOK, Page
<1>3. ASSUME NEW kind \in {"load", "append", "remove"}, NEW S \in SUBSET Scan, NEW v \in Nat
      PROVE  Begun(kind, S, v) \in Operation
  BY DEF Begun, Operation, Fallback, NoFallback
<1>4. CASE SubmitScan
  <2>1. ops' \subseteq Operation
    BY <1>3, <1>4 DEF OfflineTypeOK, SubmitScan, Enqueue
  <2>2. history' \in History
    BY <1>4 DEF OfflineTypeOK, SubmitScan, History
  <2>3. QED
    BY <1>4, <2>1, <2>2 DEF OfflineTypeOK, SubmitScan, serverVars
<1>5. CASE SyncPending
  <2>1. page' \in Page
    BY <1>5 DEF OfflineTypeOK, SyncPending, Page
  <2>2. [todo |-> page.pending, now |-> 0, pc |-> "ingest", saw |-> 0,
         ok |-> FALSE, confirmed |-> {}, page |-> page.id] \in Sync
    BY OfflineConstants DEF OfflineTypeOK, Page, Sync
  <2>3. QED
    BY <1>5, <2>1, <2>2 DEF OfflineTypeOK, SyncPending
<1>6. CASE RemoveConfirmed
  <2>1. page' \in Page
    <3>1. page.confirmed \in Seq(SUBSET Scan) /\ page.confirmed # <<>>
      BY <1>2, <1>6 DEF RemoveConfirmed, Page
    <3>2. Tail(page.confirmed) \in Seq(SUBSET Scan)
      BY <3>1
    <3>3. QED
      BY <1>2, <1>6, <3>2 DEF RemoveConfirmed, Page
  <2>2. ops' \subseteq Operation
    <3>1. Head(page.confirmed) \in SUBSET Scan
      BY <1>6 DEF OfflineTypeOK, RemoveConfirmed, Page
    <3>2. QED
      BY <1>3, <1>6, <3>1 DEF RemoveConfirmed, Enqueue, OfflineTypeOK
  <2>3. QED
    BY <1>6, <2>1, <2>2 DEF OfflineTypeOK, RemoveConfirmed, serverVars
<1>7. CASE ReloadPage
  <2>1. page' \in Page
    BY <1>2, <1>7 DEF ReloadPage, NewPage, Page
  <2>2. ops' \subseteq Operation
    BY <1>2, <1>3, <1>7 DEF ReloadPage, LoadPage
  <2>3. QED
    BY <1>1, <1>7, <2>1, <2>2 DEF OfflineTypeOK, ReloadPage, serverVars
<1>8. CASE Revisit
  <2>1. page' \in Page
    BY <1>2, <1>8 DEF Revisit, Page
  <2>2. ops' \subseteq Operation
    BY <1>2, <1>3, <1>8 DEF Revisit, LoadPage, OfflineTypeOK
  <2>3. QED
    BY <1>1, <1>8, <2>1, <2>2 DEF OfflineTypeOK, Revisit, serverVars
<1>9. CASE SyncFails
  <2>1. page' \in Page
    BY <1>2, <1>9 DEF SyncFails, Page
  <2>2. QED
    BY <1>1, <1>9, <2>1 DEF OfflineTypeOK, SyncFails, serverVars
<1>10. QED
  BY <1>4, <1>5, <1>6, <1>7, <1>8, <1>9

(* An element of a sequence.                                                *)
LEMMA SeqElement ==
  ASSUME NEW S, NEW s \in Seq(S), NEW i \in DOMAIN s
  PROVE  s[i] \in S
  OBVIOUS

(* Replacing an element keeps a sequence one over the same set.             *)
LEMMA SeqExcept ==
  ASSUME NEW S, NEW s \in Seq(S), NEW i \in DOMAIN s, NEW e \in S
  PROVE  [s EXCEPT ![i] = e] \in Seq(S) /\ DOMAIN [s EXCEPT ![i] = e] = DOMAIN s
  OBVIOUS

(* A request at work has a scan in hand, and the step it has read exists.   *)
AtWork == \A r \in syncs : /\ r.pc # "ingest" => r.now \in Scan
                           /\ r.pc = "commit" => r.saw \in DOMAIN session.steps

(* and one step of a sync request on the server.                            *)
LEMMA SyncTypes ==
  ASSUME OfflineTypeOK, AtWork, NEW r \in syncs,
         \/ Ingest(r) \/ ScanRead(r) \/ ScanCommit(r) \/ ScanRefused(r) \/ Record(r)
         \/ Respond(r) \/ ServerDies(r)
  PROVE  OfflineTypeOK'
<1>1. r \in Sync /\ syncs \subseteq Sync /\ row \in [Scan -> RowStatus]
  BY DEF OfflineTypeOK
<1>2. ASSUME NEW q \in Sync, Update(r, q) PROVE syncs' \subseteq Sync
  BY <1>1, <1>2 DEF Update
<1>3. ASSUME NEW q \in Sync, NEW S \in SUBSET Scan PROVE NextScan(q, S) \in Sync
  <2>1. 0 \in 0..NumScans
    BY OfflineConstants
  <2>2. QED
    BY <1>3, <2>1 DEF NextScan, Sync
<1>4. Fault => history' \in History
  BY DEF OfflineTypeOK, Fault, History
<1>5. CASE Ingest(r)
  <2>1. PICK k \in Newest(r.todo) :
          LET q == [r EXCEPT !.todo = @ \ {k}] IN
            \/ /\ row' = [row EXCEPT ![k] = "QUEUED"]
               /\ \/ Update(r, [q EXCEPT !.pc = "read", !.now = k])
                  \/ Update(r, NextScan(q, {}))
            \/ /\ row' = [row EXCEPT ![k] = IF @ = "SYNCED" THEN "SYNCED" ELSE "DUPLICATE"]
               /\ Update(r, NextScan(q, {k}))
    BY <1>5 DEF Ingest
  <2> DEFINE q == [r EXCEPT !.todo = @ \ {k}]
  <2>2. k \in Scan /\ k \in 0..NumScans
    BY <1>1, OfflineConstants DEF Newest, Sync, Scan
  <2>3. q \in Sync
    BY <1>1 DEF Sync
  <2>4. [q EXCEPT !.pc = "read", !.now = k] \in Sync
    BY <2>2, <2>3 DEF Sync
  <2> HIDE DEF q
  <2>5. syncs' \subseteq Sync
    BY <1>2, <1>3, <2>1, <2>2, <2>3, <2>4 DEF q
  <2>6. row' \in [Scan -> RowStatus]
    BY <1>1, <2>1 DEF RowStatus
  <2>7. QED
    BY <1>5, <2>5, <2>6 DEF Ingest, OfflineTypeOK, deviceVars
<1>6. CASE ScanRead(r)
  <2>1. [r EXCEPT !.pc = "record", !.ok = FALSE] \in Sync
    BY <1>1 DEF Sync
  <2>2. ASSUME NEW i \in OpenSteps PROVE [r EXCEPT !.pc = "commit", !.saw = i] \in Sync
    <3>1. i \in Nat
      BY DEF OpenSteps, OfflineTypeOK, Session
    <3>2. QED
      BY <1>1, <3>1 DEF Sync
  <2>3. syncs' \subseteq Sync
    BY <1>2, <1>6, <2>1, <2>2 DEF ScanRead
  <2>4. QED
    BY <1>6, <2>3 DEF ScanRead, OfflineTypeOK, deviceVars
<1>7. CASE ScanRefused(r)
  <2>1. [r EXCEPT !.pc = "record", !.ok = FALSE] \in Sync
    BY <1>1 DEF Sync
  <2>2. syncs' \subseteq Sync
    BY <1>2, <1>7, <2>1 DEF ScanRefused
  <2>3. QED
    BY <1>4, <1>7, <2>2 DEF ScanRefused, OfflineTypeOK, deviceVars
<1>8. CASE Record(r)
  <2>1. syncs' \subseteq Sync
    <3>1. r.now \in Scan
      BY <1>8 DEF AtWork, Record
    <3>2. (IF r.ok THEN {r.now} ELSE {}) \in SUBSET Scan
      BY <3>1
    <3>3. NextScan(r, IF r.ok THEN {r.now} ELSE {}) \in Sync
      BY <1>1, <1>3, <3>2
    <3>4. QED
      BY <1>2, <1>8, <3>3 DEF Record
  <2>2. row' \in [Scan -> RowStatus]
    BY <1>1, <1>8 DEF Record, RowStatus
  <2>3. QED
    BY <1>8, <2>1, <2>2 DEF Record, OfflineTypeOK, deviceVars
<1>9. CASE Respond(r)
  <2>1. page' \in Page
    <3>1. page \in Page /\ page.confirmed \in Seq(SUBSET Scan) /\ r.confirmed \in SUBSET Scan
      BY <1>1 DEF OfflineTypeOK, Page, Sync
    <3>2. Append(page.confirmed, r.confirmed) \in Seq(SUBSET Scan)
      BY <3>1
    <3>3. QED
      BY <1>9, <3>1, <3>2 DEF Respond, Page
  <2>2. QED
    BY <1>9, <2>1 DEF Respond, OfflineTypeOK, deviceVars
<1>10. CASE ServerDies(r)
  <2>1. page' \in Page
    BY <1>10 DEF ServerDies, OfflineTypeOK, Page
  <2>2. QED
    BY <1>4, <1>10, <2>1 DEF ServerDies, OfflineTypeOK, deviceVars
<1>11. CASE ScanCommit(r)
  <2> DEFINE i == r.saw
  <2>1. IsExpected(i, r.now) \in BOOLEAN
    BY DEF IsExpected
  <2>2. [r EXCEPT !.pc = "record", !.ok = IsExpected(i, r.now)] \in Sync
    BY <1>1, <2>1 DEF Sync
  <2>3. syncs' \subseteq Sync
    BY <1>2, <1>11, <2>2 DEF ScanCommit
  <2>4. session' \in Session
    <3>1. /\ session \in Session
          /\ i \in DOMAIN session.steps /\ session.steps \in Seq([n : 1..NumSteps, open : BOOLEAN])
      BY <1>11 DEF OfflineTypeOK, AtWork, ScanCommit, Session
    <3>2. /\ session.steps[i] \in [n : 1..NumSteps, open : BOOLEAN]
          /\ session.steps[i].n \in 1..NumSteps
      <4>1. session.steps[i] \in [n : 1..NumSteps, open : BOOLEAN]
        BY <3>1, SeqElement
      <4>2. QED
        BY <4>1
    <3>3. StepDone(i) \in Seq([n : 1..NumSteps, open : BOOLEAN])
      <4>1. [session.steps[i] EXCEPT !.open = FALSE] \in [n : 1..NumSteps, open : BOOLEAN]
        BY <3>2
      <4>2. QED
        BY <3>1, <4>1, SeqExcept DEF StepDone
    <3>4. session.steps[i].n < NumSteps => session.steps[i].n + 1 \in 1..NumSteps
      <4>1. ASSUME NEW n \in 1..NumSteps, n < NumSteps PROVE n + 1 \in 1..NumSteps
        BY <4>1, OfflineConstants
      <4>2. QED
        BY <3>2, <4>1
    <3>5. CASE IsExpected(i, r.now) /\ session.steps[i].n < NumSteps
      <4>1. Append(StepDone(i), [n |-> session.steps[i].n + 1, open |-> TRUE])
              \in Seq([n : 1..NumSteps, open : BOOLEAN])
        BY <3>3, <3>4, <3>5
      <4>2. QED
        BY <1>11, <3>1, <3>5, <4>1 DEF ScanCommit, Session
    <3>6. CASE IsExpected(i, r.now) /\ ~(session.steps[i].n < NumSteps)
      BY <1>11, <3>3, <3>6 DEF ScanCommit, Session
    <3>7. QED
      BY <1>11, <3>1, <3>5, <3>6 DEF ScanCommit
  <2>5. history' \in History
    <3>1. /\ history' = [history EXCEPT !.applied[r.now] = history.applied[r.now] + 1]
          \/ history' = history
      BY <1>11 DEF ScanCommit
    <3>2. history \in History /\ history.applied \in [Scan -> Nat] /\ r.now \in Scan
      BY <1>11 DEF OfflineTypeOK, AtWork, ScanCommit, History
    <3>3. [history.applied EXCEPT ![r.now] = history.applied[r.now] + 1] \in [Scan -> Nat]
      BY <3>2
    <3>4. QED
      BY <3>1, <3>2, <3>3 DEF History
  <2>6. QED
    BY <1>11, <2>3, <2>4, <2>5 DEF ScanCommit, OfflineTypeOK, deviceVars
<1>12. QED
  BY <1>5, <1>6, <1>7, <1>8, <1>9, <1>10, <1>11

-----------------------------------------------------------------------------
(* What the server has a row for; what the device still owes it is          *)
(* Unanswered.                                                              *)
Known == {k \in Scan : row[k] # "NONE"}

(* One append or removal runs at a time, and removes only what the server   *)
(* answered for; only a load that found a fallback writes, and only then.   *)
Turns ==
  /\ fallback.is \/ fallback.keys = {}
  /\ \A o \in ops : /\ o.fb.is \/ o.fb.keys = {}
                    /\ o.pc \in {"merge", "clean"} => o.fb.is
                    /\ o.pc \in {"persist", "drop"} => o.kind # "load"
                    /\ o.kind = "remove" => o.keys \subseteq Known
  /\ \A o, q \in ops :
       o.kind # "load" /\ q.kind # "load" /\ o.pc # "fallback" /\ q.pc # "fallback" => o = q

(* The append or removal that runs has read all that is owed, has written   *)
(* it or knows where it is.                                                 *)
Promise(o) ==
  /\ o.pc = "read" => /\ Unanswered \subseteq idb \cup o.fb.keys
                      /\ o.fb.is /\ ~o.fb.old => Unanswered \subseteq o.fb.keys
  /\ o.pc \in {"merge", "clean", "persist", "drop"} => Unanswered \subseteq o.stored
  /\ o.pc = "merge" /\ ~o.fb.old => Unanswered \subseteq o.fb.keys
  /\ o.pc = "drop" => Changed(o) \subseteq idb
  /\ o.pc = "end" => /\ Changed(o) \subseteq idb \cup fallback.keys
                     /\ fallback.is /\ ~fallback.old => Changed(o) \subseteq fallback.keys

(* Whoever puts a fallback back, load or not, writes what is there already. *)
Merging(o) ==
  /\ o.pc = "merge" => o.stored = idb \cup o.fb.keys
  /\ o.pc = "clean" => o.fb.keys \subseteq idb

(* The operations that hold a fallback hold the same one, the present one.  *)
Holding == {o \in ops : o.fb.is /\ o.pc \in {"read", "merge", "clean"}}

Stores ==
  /\ Unanswered \subseteq idb \cup fallback.keys
  /\ fallback.is /\ ~fallback.old => Unanswered \subseteq fallback.keys
Stored ==
  /\ Stores
  /\ \A o \in ops : (o.kind # "load" => Promise(o)) /\ Merging(o)
  /\ \A o, q \in Holding : o.fb.keys = q.fb.keys
  /\ \A o \in Holding : fallback.is => o.fb.keys = fallback.keys

QueueInv ==
  /\ Turns
  /\ history.misled \/ history.raced \/ Stored
  /\ \A i \in DOMAIN page.confirmed : page.confirmed[i] \subseteq Known
  /\ \A r \in syncs : r.confirmed \subseteq Known

(* An operation that goes on keeps its kind, its keys and its visit.  It    *)
(* ends, or becomes one of these.                                           *)
Reads(o)     == [o EXCEPT !.fb = fallback, !.pc = "read"]
Merges(o)    == [o EXCEPT !.stored = idb \cup o.fb.keys, !.pc = "merge"]
At(o, pc)    == [o EXCEPT !.pc = pc]
Has(o, S)    == [o EXCEPT !.stored = S, !.pc = IF o.kind = "load" THEN "end" ELSE "persist"]

LEMMA Fields ==
  ASSUME NEW o \in Operation, NEW pc, NEW S
  PROVE  /\ Reads(o).pc = "read" /\ Reads(o).fb = fallback /\ Reads(o).kind = o.kind
         /\ Reads(o).keys = o.keys
         /\ Merges(o).pc = "merge" /\ Merges(o).fb = o.fb /\ Merges(o).kind = o.kind
         /\ Merges(o).keys = o.keys /\ Merges(o).stored = idb \cup o.fb.keys
         /\ At(o, pc).pc = pc /\ At(o, pc).fb = o.fb /\ At(o, pc).kind = o.kind
         /\ At(o, pc).keys = o.keys /\ At(o, pc).stored = o.stored
         /\ Has(o, S).fb = o.fb /\ Has(o, S).kind = o.kind
         /\ Has(o, S).keys = o.keys /\ Has(o, S).stored = S
         /\ Has(o, S).pc = IF o.kind = "load" THEN "end" ELSE "persist"
  BY DEF Reads, Merges, At, Has, Operation

(* The turns are kept: whoever leaves the line finds nobody at work.        *)
LEMMA DeviceTurns ==
  ASSUME OfflineTypeOK, Turns, NEW o \in ops, Works(o)
  PROVE  Turns'
<1>1. o \in Operation /\ Known' = Known
  BY WorksFrame DEF OfflineTypeOK, Known
<1>2. fallback'.is \/ fallback'.keys = {}
  <2>1. /\ [fallback EXCEPT !.old = TRUE].is = fallback.is
        /\ [fallback EXCEPT !.old = TRUE].keys = fallback.keys
        /\ NoFallback.keys = {} /\ [is |-> TRUE, keys |-> Changed(o), old |-> FALSE].is
    BY DEF OfflineTypeOK, Fallback, NoFallback
  <2>2. \/ fallback' = fallback \/ fallback' = NoFallback
        \/ fallback' = [fallback EXCEPT !.old = TRUE]
        \/ fallback' = [is |-> TRUE, keys |-> Changed(o), old |-> FALSE]
    BY DEF Works, ReadFallback, ReadStore, MergeFallback, RemoveFallback, PersistQueue, EndOp
  <2>3. QED
    BY <2>1, <2>2, Zenon DEF Turns
<1>3. \/ ops' = ops \ {o}
      \/ /\ o.pc = "fallback" /\ Turn(o) /\ ops' = (ops \ {o}) \cup {Reads(o)}
      \/ /\ o.pc = "read" /\ o.fb.is /\ ops' = (ops \ {o}) \cup {Merges(o)}
      \/ /\ o.pc \in {"read", "merge", "clean"}
         /\ \E S : ops' = (ops \ {o}) \cup {Has(o, S)}
      \/ /\ o.pc = "merge" /\ ops' = (ops \ {o}) \cup {At(o, "clean")}
      \/ /\ o.pc = "persist" /\ ops' = (ops \ {o}) \cup {At(o, "drop")}
      \/ /\ o.pc \in {"persist", "drop"} /\ ops' = (ops \ {o}) \cup {At(o, "end")}
  BY DEF Works, ReadFallback, ReadStore, MergeFallback, RemoveFallback, PersistQueue, EndOp, Becomes,
     Goto, Loaded, Fails, OnFallbackAlone, Reads, Merges, At, Has
<1>4. ASSUME NEW q, q.kind = o.kind, q.keys = o.keys, q.fb.is \/ q.fb.keys = {},
             q.pc \in {"merge", "clean"} => q.fb.is, q.pc \in {"persist", "drop"} => q.kind # "load",
             o.pc # "fallback" \/ Turn(o), ops' = (ops \ {o}) \cup {q}
      PROVE  Turns'
  <2>1. \A s \in ops' : s \in ops \ {o} \/ s = q
    BY <1>4
  <2>2. \A s \in ops \ {o} : s.kind = "load" \/ o.kind = "load" \/ s.pc = "fallback"
    BY <1>4 DEF Turns, Turn
  <2>3. ASSUME NEW s \in ops'
        PROVE  /\ s.fb.is \/ s.fb.keys = {}
               /\ s.pc \in {"merge", "clean"} => s.fb.is
               /\ s.pc \in {"persist", "drop"} => s.kind # "load"
               /\ s.kind = "remove" => s.keys \subseteq Known'
    BY <1>1, <1>4, <2>1 DEF Turns
  <2>4. ASSUME NEW s \in ops', NEW t \in ops', s.kind # "load", t.kind # "load",
               s.pc # "fallback", t.pc # "fallback"
        PROVE  s = t
    BY <1>4, <2>1, <2>2, <2>4 DEF Turns
  <2>5. QED
    BY <1>2, <2>3, <2>4 DEF Turns
<1>5. CASE ops' = ops \ {o}
  BY <1>1, <1>2, <1>5 DEF Turns
<1>6. CASE o.pc = "fallback" /\ Turn(o) /\ ops' = (ops \ {o}) \cup {Reads(o)}
  <2>1. fallback.is \/ fallback.keys = {}
    BY DEF Turns
  <2>2. QED
    BY <1>1, <1>4, <1>6, <2>1, Fields
<1>7. CASE o.pc = "read" /\ o.fb.is /\ ops' = (ops \ {o}) \cup {Merges(o)}
  BY <1>1, <1>4, <1>7, Fields
<1>8. ASSUME NEW S, o.pc \in {"read", "merge", "clean"}, ops' = (ops \ {o}) \cup {Has(o, S)}
      PROVE  Turns'
  <2>1. o.fb.is \/ o.fb.keys = {}
    BY DEF Turns
  <2>2. QED
    BY <1>1, <1>4, <1>8, <2>1, Fields
<1>9. ASSUME NEW pc \in {"clean", "drop", "end"}, o.pc \in {"merge", "persist", "drop"},
             pc = "clean" => o.pc = "merge", pc = "drop" => o.pc = "persist",
             ops' = (ops \ {o}) \cup {At(o, pc)}
      PROVE  Turns'
  <2>1. /\ o.fb.is \/ o.fb.keys = {}
        /\ o.pc \in {"merge", "clean"} => o.fb.is
        /\ o.pc \in {"persist", "drop"} => o.kind # "load"
    BY DEF Turns
  <2>2. QED
    BY <1>1, <1>4, <1>9, <2>1, Fields
<1>10. QED
  BY <1>3, <1>5, <1>6, <1>7, <1>8, <1>9

(* While no operation has worked on an old fallback alone and none has      *)
(* written beside a load, each step of an operation keeps what is owed in   *)
(* the stores, and every other operation knows as much as before.           *)
LEMMA DeviceStored ==
  ASSUME OfflineTypeOK, Turns, Stored, NEW o \in ops, Works(o), ~history'.misled, ~history'.raced
  PROVE  Stored'
<1>1. /\ o \in Operation /\ row' = row /\ history \in History
      /\ Merging(o) /\ (o.kind # "load" => Promise(o))
  BY WorksFrame DEF OfflineTypeOK, Stored
<1>2. acked' = acked => Unanswered' = Unanswered
  BY <1>1 DEF Unanswered
<1>3. /\ o.pc \in {"merge", "clean"} => o.fb.is /\ o \in Holding
      /\ o.pc \in {"persist", "drop"} => o.kind # "load"
      /\ o.fb.is \/ o.fb.keys = {}
      /\ o.kind = "remove" => o.keys \subseteq Known
      /\ fallback.is \/ fallback.keys = {}
  BY DEF Turns, Holding
<1>4. \A s \in ops : Merging(s) /\ (s.kind # "load" => Promise(s))
  BY DEF Stored
<1>5. \A s \in ops \ {o} : s.kind = "load" \/ o.kind = "load" \/ s.pc = "fallback" \/ o.pc = "fallback"
  BY DEF Turns
<1>6. Unanswered \cap Known = {}
  BY DEF Unanswered, Known
(* o leaves, *)
<1>7. ASSUME ops' = ops \ {o}, UNCHANGED <<idb, fallback, acked>> PROVE Stored'
  BY <1>2, <1>7 DEF Stored, Stores, Holding, Promise, Merging, Changed
(* or goes on without a write. *)
<1>8. ASSUME NEW q, ops' = (ops \ {o}) \cup {q}, UNCHANGED <<idb, fallback, acked>>,
             q.kind # "load" => Promise(q), Merging(q),
             q.fb.is /\ q.pc \in {"read", "merge", "clean"} =>
               \/ q.fb.keys = fallback.keys /\ fallback.is
               \/ q.fb.keys = o.fb.keys /\ o \in Holding
      PROVE  Stored'
  <2>1. \A s : Promise(s)' = Promise(s) /\ Merging(s)' = Merging(s)
    BY <1>2, <1>8 DEF Promise, Merging, Changed
  <2>2. Stores'
    BY <1>2, <1>8 DEF Stored, Stores
  <2>3. \A s \in ops' : Merging(s)' /\ (s.kind # "load" => Promise(s)')
    BY <1>4, <1>8, <2>1
  <2>4. \A s \in Holding' : /\ \A t \in Holding : s.fb.keys = t.fb.keys
                            /\ fallback.is => s.fb.keys = fallback.keys
    BY <1>8 DEF Stored, Holding
  <2>5. ASSUME NEW s \in Holding', NEW t \in Holding' PROVE s.fb.keys = t.fb.keys
    BY <1>8, <2>4 DEF Stored, Holding
  <2>6. QED
    BY <1>8, <2>2, <2>3, <2>4, <2>5 DEF Stored
(* A write keeps the others, as long as nothing is taken from what they     *)
(* count on.                                                                *)
<1>9. ASSUME NEW q, ops' = (ops \ {o}) \cup {q}, acked' = acked, Stores',
             q.kind # "load" => Promise(q)', Merging(q)',
             \A s \in ops \ {o} : Merging(s)' /\ (s.kind # "load" => Promise(s)'),
             \A s, t \in Holding' : s.fb.keys = t.fb.keys,
             \A s \in Holding' : fallback'.is => s.fb.keys = fallback'.keys
      PROVE  Stored'
  BY <1>9 DEF Stored
<1>10. CASE ReadFallback(o)
  <2>1. CASE Becomes(o, Reads(o))
    <3>1. ops' = (ops \ {o}) \cup {Reads(o)} /\ UNCHANGED <<idb, fallback, acked>>
      BY <1>10, <2>1 DEF Becomes, ReadFallback
    <3>2. Promise(Reads(o)) /\ Merging(Reads(o))
      BY <1>1, Fields DEF Promise, Merging, Stored, Stores
    <3>3. Reads(o).fb.keys = fallback.keys /\ (Reads(o).fb.is => fallback.is)
      BY <1>1, Fields, Zenon
    <3>4. QED
      BY <1>8, <3>1, <3>2, <3>3
  <2>2. CASE Fails(o)
    BY <1>7, <1>10, <2>2 DEF ReadFallback, Fails
  <2>3. QED
    BY <1>10, <2>1, <2>2 DEF ReadFallback, Reads
<1>11. ASSUME OnFallbackAlone(o), o.pc \in {"read", "merge"}, o.fb.is,
              UNCHANGED <<idb, fallback, acked>>
       PROVE  Stored'
  <2>1. ops' = (ops \ {o}) \cup {Has(o, o.fb.keys)}
    BY <1>11 DEF OnFallbackAlone, Loaded, Becomes, Has
  <2>2. o.kind = "load" \/ ~o.fb.old
    BY <1>1, <1>11 DEF OnFallbackAlone, History
  <2>3. /\ Has(o, o.fb.keys).kind = o.kind /\ Has(o, o.fb.keys).stored = o.fb.keys
        /\ o.kind = "load" => Has(o, o.fb.keys).pc = "end"
        /\ o.kind # "load" => Has(o, o.fb.keys).pc = "persist"
    BY <1>1, Fields
  <2>4. Merging(Has(o, o.fb.keys)) /\ (o.kind # "load" => Promise(Has(o, o.fb.keys)))
    BY <1>1, <1>11, <2>2, <2>3 DEF Promise, Merging
  <2>5. QED
    BY <1>8, <1>11, <2>1, <2>3, <2>4
<1>12. CASE ReadStore(o)
  <2>1. CASE ~o.fb.is /\ Loaded(o, idb)
    <3>1. ops' = (ops \ {o}) \cup {Has(o, idb)} /\ UNCHANGED <<idb, fallback, acked>>
      BY <1>12, <2>1 DEF ReadStore, Loaded, Becomes, Has
    <3>2. /\ Has(o, idb).kind = o.kind /\ Has(o, idb).stored = idb
          /\ o.kind = "load" => Has(o, idb).pc = "end"
          /\ o.kind # "load" => Has(o, idb).pc = "persist"
      BY <1>1, Fields
    <3>3. Merging(Has(o, idb)) /\ (o.kind # "load" => Promise(Has(o, idb)))
      BY <1>1, <1>3, <1>12, <2>1, <3>2 DEF ReadStore, Promise, Merging
    <3>4. QED
      BY <1>8, <3>1, <3>2, <3>3
  <2>2. CASE o.fb.is /\ Becomes(o, Merges(o))
    <3>1. ops' = (ops \ {o}) \cup {Merges(o)} /\ UNCHANGED <<idb, fallback, acked>> /\ o \in Holding
      BY <1>12, <2>2 DEF ReadStore, Becomes, Holding
    <3>2. Merging(Merges(o)) /\ (Merges(o).kind # "load" => Promise(Merges(o)))
      BY <1>1, <1>12, <2>2, Fields DEF ReadStore, Promise, Merging
    <3>3. Merges(o).fb.keys = o.fb.keys
      BY <1>1, Fields
    <3>4. QED
      BY <1>8, <3>1, <3>2, <3>3
  <2>3. CASE o.fb.is /\ OnFallbackAlone(o)
    BY <1>11, <1>12, <2>3 DEF ReadStore
  <2>4. CASE Fails(o)
    BY <1>7, <1>12, <2>4 DEF ReadStore, Fails
  <2>5. QED
    BY <1>12, <2>1, <2>2, <2>3, <2>4 DEF ReadStore, Merges
<1>13. CASE MergeFallback(o)
  <2>1. CASE idb' = o.stored /\ Goto(o, "clean")
    <3>1. /\ ops' = (ops \ {o}) \cup {At(o, "clean")} /\ fallback' = fallback /\ acked' = acked
          /\ idb' = idb \cup o.fb.keys /\ o \in Holding
      BY <1>1, <1>3, <1>13, <2>1 DEF MergeFallback, Goto, Becomes, At, Merging
    <3>2. /\ Unanswered' = Unanswered /\ Unanswered \subseteq idb \cup fallback.keys
          /\ fallback.is /\ ~fallback.old => Unanswered \subseteq fallback.keys
      BY <1>2, <3>1 DEF Stored, Stores
    <3>3. Stores'
      BY <3>1, <3>2 DEF Stores
    <3>4. /\ At(o, "clean").pc = "clean" /\ At(o, "clean").fb = o.fb
          /\ At(o, "clean").kind = o.kind /\ At(o, "clean").stored = o.stored
      BY <1>1, Fields
    <3>5. Merging(At(o, "clean"))' /\ (o.kind # "load" => Promise(At(o, "clean"))')
      BY <1>1, <1>13, <2>1, <3>1, <3>2, <3>4 DEF MergeFallback, Promise, Merging
    <3>6. ASSUME NEW s \in ops \ {o} PROVE Merging(s)' /\ (s.kind # "load" => Promise(s)')
      <4>1. s.pc = "merge" => s.fb.keys = o.fb.keys
        BY <3>1 DEF Turns, Holding, Stored
      <4>2. QED
        BY <1>4, <3>1, <3>2, <4>1 DEF Promise, Merging, Changed
    <3>7. \A s \in Holding' : s \in Holding \/ s.fb.keys = o.fb.keys
      BY <3>1, <3>4 DEF Holding
    <3>8. \A s \in Holding' : /\ s.fb.keys = o.fb.keys
                              /\ fallback'.is => s.fb.keys = fallback'.keys
      BY <3>1, <3>7 DEF Stored
    <3>9. QED
      BY <1>9, <3>1, <3>3, <3>4, <3>5, <3>6, <3>8
  <2>2. CASE OnFallbackAlone(o) /\ UNCHANGED idb
    BY <1>3, <1>11, <1>13, <2>2 DEF MergeFallback
  <2>3. QED
    BY <1>13, <2>1, <2>2 DEF MergeFallback
<1>14. CASE RemoveFallback(o)
  <2>1. /\ idb' = idb /\ acked' = acked /\ Unanswered' = Unanswered
        /\ Unanswered \subseteq idb \cup fallback.keys
    BY <1>2, <1>14 DEF RemoveFallback, Stored, Stores
  <2>2. /\ [fallback EXCEPT !.old = TRUE].keys = fallback.keys
        /\ [fallback EXCEPT !.old = TRUE].old
        /\ NoFallback.keys = {} /\ ~NoFallback.is
    BY DEF OfflineTypeOK, Fallback, NoFallback
  <2>3. \/ fallback'.keys = {} /\ ~fallback'.is
        \/ fallback.is /\ fallback'.keys = fallback.keys /\ fallback'.old
    BY <1>14, <2>2, Zenon DEF RemoveFallback
  <2>4. o.pc = "clean" => fallback.keys \subseteq idb
    BY <1>1, <1>3 DEF Merging, Stored
  <2>5. o.pc = "drop" => Unanswered \subseteq Changed(o) /\ Changed(o) \subseteq idb
    BY <1>1, <1>3, <1>6 DEF Promise, Changed, Operation
  <2>6. Unanswered \subseteq idb
    BY <1>14, <2>1, <2>4, <2>5 DEF RemoveFallback
  <2>7. Stores'
    BY <2>1, <2>3, <2>6 DEF Stores
  <2>8. ASSUME NEW s \in ops \ {o} PROVE Merging(s)' /\ (s.kind # "load" => Promise(s)')
    <3>1. s.kind # "load" /\ s.pc = "end" => o.pc = "clean"
      BY <1>3, <1>5, <1>14 DEF RemoveFallback
    <3>2. s.kind # "load" /\ s.pc = "end" =>
            Changed(s) \subseteq idb /\ ~(fallback'.is /\ ~fallback'.old)
      BY <1>4, <2>3, <2>4, <3>1 DEF Promise
    <3>3. QED
      BY <1>4, <2>1, <3>2 DEF Promise, Merging, Changed
  <2>9. ASSUME NEW q, q.fb = o.fb, q.pc \notin {"read", "merge", "clean"}, ops' = (ops \ {o}) \cup {q},
               q.kind # "load" => Promise(q)', Merging(q)'
        PROVE  Stored'
    <3>1. \A s \in Holding' : s \in Holding
      BY <2>9 DEF Holding
    <3>2. \A s \in Holding' : /\ \A t \in Holding' : s.fb.keys = t.fb.keys
                              /\ fallback'.is => s.fb.keys = fallback'.keys
      BY <2>3, <3>1 DEF Stored
    <3>3. QED
      BY <1>9, <2>1, <2>7, <2>8, <2>9, <3>2
  <2>10. CASE o.pc = "clean"
    <3>1. ops' = (ops \ {o}) \cup {Has(o, o.stored)}
      BY <1>14, <2>10 DEF RemoveFallback, Loaded, Becomes, Has
    <3>2. /\ Has(o, o.stored).kind = o.kind /\ Has(o, o.stored).stored = o.stored
          /\ Has(o, o.stored).fb = o.fb
          /\ o.kind = "load" => Has(o, o.stored).pc = "end"
          /\ o.kind # "load" => Has(o, o.stored).pc = "persist"
      BY <1>1, Fields
    <3>3. Merging(Has(o, o.stored))' /\ (o.kind # "load" => Promise(Has(o, o.stored))')
      BY <1>1, <2>1, <2>10, <3>2 DEF Promise, Merging
    <3>4. QED
      BY <2>9, <3>1, <3>2, <3>3
  <2>11. CASE o.pc = "drop"
    <3>1. ops' = (ops \ {o}) \cup {At(o, "end")}
      BY <1>14, <2>11 DEF RemoveFallback, Goto, Becomes, At
    <3>2. /\ At(o, "end").pc = "end" /\ At(o, "end").fb = o.fb
          /\ At(o, "end").kind = o.kind /\ At(o, "end").keys = o.keys
          /\ At(o, "end").stored = o.stored
      BY <1>1, Fields
    <3>3. Merging(At(o, "end"))' /\ Promise(At(o, "end"))'
      <4>1. Changed(o) \subseteq idb' /\ ~(fallback'.is /\ ~fallback'.old)
        BY <2>1, <2>3, <2>5, <2>11
      <4>2. Changed(At(o, "end"))' = Changed(o)
        BY <3>2 DEF Changed
      <4>3. QED
        BY <3>2, <4>1, <4>2 DEF Promise, Merging
    <3>4. QED
      BY <2>9, <3>1, <3>2, <3>3
  <2>12. QED
    BY <1>14, <2>10, <2>11 DEF RemoveFallback
<1>15. CASE PersistQueue(o)
  <2>1. /\ acked' = acked /\ Unanswered' = Unanswered /\ o.kind # "load"
        /\ Unanswered \subseteq Changed(o)
    BY <1>1, <1>2, <1>3, <1>6, <1>15 DEF PersistQueue, Promise, Changed, Operation
  <2>2. ASSUME NEW n, Wrote(n) PROVE \A s \in Holding : s = o
    <3>1. ~Crossed
      BY <1>1, <2>2 DEF Wrote, History
    <3>2. QED
      BY <1>5, <1>15, <2>1, <3>1 DEF Crossed, Holding, PersistQueue
  <2>3. \A s \in ops \ {o} : s.kind # "load" => s.pc = "fallback"
    BY <1>5, <1>15, <2>1 DEF PersistQueue
  <2>4. ASSUME NEW pc \in {"drop", "end"}, Goto(o, pc), NEW n, Wrote(n), Stores', Promise(At(o, pc))'
        PROVE  Stored'
    <3>1. /\ ops' = (ops \ {o}) \cup {At(o, pc)}
          /\ At(o, pc).pc = pc /\ At(o, pc).kind = o.kind
      BY <1>1, <2>4, Fields DEF Goto, Becomes, At
    <3>2. Holding' = {}
      BY <2>2, <2>4, <3>1 DEF Holding
    <3>3. ASSUME NEW s \in ops \ {o} PROVE Merging(s)' /\ (s.kind # "load" => Promise(s)')
      <4>1. s.pc \notin {"merge", "clean"}
        BY <2>2, <2>4 DEF Turns, Holding
      <4>2. QED
        BY <2>3, <4>1 DEF Promise, Merging
    <3>4. Merging(At(o, pc))'
      BY <2>4, <3>1 DEF Merging
    <3>5. QED
      BY <1>9, <2>1, <2>4, <3>1, <3>2, <3>3, <3>4
  <2>5. ASSUME NEW pc PROVE At(o, pc).stored = o.stored /\ At(o, pc).pc = pc /\ Changed(At(o, pc))' = Changed(o)
    <3>1. /\ At(o, pc).stored = o.stored /\ At(o, pc).pc = pc
          /\ At(o, pc).kind = o.kind /\ At(o, pc).keys = o.keys
      BY <1>1, Fields
    <3>2. QED
      BY <3>1 DEF Changed
  <2>6. CASE idb' = Changed(o) /\ Goto(o, "drop") /\ Wrote(0) /\ UNCHANGED <<fallback, page>>
    <3>1. Stores'
      BY <2>1, <2>6 DEF Stored, Stores
    <3>2. Promise(At(o, "drop"))'
      BY <1>1, <1>15, <2>1, <2>5, <2>6 DEF Promise, PersistQueue
    <3>3. QED
      BY <2>4, <2>6, <3>1, <3>2
  <2>7. CASE /\ fallback' = [is |-> TRUE, keys |-> Changed(o), old |-> FALSE]
             /\ Goto(o, "end") /\ Wrote(1) /\ UNCHANGED <<idb, page>>
    <3>1. fallback'.keys = Changed(o)
      BY <2>7
    <3>2. Stores'
      BY <2>1, <3>1 DEF Stores
    <3>3. Promise(At(o, "end"))'
      BY <2>5, <3>1 DEF Promise
    <3>4. QED
      BY <2>4, <2>7, <3>2, <3>3
  <2>8. CASE Fails(o) /\ UNCHANGED <<idb, fallback>>
    BY <1>7, <1>15, <2>8 DEF PersistQueue, Fails
  <2>9. QED
    BY <1>15, <2>6, <2>7, <2>8 DEF PersistQueue
<1>16. CASE EndOp(o)
  <2>1. ops' = ops \ {o} /\ idb' = idb /\ fallback' = fallback
    BY <1>16 DEF EndOp
  <2>2. CASE o.kind # "append"
    <3>1. acked' = acked
      BY <1>16, <2>2 DEF EndOp
    <3>2. QED
      BY <1>7, <2>1, <3>1
  <2>3. CASE o.kind = "append"
    <3>1. /\ o.pc = "end" /\ acked' = acked \cup o.keys /\ o.keys \subseteq Changed(o) /\ Promise(o)
      BY <1>1, <1>16, <2>3 DEF EndOp, Changed
    <3>2. Unanswered' \subseteq Unanswered \cup o.keys
      BY <1>1, <3>1 DEF Unanswered
    <3>3. Stores'
      BY <2>1, <3>1, <3>2 DEF Promise, Stored, Stores
    <3>4. ASSUME NEW s \in ops' PROVE Merging(s)' /\ (s.kind # "load" => Promise(s)')
      <4>1. s.kind # "load" => s.pc = "fallback"
        BY <1>5, <2>1, <2>3, <3>1
      <4>2. QED
        BY <1>4, <2>1, <4>1 DEF Promise, Merging
    <3>5. \A s \in Holding' : s \in Holding
      BY <2>1 DEF Holding
    <3>6. QED
      BY <2>1, <3>3, <3>4, <3>5 DEF Stored
  <2>4. QED
    BY <2>2, <2>3
<1>17. QED
  BY <1>10, <1>12, <1>13, <1>14, <1>15, <1>16 DEF Works

(* So no step of an operation loses a scan.                                 *)
LEMMA DeviceKeeps ==
  ASSUME OfflineTypeOK, QueueInv, OfflineTypeOK', NEW o \in ops, Works(o)
  PROVE  QueueInv'
<1>1. Turns'
  BY DeviceTurns DEF QueueInv
<1>2. ~history'.misled /\ ~history'.raced => ~history.misled /\ ~history.raced
  <2>1. history \in History
    BY DEF OfflineTypeOK
  <2>2. Fault \/ OnFallbackAlone(o) \/ Wrote(0) \/ Wrote(1) \/ UNCHANGED history
    BY DEF Works, ReadFallback, ReadStore, MergeFallback, RemoveFallback, PersistQueue, EndOp,
       OnFallbackAlone
  <2>3. Fault => history'.misled = history.misled /\ history'.raced = history.raced
    BY <2>1 DEF Fault, History
  <2>4. OnFallbackAlone(o) => /\ history'.misled = (history.misled \/ (o.kind # "load" /\ o.fb.old))
                              /\ history'.raced = history.raced
    BY <2>1 DEF OnFallbackAlone, History
  <2>5. ASSUME NEW n, Wrote(n)
        PROVE  history'.misled = history.misled /\ history'.raced = (history.raced \/ Crossed)
    BY <2>1, <2>5 DEF Wrote, History
  <2>6. QED
    BY <2>2, <2>3, <2>4, <2>5
<1>3. history'.misled \/ history'.raced \/ Stored'
  BY <1>2, DeviceStored DEF QueueInv
<1>4. Known' = Known /\ syncs' = syncs /\ page'.confirmed = page.confirmed
  BY WorksFrame DEF Known
<1>5. QED
  BY <1>1, <1>3, <1>4 DEF QueueInv

(* A step of the page removes only what the server answered for, and an     *)
(* operation that has only begun has promised nothing.                      *)
LEMMA PageKeeps ==
  ASSUME OfflineTypeOK, QueueInv, OfflineTypeOK',
         SubmitScan \/ SyncPending \/ RemoveConfirmed \/ ReloadPage \/ Revisit \/ SyncFails
  PROVE  QueueInv'
<1>1. /\ idb' = idb /\ fallback' = fallback /\ acked' = acked /\ row' = row
      /\ Known' = Known /\ Unanswered' = Unanswered
  BY DEF SubmitScan, SyncPending, RemoveConfirmed, ReloadPage, Revisit, SyncFails, Known, Unanswered,
     serverVars
<1>2. history'.misled = history.misled /\ history'.raced = history.raced
  BY DEF OfflineTypeOK, History, SubmitScan, SyncPending, RemoveConfirmed, ReloadPage, Revisit,
     SyncFails, Fault
<1>3. \A r \in syncs' : r.confirmed \subseteq Known'
  <2>1. CASE SyncPending
    <3> DEFINE q == [todo |-> page.pending, now |-> 0, pc |-> "ingest", saw |-> 0,
                     ok |-> FALSE, confirmed |-> {}, page |-> page.id]
    <3>1. syncs' = syncs \cup {q}
      BY <2>1 DEF SyncPending
    <3>2. q.confirmed = {}
      OBVIOUS
    <3>3. QED
      BY <1>1, <3>1, <3>2 DEF QueueInv
  <2>2. CASE ~SyncPending
    <3>1. syncs' = syncs
      BY <2>2 DEF SubmitScan, RemoveConfirmed, ReloadPage, Revisit, SyncFails, serverVars
    <3>2. QED
      BY <1>1, <3>1 DEF QueueInv
  <2>3. QED
    BY <2>1, <2>2
<1>4. \A i \in DOMAIN page'.confirmed : page'.confirmed[i] \subseteq Known'
  <2>1. page \in Page
    BY DEF OfflineTypeOK
  <2>2. CASE RemoveConfirmed
    <3>1. page.confirmed \in Seq(SUBSET Scan) /\ page.confirmed # <<>>
      BY <2>1, <2>2 DEF RemoveConfirmed, Page
    <3>2. page'.confirmed = Tail(page.confirmed)
      BY <2>1, <2>2 DEF RemoveConfirmed, Page
    <3>3. ASSUME NEW i \in DOMAIN Tail(page.confirmed)
          PROVE  Tail(page.confirmed)[i] \subseteq Known
      <4>1. i + 1 \in DOMAIN page.confirmed /\ Tail(page.confirmed)[i] = page.confirmed[i + 1]
        BY <3>1
      <4>2. QED
        BY <4>1 DEF QueueInv
    <3>4. QED
      BY <1>1, <3>2, <3>3
  <2>3. CASE ReloadPage
    <3>1. page'.confirmed = <<>>
      BY <2>3 DEF ReloadPage, NewPage
    <3>2. QED
      BY <3>1
  <2>4. CASE ~RemoveConfirmed /\ ~ReloadPage
    <3>1. page'.confirmed = page.confirmed
      BY <2>1, <2>4 DEF SubmitScan, SyncPending, Revisit, SyncFails, Page
    <3>2. QED
      BY <1>1, <3>1 DEF QueueInv
  <2>5. QED
    BY <2>2, <2>3, <2>4
<1>5. \A o \in ops' : \/ o \in ops
                      \/ /\ o.pc = "fallback" /\ ~o.fb.is /\ o.fb.keys = {}
                         /\ o.kind = "remove" => o.keys \subseteq Known
  <2>1. ASSUME NEW kind, NEW S, NEW v
        PROVE  /\ Begun(kind, S, v).pc = "fallback" /\ ~Begun(kind, S, v).fb.is
               /\ Begun(kind, S, v).fb.keys = {} /\ Begun(kind, S, v).kind = kind
               /\ Begun(kind, S, v).keys = S
    BY DEF Begun, NoFallback
  <2>2. CASE SubmitScan
    BY <2>1, <2>2 DEF SubmitScan, Enqueue
  <2>3. CASE RemoveConfirmed
    <3>1. page.confirmed \in Seq(SUBSET Scan) /\ page.confirmed # <<>>
      BY <2>3 DEF OfflineTypeOK, RemoveConfirmed, Page
    <3>2. 1 \in DOMAIN page.confirmed /\ Head(page.confirmed) = page.confirmed[1]
      BY <3>1
    <3>3. Head(page.confirmed) \subseteq Known
      BY <3>2 DEF QueueInv
    <3>4. QED
      BY <2>1, <2>3, <3>3 DEF RemoveConfirmed, Enqueue
  <2>4. CASE ReloadPage \/ Revisit
    BY <2>1, <2>4 DEF ReloadPage, Revisit, LoadPage
  <2>5. CASE SyncPending \/ SyncFails
    BY <2>5 DEF SyncPending, SyncFails
  <2>6. QED
    BY <2>2, <2>3, <2>4, <2>5
<1>6. Turns'
  <2>1. ASSUME NEW o \in ops'
        PROVE  /\ o.fb.is \/ o.fb.keys = {}
               /\ o.pc \in {"merge", "clean"} => o.fb.is
               /\ o.pc \in {"persist", "drop"} => o.kind # "load"
               /\ o.kind = "remove" => o.keys \subseteq Known'
    BY <1>1, <1>5 DEF QueueInv, Turns
  <2>2. ASSUME NEW o \in ops', NEW q \in ops', o.kind # "load", q.kind # "load",
               o.pc # "fallback", q.pc # "fallback"
        PROVE  o = q
    BY <1>5, <2>2 DEF QueueInv, Turns
  <2>3. QED
    BY <1>1, <2>1, <2>2 DEF QueueInv, Turns
<1>7. ASSUME Stored PROVE Stored'
  <2>1. \A o : Promise(o)' = Promise(o) /\ Merging(o)' = Merging(o)
    BY <1>1 DEF Promise, Merging, Changed
  <2>2. \A o \in ops' : (o.kind # "load" => Promise(o)') /\ Merging(o)'
    <3>1. \A o : o.pc = "fallback" => Promise(o) /\ Merging(o)
      BY DEF Promise, Merging
    <3>2. QED
      BY <1>5, <1>7, <2>1, <3>1 DEF Stored
  <2>3. \A o \in Holding' : o \in Holding
    BY <1>5 DEF Holding
  <2>4. Stores'
    BY <1>1, <1>7 DEF Stored, Stores
  <2>5. QED
    BY <1>1, <1>7, <2>2, <2>3, <2>4 DEF Stored
<1>8. QED
  BY <1>2, <1>3, <1>4, <1>6, <1>7 DEF QueueInv

(* What a step elsewhere leaves of the promises, when more is answered for. *)
LEMMA MoreKnown ==
  ASSUME Turns, history.misled \/ history.raced \/ Stored,
         idb' = idb, fallback' = fallback, acked' = acked, ops' = ops, Known \subseteq Known',
         OfflineTypeOK, history'.misled = history.misled, history'.raced = history.raced
  PROVE  Turns' /\ (history'.misled \/ history'.raced \/ Stored')
<1>1. Unanswered' \subseteq Unanswered
  BY DEF Unanswered, Known, OfflineTypeOK
<1>2. Turns'
  BY DEF Turns
<1>3. ASSUME Stored PROVE Stored'
  <2>1. \A o : Promise(o) => Promise(o)'
    BY <1>1 DEF Promise, Changed
  <2>2. \A o : Merging(o)' = Merging(o)
    BY DEF Merging
  <2>3. Stores'
    BY <1>1, <1>3 DEF Stored, Stores
  <2>4. Holding' = Holding
    BY DEF Holding
  <2>5. QED
    BY <1>3, <2>1, <2>2, <2>3, <2>4 DEF Stored
<1>4. QED
  BY <1>2, <1>3

(* The server confirms only what it has a row for, and never loses a row.   *)
LEMMA SyncKeeps ==
  ASSUME OfflineTypeOK, QueueInv, AtWork, OfflineTypeOK', NEW r \in syncs,
         \/ Ingest(r) \/ ScanRead(r) \/ ScanCommit(r) \/ ScanRefused(r) \/ Record(r)
         \/ Respond(r) \/ ServerDies(r)
  PROVE  QueueInv'
<1>1. idb' = idb /\ fallback' = fallback /\ acked' = acked /\ ops' = ops
  BY DEF Ingest, ScanRead, ScanCommit, ScanRefused, Record, Respond, ServerDies, deviceVars
<1>2. Known \subseteq Known'
  <2>1. CASE Ingest(r) \/ Record(r)
    BY <2>1 DEF Ingest, Record, Known, OfflineTypeOK
  <2>2. CASE ~(Ingest(r) \/ Record(r))
    BY <2>2 DEF ScanRead, ScanCommit, ScanRefused, Respond, ServerDies, Known
  <2>3. QED
    BY <2>1, <2>2
<1>3. Turns' /\ (history'.misled \/ history'.raced \/ Stored')
  <2>1. history'.misled = history.misled /\ history'.raced = history.raced
    BY DEF OfflineTypeOK, History, Fault, Ingest, ScanRead, ScanCommit, ScanRefused, Record, Respond,
       ServerDies
  <2>2. QED
    BY <1>1, <1>2, <2>1, MoreKnown DEF QueueInv
<1>4. r \in Sync /\ syncs \subseteq Sync /\ r.confirmed \subseteq Known
  BY DEF OfflineTypeOK, QueueInv
<1>5. \A q \in syncs' : q.confirmed \subseteq Known'
  <2>1. ASSUME NEW q, Update(r, q), q.confirmed \subseteq Known'
        PROVE  \A s \in syncs' : s.confirmed \subseteq Known'
    BY <1>2, <2>1 DEF Update, QueueInv
  <2>2. CASE Ingest(r)
    <3>1. PICK k \in Newest(r.todo) :
            LET q == [r EXCEPT !.todo = @ \ {k}] IN
              \/ /\ row' = [row EXCEPT ![k] = "QUEUED"]
                 /\ \/ Update(r, [q EXCEPT !.pc = "read", !.now = k])
                    \/ Update(r, NextScan(q, {}))
              \/ /\ ~Inserted(k)
                 /\ row' = [row EXCEPT ![k] = IF @ = "SYNCED" THEN "SYNCED" ELSE "DUPLICATE"]
                 /\ Update(r, NextScan(q, {k}))
      BY <2>2 DEF Ingest
    <3> DEFINE q == [r EXCEPT !.todo = @ \ {k}]
    <3>2. k \in Scan
      BY <1>4 DEF Newest, Sync
    <3>3. /\ [q EXCEPT !.pc = "read", !.now = k].confirmed = r.confirmed
          /\ NextScan(q, {}).confirmed = r.confirmed
          /\ NextScan(q, {k}).confirmed = r.confirmed \cup {k}
      BY <1>4 DEF NextScan, Sync
    <3> HIDE DEF q
    <3>4. CASE \/ Update(r, [q EXCEPT !.pc = "read", !.now = k]) \/ Update(r, NextScan(q, {}))
      BY <1>2, <1>4, <2>1, <3>3, <3>4
    <3>5. CASE ~Inserted(k) /\ Update(r, NextScan(q, {k}))
      <4>1. k \in Known
        BY <3>2, <3>5 DEF Inserted, Known
      <4>2. QED
        BY <1>2, <1>4, <2>1, <3>3, <3>5, <4>1
    <3>6. QED
      BY <3>1, <3>4, <3>5 DEF q
  <2>3. CASE Record(r)
    <3>1. r.now \in Scan /\ r.now \in Known'
      BY <2>3 DEF AtWork, Record, Known, OfflineTypeOK
    <3>2. NextScan(r, IF r.ok THEN {r.now} ELSE {}).confirmed \subseteq r.confirmed \cup {r.now}
      BY <1>4 DEF NextScan, Sync
    <3>3. QED
      BY <1>2, <1>4, <2>1, <2>3, <3>1, <3>2 DEF Record
  <2>4. CASE ScanRead(r) \/ ScanCommit(r) \/ ScanRefused(r)
    <3>1. ASSUME NEW i, NEW pc, NEW ok
          PROVE  /\ [r EXCEPT !.pc = pc, !.ok = ok].confirmed = r.confirmed
                 /\ [r EXCEPT !.pc = pc, !.saw = i].confirmed = r.confirmed
      BY <1>4 DEF Sync
    <3>2. CASE ScanRead(r)
      <4>1. \/ Update(r, [r EXCEPT !.pc = "record", !.ok = FALSE])
            \/ \E i \in OpenSteps : Update(r, [r EXCEPT !.pc = "commit", !.saw = i])
        BY <3>2 DEF ScanRead
      <4>2. QED
        BY <1>2, <1>4, <2>1, <3>1, <4>1
    <3>3. CASE ScanCommit(r)
      <4>1. Update(r, [r EXCEPT !.pc = "record", !.ok = IsExpected(r.saw, r.now)])
        BY <3>3 DEF ScanCommit
      <4>2. QED
        BY <1>2, <1>4, <2>1, <3>1, <4>1
    <3>4. CASE ScanRefused(r)
      <4>1. Update(r, [r EXCEPT !.pc = "record", !.ok = FALSE])
        BY <3>4 DEF ScanRefused
      <4>2. QED
        BY <1>2, <1>4, <2>1, <3>1, <4>1
    <3>5. QED
      BY <2>4, <3>2, <3>3, <3>4
  <2>5. CASE Respond(r) \/ ServerDies(r)
    BY <1>2, <2>5 DEF Respond, ServerDies, QueueInv
  <2>6. QED
    BY <2>2, <2>3, <2>4, <2>5
<1>6. \A i \in DOMAIN page'.confirmed : page'.confirmed[i] \subseteq Known'
  <2>1. page \in Page /\ page.confirmed \in Seq(SUBSET Scan)
    BY DEF OfflineTypeOK, Page
  <2>2. CASE page'.confirmed = page.confirmed
    BY <1>2, <2>2 DEF QueueInv
  <2>3. CASE page'.confirmed = Append(page.confirmed, r.confirmed)
    <3>1. ASSUME NEW i \in DOMAIN Append(page.confirmed, r.confirmed)
          PROVE  \/ i \in DOMAIN page.confirmed
                      /\ Append(page.confirmed, r.confirmed)[i] = page.confirmed[i]
                 \/ Append(page.confirmed, r.confirmed)[i] = r.confirmed
      BY <2>1
    <3>2. QED
      BY <1>2, <1>4, <2>3, <3>1 DEF QueueInv
  <2>4. page'.confirmed = page.confirmed \/ page'.confirmed = Append(page.confirmed, r.confirmed)
    BY <2>1 DEF Ingest, ScanRead, ScanCommit, ScanRefused, Record, Respond, ServerDies, Page
  <2>5. QED
    BY <2>2, <2>3, <2>4
<1>7. QED
  BY <1>3, <1>5, <1>6 DEF QueueInv

-----------------------------------------------------------------------------
(* One request at most works on a scan, one that has a row and has not been *)
(* applied: whoever inserts the row is the only one ever to read a step.    *)
WorksOn(r, k) == r.pc \in {"read", "commit"} /\ r.now = k

OnceInv ==
  /\ \A k \in Scan : row[k] = "NONE" => history.applied[k] = 0
  /\ \A r \in syncs, k \in Scan :
       WorksOn(r, k) => /\ row[k] # "NONE" /\ history.applied[k] = 0
                        /\ \A q \in syncs : WorksOn(q, k) => q = r
  /\ AppliedOnce

(* A request that leaves its scan, or stays on it, disturbs no other.       *)
LEMMA OnceUpdate ==
  ASSUME OfflineTypeOK, OnceInv, NEW r \in syncs, NEW q,
         \A k \in Scan : WorksOn(q, k) => WorksOn(r, k),
         \A s \in syncs' : s \in syncs \ {r} \/ s = q,
         \A k \in Scan : row[k] # "NONE" => row'[k] # "NONE",
         \A k \in Scan : row[k] = "NONE" => row'[k] = "NONE" \/ history.applied[k] = 0,
         history'.applied = history.applied
  PROVE  OnceInv'
<1>1. ASSUME NEW s \in syncs', NEW k \in Scan, WorksOn(s, k)
      PROVE  \E t \in syncs : WorksOn(t, k) /\ (s = t \/ (s = q /\ t = r))
  BY <1>1
<1>2. ASSUME NEW s \in syncs', NEW t \in syncs', NEW k \in Scan, WorksOn(s, k), WorksOn(t, k)
      PROVE  s = t
  BY <1>2 DEF OnceInv
<1>3. \A k \in Scan : row'[k] = "NONE" => history'.applied[k] = 0
  BY DEF OnceInv
<1>4. AppliedOnce'
  BY DEF OnceInv, AppliedOnce
<1>5. WorksOn(r, 0)' = WorksOn(r, 0) /\ \A s, k : WorksOn(s, k)' = WorksOn(s, k)
  BY DEF WorksOn
<1>6. \A s \in syncs', k \in Scan :
        WorksOn(s, k) => /\ row'[k] # "NONE" /\ history'.applied[k] = 0
                         /\ \A t \in syncs' : WorksOn(t, k) => t = s
  BY <1>1, <1>2 DEF OnceInv
<1>7. QED
  BY <1>3, <1>4, <1>6 DEF OnceInv, WorksOn

(* No step of the server applies a scan twice.                              *)
LEMMA SyncOnce ==
  ASSUME OfflineTypeOK, AtWork, OnceInv, OfflineTypeOK', NEW r \in syncs,
         \/ Ingest(r) \/ ScanRead(r) \/ ScanCommit(r) \/ ScanRefused(r) \/ Record(r)
         \/ Respond(r) \/ ServerDies(r)
  PROVE  OnceInv' /\ AtWork'
<1>1. r \in Sync /\ row \in [Scan -> RowStatus] /\ history \in History
  BY DEF OfflineTypeOK
<1>2. \A k \in Scan : row[k] = "NONE" => history.applied[k] = 0
  BY DEF OnceInv
<1>3. Fault => history'.applied = history.applied
  BY <1>1 DEF Fault, History
<1>4. CASE Ingest(r)
  <2>1. PICK k \in Newest(r.todo) :
          LET q == [r EXCEPT !.todo = @ \ {k}] IN
            \/ /\ Inserted(k) /\ row' = [row EXCEPT ![k] = "QUEUED"]
               /\ \/ Update(r, [q EXCEPT !.pc = "read", !.now = k])
                  \/ Update(r, NextScan(q, {}))
            \/ /\ row' = [row EXCEPT ![k] = IF @ = "SYNCED" THEN "SYNCED" ELSE "DUPLICATE"]
               /\ Update(r, NextScan(q, {k}))
    BY <1>4 DEF Ingest
  <2> DEFINE q == [r EXCEPT !.todo = @ \ {k}]
             w == [q EXCEPT !.pc = "read", !.now = k]
  <2>2. k \in Scan /\ history' = history /\ session' = session
    BY <1>1, <1>4 DEF Ingest, Newest, Sync
  <2>3. /\ w.pc = "read" /\ w.now = k
        /\ NextScan(q, {}).pc = "ingest" /\ NextScan(q, {k}).pc = "ingest"
    BY <1>1 DEF NextScan, Sync
  <2>4. \A j \in Scan : row[j] # "NONE" => row'[j] # "NONE"
    BY <1>1, <2>1, <2>2
  <2> HIDE DEF q, w
  <2>5. CASE Inserted(k) /\ Update(r, w) /\ row' = [row EXCEPT ![k] = "QUEUED"]
    <3>1. \A j \in Scan : WorksOn(w, j) => j = k
      BY <2>3 DEF WorksOn
    <3>2. \A s \in syncs : ~WorksOn(s, k)
      BY <2>2, <2>5 DEF Inserted, OnceInv
    <3>3. row'[k] # "NONE" /\ history'.applied[k] = 0
      BY <1>1, <1>2, <2>2, <2>5 DEF Inserted
    <3>4. \A s \in syncs' : s \in syncs \/ s = w
      BY <2>5 DEF Update
    <3>5. ASSUME NEW s \in syncs', NEW j \in Scan, WorksOn(s, j)
          PROVE  /\ row'[j] # "NONE" /\ history'.applied[j] = 0
                 /\ \A t \in syncs' : WorksOn(t, j) => t = s
      <4>1. CASE j = k
        BY <3>2, <3>3, <3>4, <3>5, <4>1
      <4>2. CASE j # k
        BY <2>2, <2>4, <3>1, <3>4, <3>5, <4>2 DEF OnceInv
      <4>3. QED
        BY <4>1, <4>2
    <3>6. \A j \in Scan : row'[j] = "NONE" => history'.applied[j] = 0
      BY <1>2, <2>2, <2>4
    <3>7. OnceInv'
      BY <2>2, <3>5, <3>6 DEF OnceInv, WorksOn, AppliedOnce
    <3>8. AtWork'
      BY <2>2, <2>3, <3>4 DEF AtWork
    <3>9. QED
      BY <3>7, <3>8
  <2>6. CASE \E p \in {NextScan(q, {}), NextScan(q, {k})} : Update(r, p)
    <3>1. PICK p : p.pc = "ingest" /\ Update(r, p)
      BY <2>3, <2>6
    <3>2. \A s \in syncs' : s \in syncs \ {r} \/ s = p
      BY <3>1 DEF Update
    <3>3. \A j \in Scan : ~WorksOn(p, j)
      BY <3>1 DEF WorksOn
    <3>4. OnceInv'
      BY <1>2, <2>2, <2>4, <3>2, <3>3, OnceUpdate
    <3>5. AtWork'
      BY <2>2, <3>1, <3>2 DEF AtWork
    <3>6. QED
      BY <3>4, <3>5
  <2>7. QED
    BY <2>1, <2>5, <2>6 DEF q, w
<1>5. CASE ScanRead(r)
  <2>1. PICK p : /\ p.now = r.now /\ Update(r, p) /\ p.pc \in {"record", "commit"}
                 /\ p.pc = "commit" => p.saw \in DOMAIN session.steps
    <3>1. CASE Update(r, [r EXCEPT !.pc = "record", !.ok = FALSE])
      <4>1. /\ [r EXCEPT !.pc = "record", !.ok = FALSE].now = r.now
            /\ [r EXCEPT !.pc = "record", !.ok = FALSE].pc = "record"
        BY <1>1 DEF Sync
      <4>2. QED
        BY <3>1, <4>1
    <3>2. ASSUME NEW i \in OpenSteps, Update(r, [r EXCEPT !.pc = "commit", !.saw = i])
          PROVE  \E p : /\ p.now = r.now /\ Update(r, p) /\ p.pc \in {"record", "commit"}
                        /\ p.pc = "commit" => p.saw \in DOMAIN session.steps
      <4>1. /\ [r EXCEPT !.pc = "commit", !.saw = i].now = r.now
            /\ [r EXCEPT !.pc = "commit", !.saw = i].pc = "commit"
            /\ [r EXCEPT !.pc = "commit", !.saw = i].saw \in DOMAIN session.steps
        BY <1>1 DEF Sync, OpenSteps
      <4>2. QED
        BY <3>2, <4>1
    <3>3. QED
      BY <1>5, <3>1, <3>2 DEF ScanRead
  <2>2. row' = row /\ session' = session /\ history' = history /\ r.pc = "read"
    BY <1>5 DEF ScanRead
  <2>3. \A s \in syncs' : s \in syncs \ {r} \/ s = p
    BY <2>1 DEF Update
  <2>4. \A k \in Scan : WorksOn(p, k) => WorksOn(r, k)
    BY <2>1, <2>2 DEF WorksOn
  <2>5. OnceInv'
    BY <1>2, <2>2, <2>3, <2>4, OnceUpdate
  <2>6. AtWork'
    BY <2>1, <2>2, <2>3 DEF AtWork
  <2>7. QED
    BY <2>5, <2>6
<1>6. CASE ScanRefused(r) \/ Record(r)
  <2>1. PICK p : /\ Update(r, p) /\ p.pc \in {"record", "ingest"}
                 /\ p.pc = "record" => p.now = r.now
    <3>1. CASE ScanRefused(r)
      <4>1. /\ [r EXCEPT !.pc = "record", !.ok = FALSE].now = r.now
            /\ [r EXCEPT !.pc = "record", !.ok = FALSE].pc = "record"
        BY <1>1 DEF Sync
      <4>2. QED
        BY <3>1, <4>1 DEF ScanRefused
    <3>2. CASE Record(r)
      <4>1. NextScan(r, IF r.ok THEN {r.now} ELSE {}).pc = "ingest"
        BY <1>1 DEF NextScan, Sync
      <4>2. QED
        BY <3>2, <4>1 DEF Record
    <3>3. QED
      BY <1>6, <3>1, <3>2
  <2>2. /\ session' = session /\ history'.applied = history.applied /\ r.pc # "ingest"
        /\ \A k \in Scan : row[k] # "NONE" => row'[k] # "NONE"
    BY <1>1, <1>3, <1>6 DEF ScanRefused, Record
  <2>3. \A s \in syncs' : s \in syncs \ {r} \/ s = p
    BY <2>1 DEF Update
  <2>4. \A k \in Scan : ~WorksOn(p, k)
    BY <2>1 DEF WorksOn
  <2>5. OnceInv'
    BY <1>2, <2>2, <2>3, <2>4, OnceUpdate
  <2>6. AtWork'
    BY <2>1, <2>2, <2>3 DEF AtWork
  <2>7. QED
    BY <2>5, <2>6
<1>7. CASE Respond(r) \/ ServerDies(r)
  <2>1. /\ session' = session /\ history'.applied = history.applied /\ row' = row
        /\ syncs' = syncs \ {r}
    BY <1>3, <1>7 DEF Respond, ServerDies
  <2>2. \A s \in syncs' : s \in syncs \ {r} \/ s = r
    BY <2>1
  <2>3. OnceInv'
    BY <1>2, <2>1, <2>2, OnceUpdate
  <2>4. AtWork'
    BY <2>1 DEF AtWork
  <2>5. QED
    BY <2>3, <2>4
<1>8. CASE ScanCommit(r)
  <2> DEFINE k == r.now
             p == [r EXCEPT !.pc = "record", !.ok = IsExpected(r.saw, k)]
  <2>1. k \in Scan /\ WorksOn(r, k) /\ r.saw \in DOMAIN session.steps
    BY <1>8 DEF ScanCommit, AtWork, WorksOn
  <2>2. p.pc = "record" /\ p.now = k
    BY <1>1 DEF Sync
  <2>3. row' = row /\ Update(r, p)
    BY <1>8 DEF ScanCommit
  <2> HIDE DEF p
  <2>4. \A s \in syncs' : s \in syncs \ {r} \/ s = p
    BY <2>3 DEF Update
  <2>5. \A j \in Scan : ~WorksOn(p, j)
    BY <2>2 DEF WorksOn
  <2>6. DOMAIN session.steps \subseteq DOMAIN session'.steps
    <3>1. session \in Session /\ session.steps \in Seq([n : 1..NumSteps, open : BOOLEAN])
      BY DEF OfflineTypeOK, Session
    <3>2. session.steps[r.saw] \in [n : 1..NumSteps, open : BOOLEAN]
      BY <2>1, <3>1, SeqElement
    <3>3. [session.steps[r.saw] EXCEPT !.open = FALSE] \in [n : 1..NumSteps, open : BOOLEAN]
      BY <3>2
    <3>4. /\ StepDone(r.saw) \in Seq([n : 1..NumSteps, open : BOOLEAN])
          /\ DOMAIN StepDone(r.saw) = DOMAIN session.steps
      BY <2>1, <3>1, <3>3, SeqExcept DEF StepDone
    <3>5. ASSUME NEW e PROVE DOMAIN StepDone(r.saw) \subseteq DOMAIN Append(StepDone(r.saw), e)
      BY <3>4
    <3> DEFINE n == session.steps[r.saw].n
               e == [n |-> n + 1, open |-> TRUE]
    <3>6. \/ session' = session
          \/ session' = [session EXCEPT !.steps = Append(StepDone(r.saw), e)]
          \/ session' = [st |-> "COMPLETED", steps |-> StepDone(r.saw)]
      BY <1>8 DEF ScanCommit
    <3> HIDE DEF e
    <3>7. \/ session' = session
          \/ session'.steps = Append(StepDone(r.saw), e)
          \/ session'.steps = StepDone(r.saw)
      BY <3>1, <3>6 DEF Session
    <3>8. QED
      BY <3>4, <3>5, <3>7
  <2>7. AtWork'
    BY <2>1, <2>2, <2>4, <2>6 DEF AtWork
  <2>8. CASE history' = history
    BY <1>2, <2>3, <2>4, <2>5, <2>7, <2>8, OnceUpdate
  <2>9. CASE history' = [history EXCEPT !.applied[k] = @ + 1]
    <3>1. /\ history'.applied[k] = history.applied[k] + 1
          /\ \A j \in Scan \ {k} : history'.applied[j] = history.applied[j]
      BY <1>1, <2>1, <2>9 DEF History
    <3>2. history.applied[k] = 0 /\ row[k] # "NONE"
      BY <2>1 DEF OnceInv
    <3>3. ASSUME NEW s \in syncs', NEW j \in Scan, WorksOn(s, j)
          PROVE  /\ row'[j] # "NONE" /\ history'.applied[j] = 0
                 /\ \A t \in syncs' : WorksOn(t, j) => t = s
      <4>1. s \in syncs \ {r} /\ j # k
        BY <2>1, <2>4, <2>5, <3>3 DEF OnceInv
      <4>2. QED
        BY <2>3, <2>4, <2>5, <3>1, <3>3, <4>1 DEF OnceInv
    <3>4. \A j \in Scan : row'[j] = "NONE" => history'.applied[j] = 0
      BY <1>2, <2>3, <3>1, <3>2
    <3>5. AppliedOnce'
      <4>1. \A j \in Scan : history'.applied[j] <= 1
        <5>1. history'.applied[k] <= 1
          BY <3>1, <3>2
        <5>2. QED
          BY <3>1, <5>1 DEF OnceInv, AppliedOnce
      <4>2. QED
        BY <4>1 DEF AppliedOnce
    <3>6. QED
      BY <2>7, <3>3, <3>4, <3>5 DEF OnceInv, WorksOn
  <2>10. QED
    BY <1>8, <2>7, <2>8, <2>9 DEF ScanCommit
<1>9. QED
  BY <1>4, <1>5, <1>6, <1>7, <1>8

-----------------------------------------------------------------------------
(* What every reachable state satisfies.                                    *)
OfflineInv == OfflineTypeOK /\ AtWork /\ QueueInv /\ OnceInv

(* The beginning,                                                           *)
LEMMA OfflineInitInv == OfflineInit => OfflineInv
<1> SUFFICES ASSUME OfflineInit PROVE OfflineInv
  OBVIOUS
<1>1. page \in Page /\ page.confirmed = <<>>
  BY DEF OfflineInit, NewPage, Page
<1>2. session \in Session
  <2>1. [n |-> 1, open |-> TRUE] \in [n : 1..NumSteps, open : BOOLEAN]
    BY OfflineConstants
  <2>2. <<[n |-> 1, open |-> TRUE]>> \in Seq([n : 1..NumSteps, open : BOOLEAN])
    BY <2>1
  <2>3. QED
    BY <2>2 DEF OfflineInit, Session
<1>3. history \in History /\ \A k \in Scan : history.applied[k] = 0
  BY OfflineConstants DEF OfflineInit, History
<1>4. OfflineTypeOK
  <2>1. LoadPage(1) \in Operation /\ NoFallback \in Fallback
    BY DEF LoadPage, Begun, Operation, Fallback, NoFallback
  <2>2. QED
    BY <1>1, <1>2, <1>3, <2>1 DEF OfflineInit, OfflineTypeOK, RowStatus
<1>5. /\ syncs = {} /\ acked = {} /\ ops = {LoadPage(1)} /\ fallback = NoFallback
      /\ LoadPage(1).pc = "fallback" /\ LoadPage(1).kind = "load" /\ LoadPage(1).fb = NoFallback
      /\ NoFallback.keys = {} /\ ~NoFallback.is
  BY DEF OfflineInit, LoadPage, Begun, NoFallback
<1>6. AtWork
  BY <1>5 DEF AtWork
<1>7. QueueInv
  <2>1. Turns
    BY <1>5 DEF Turns
  <2>2. Unanswered = {} /\ Holding = {}
    BY <1>5 DEF Unanswered, Holding
  <2>3. Stored
    BY <1>5, <2>2 DEF Stored, Stores, Promise, Merging
  <2>4. QED
    BY <1>1, <1>5, <2>1, <2>3 DEF QueueInv
<1>8. OnceInv
  BY <1>3, <1>5 DEF OnceInv, AppliedOnce
<1>9. QED
  BY <1>4, <1>6, <1>7, <1>8 DEF OfflineInv

(* every step,                                                              *)
LEMMA OfflineStep == OfflineInv /\ [OfflineNext]_offlineVars => OfflineInv'
<1> SUFFICES ASSUME OfflineTypeOK, AtWork, QueueInv, OnceInv, [OfflineNext]_offlineVars
             PROVE  OfflineTypeOK' /\ AtWork' /\ QueueInv' /\ OnceInv'
  BY DEF OfflineInv
<1>1. ASSUME NEW o \in ops, Works(o) PROVE OfflineTypeOK' /\ AtWork' /\ QueueInv' /\ OnceInv'
  <2>1. OfflineTypeOK'
    BY <1>1, DeviceTypes
  <2>2. QueueInv'
    BY <1>1, <2>1, DeviceKeeps
  <2>3. /\ syncs' = syncs /\ row' = row /\ session' = session
        /\ history'.applied = history.applied
    BY <1>1, WorksFrame
  <2>4. QED
    BY <2>1, <2>2, <2>3 DEF AtWork, OnceInv, AppliedOnce, WorksOn
<1>2. CASE SubmitScan \/ SyncPending \/ RemoveConfirmed \/ ReloadPage \/ Revisit \/ SyncFails
  <2>1. OfflineTypeOK'
    BY <1>2, PageTypes
  <2>2. QueueInv'
    BY <1>2, <2>1, PageKeeps
  <2>3. row' = row /\ session' = session /\ history'.applied = history.applied
    <3>1. history \in History
      BY DEF OfflineTypeOK
    <3>2. QED
      BY <1>2, <3>1 DEF SubmitScan, SyncPending, RemoveConfirmed, ReloadPage, Revisit, SyncFails,
         Fault, serverVars, History
  <2>4. \A r \in syncs' : r \in syncs \/ r.pc = "ingest"
    <3>1. CASE SyncPending
      <4> DEFINE q == [todo |-> page.pending, now |-> 0, pc |-> "ingest", saw |-> 0,
                       ok |-> FALSE, confirmed |-> {}, page |-> page.id]
      <4>1. syncs' = syncs \cup {q} /\ q.pc = "ingest"
        BY <3>1 DEF SyncPending
      <4>2. QED
        BY <4>1
    <3>2. CASE ~SyncPending
      BY <1>2, <3>2 DEF SubmitScan, RemoveConfirmed, ReloadPage, Revisit, SyncFails, serverVars
    <3>3. QED
      BY <3>1, <3>2
  <2>5. AtWork'
    BY <2>3, <2>4 DEF AtWork
  <2>6. OnceInv'
    BY <2>3, <2>4 DEF OnceInv, AppliedOnce, WorksOn
  <2>7. QED
    BY <2>1, <2>2, <2>5, <2>6
<1>3. ASSUME NEW r \in syncs,
             \/ Ingest(r) \/ ScanRead(r) \/ ScanCommit(r) \/ ScanRefused(r) \/ Record(r)
             \/ Respond(r) \/ ServerDies(r)
      PROVE  OfflineTypeOK' /\ AtWork' /\ QueueInv' /\ OnceInv'
  <2>1. OfflineTypeOK'
    BY <1>3, SyncTypes
  <2>2. QueueInv'
    BY <1>3, <2>1, SyncKeeps
  <2>3. QED
    BY <1>3, <2>1, <2>2, SyncOnce
<1>4. CASE CancelSession
  <2>1. history' \in History /\ history'.applied = history.applied
    BY <1>4 DEF CancelSession, Fault, OfflineTypeOK, History
  <2>2. session' \in Session /\ session'.steps = session.steps
    BY <1>4 DEF CancelSession, OfflineTypeOK, Session
  <2>3. /\ syncs' = syncs /\ row' = row /\ page' = page
        /\ idb' = idb /\ fallback' = fallback /\ acked' = acked /\ ops' = ops
    BY <1>4 DEF CancelSession, deviceVars
  <2>4. OfflineTypeOK'
    BY <2>1, <2>2, <2>3 DEF OfflineTypeOK
  <2>5. AtWork' /\ OnceInv'
    BY <2>1, <2>2, <2>3 DEF AtWork, OnceInv, AppliedOnce, WorksOn
  <2>6. QueueInv'
    <3>1. history'.misled = history.misled /\ history'.raced = history.raced
      BY <1>4 DEF CancelSession, Fault, OfflineTypeOK, History
    <3>2. Known' = Known
      BY <2>3 DEF Known
    <3>3. QED
      BY <2>3, <3>1, <3>2, MoreKnown DEF QueueInv
  <2>7. QED
    BY <2>4, <2>5, <2>6
<1>5. CASE UNCHANGED offlineVars
  <2>1. /\ syncs' = syncs /\ row' = row /\ page' = page /\ session' = session
        /\ history' = history
        /\ idb' = idb /\ fallback' = fallback /\ acked' = acked /\ ops' = ops
    BY <1>5 DEF offlineVars
  <2>2. OfflineTypeOK'
    BY <2>1 DEF OfflineTypeOK
  <2>3. AtWork' /\ OnceInv'
    BY <2>1 DEF AtWork, OnceInv, AppliedOnce, WorksOn
  <2>4. QueueInv'
    <3>1. Known' = Known
      BY <2>1 DEF Known
    <3>2. QED
      BY <2>1, <3>1, MoreKnown DEF QueueInv
  <2>5. QED
    BY <2>2, <2>3, <2>4
<1>6. QED
  BY <1>1, <1>2, <1>3, <1>4, <1>5 DEF OfflineNext, Works

(* and so always.                                                           *)
LEMMA OfflineAlways == OfflineSpec => []OfflineInv
  BY OfflineInitInv, OfflineStep, PTL DEF OfflineSpec

(* Every state of the device's queue and of the requests it sends is well   *)
(* formed (rfOfflineQueue.ts, RfPage and RfWorkflowsService).               *)
THEOREM OfflineTypeCorrect == OfflineSpec => []OfflineTypeOK
<1>1. OfflineInv => OfflineTypeOK
  BY DEF OfflineInv
<1>2. QED
  BY <1>1, OfflineAlways, PTL

(* A scan shown as saved is in the store the next load will use until the    *)
(* server has a row for it, whatever store refuses, whichever page or server *)
(* dies, and however many scans and visits there are, as long as no append   *)
(* or removal worked on a fallback that was to be removed, and none wrote    *)
(* beside a load with a fallback in hand (warehouseOperations and            *)
(* removeFallbackQueue of rfOfflineQueue.ts, the effect and the removal of   *)
(* RfPage): those two lose scans.                                            *)
THEOREM KeptUntilReceived == OfflineSpec => []KeptOnDevice
<1>1. OfflineInv => KeptOnDevice
  BY DEF OfflineInv, QueueInv, Stored, Stores, KeptOnDevice
<1>2. QED
  BY <1>1, OfflineAlways, PTL

(* A scan sent any number of times, by any number of requests at once,      *)
(* completes one step of its session at most: only the request whose INSERT *)
(* made the row replays it (ingestOfflineScan).                             *)
THEOREM AppliedAtMostOnce == OfflineSpec => []AppliedOnce
<1>1. OfflineInv => AppliedOnce
  BY DEF OfflineInv, OnceInv
<1>2. QED
  BY <1>1, OfflineAlways, PTL

-----------------------------------------------------------------------------
(* The session of a browser tab, for any number of requests, logins and     *)
(* faults.  A family of tokens without a usable one stays without; a call    *)
(* under way belongs to the refresh or the logout in progress, or to a       *)
(* family the tab has left or been cut off from.                            *)
Grants ==
  /\ grant \in Seq([login : Nat, st : {"ACTIVE", "ROTATED", "REVOKED", "COMPROMISED"}])
  /\ \A t \in Grant : Login(t) \in 1..Len(grant)
  /\ past = [logins |-> past.logins, faults |-> past.faults, out |-> past.out,
             ended |-> past.ended, lost |-> past.lost]
  /\ past.out \subseteq 1..Len(grant) /\ past.ended \subseteq 1..Len(grant)

Unusable(f) == \A t \in Grant : Login(t) = f => grant[t].st # "ACTIVE"

Refreshing ==
  flight # NoFlight =>
    /\ flight = [sent |-> flight.sent, ans |-> flight.ans]
    /\ flight.sent \in Grant /\ flight.ans \in {Waiting, None} \cup Grant
    /\ flight.ans \in Grant => Login(flight.ans) = Login(flight.sent)
    /\ tab \in {None, flight.sent} \/ Login(tab) # Login(flight.sent)

Leaving ==
  leaving # Stays =>
    /\ leaving = [pc |-> leaving.pc, sent |-> leaving.sent, ans |-> leaving.ans]
    /\ leaving.pc \in {"revoke", "refresh", "again"}
    /\ leaving.sent \in Grant /\ leaving.ans \in {Waiting, None} \cup Grant
    /\ Login(leaving.sent) \in past.out
    /\ leaving.pc = "refresh" /\ leaving.ans \in Grant => Login(leaving.ans) = Login(leaving.sent)
    /\ leaving.pc = "again" => leaving.ans # None
    /\ leaving.pc = "refresh" /\ leaving.ans = None => Unusable(Login(leaving.sent))
    /\ leaving.pc # "refresh" /\ leaving.ans \in Grant => Unusable(Login(leaving.sent))

LogoutCall == Send("logout", IF leaving.pc = "refresh" THEN "refresh" ELSE "revoke",
                   leaving.sent, leaving.pc = "again")

UnderWay(w) ==
  /\ w = Send(w.by, w.do, w.t, w.fresh) /\ w.t \in Grant
  /\ w.by \in {"flight", "logout", "nobody"}
  /\ w.by = "flight" => /\ flight # NoFlight /\ flight.ans = Waiting
                        /\ w = Send("flight", "refresh", flight.sent, FALSE)
  /\ w.by = "logout" => leaving # Stays /\ leaving.ans = Waiting /\ w = LogoutCall
  /\ w.by = "nobody" => /\ Login(w.t) \in past.out \cup past.lost
                        /\ w.do = "revoke" => Login(w.t) \in past.out

(* The pair in the tab, or the one that is coming, is usable.               *)
Holds ==
  tab # None =>
    /\ tab \in Grant /\ Login(tab) \notin past.out
    /\ Login(tab) \notin past.lost =>
         IF flight.sent = tab /\ flight.ans \in Grant
         THEN grant[flight.ans].st = "ACTIVE" ELSE grant[tab].st = "ACTIVE"

BInv == /\ Grants /\ Refreshing /\ Leaving /\ Holds
        /\ \A w \in wire : UnderWay(w)
        /\ \A f \in past.ended : Unusable(f)

Row == [login : Nat, st : {"ACTIVE", "ROTATED", "REVOKED", "COMPROMISED"}]

(* What a call about the family f may do at the server: no other family     *)
(* changes, and one without a usable token gets none.                       *)
OnlyFamily(f) ==
  /\ grant' \in Seq(Row) /\ Len(grant') >= Len(grant)
  /\ \A t \in Grant : grant'[t].login = grant[t].login /\ (grant[t].login # f => grant'[t].st = grant[t].st)
  /\ \A t \in 1..Len(grant') : t \notin Grant => grant'[t].login = f
  /\ Unusable(f) => \A t \in 1..Len(grant') : grant'[t].login = f => grant'[t].st # "ACTIVE"

(* The rows of refresh_token_sessions, one by one.                          *)
LEMMA GrantRows ==
  ASSUME Grants
  PROVE  /\ grant \in Seq(Row) /\ Len(grant) \in Nat /\ Grant = 1..Len(grant)
         /\ \A t \in Grant : grant[t] \in Row /\ Login(t) = grant[t].login
<1>1. grant \in Seq(Row)
  BY DEF Grants, Row
<1> QED
  BY <1>1, LenProperties, ElementOfSeq DEF Grant, Login

(* A change of status leaves every other row, and every family, as it was.  *)
LEMMA TurnedRows ==
  ASSUME Grants, NEW S, NEW st \in {"ROTATED", "REVOKED", "COMPROMISED"}
  PROVE  /\ Turned(S, st) \in Seq(Row) /\ Len(Turned(S, st)) = Len(grant)
         /\ \A t \in Grant : /\ Turned(S, st)[t].login = grant[t].login
                             /\ Turned(S, st)[t].st = IF t \in S THEN st ELSE grant[t].st
<1>1. /\ Len(grant) \in Nat /\ Grant = 1..Len(grant)
      /\ \A t \in Grant : grant[t] \in Row
  BY GrantRows
<1>2. \A t \in Grant : [grant[t] EXCEPT !.st = st] = [login |-> grant[t].login, st |-> st]
  BY <1>1 DEF Row
<1>3. Turned(S, st) \in [1..Len(grant) -> Row]
  BY <1>1, <1>2 DEF Turned, Row
<1>4. Turned(S, st) \in Seq(Row) /\ Len(Turned(S, st)) = Len(grant)
  BY <1>1, <1>3
<1>5. \A t \in Grant : /\ Turned(S, st)[t].login = grant[t].login
                       /\ Turned(S, st)[t].st = IF t \in S THEN st ELSE grant[t].st
  BY <1>1, <1>2 DEF Turned
<1> QED
  BY <1>4, <1>5

(* A revocation, or the refusal of a spent token, is the business of one    *)
(* family.                                                                  *)
LEMMA TurnsItsFamily ==
  ASSUME Grants, NEW f, NEW S, NEW st \in {"ROTATED", "REVOKED", "COMPROMISED"},
         S \subseteq {t \in Grant : Login(t) = f}, grant' = Turned(S, st)
  PROVE  OnlyFamily(f) /\ Len(grant') = Len(grant)
<1>1. /\ grant' \in Seq(Row) /\ Len(grant') = Len(grant)
      /\ \A t \in Grant : /\ grant'[t].login = grant[t].login
                          /\ grant'[t].st = IF t \in S THEN st ELSE grant[t].st
  BY TurnedRows
<1>2. Len(grant) \in Nat /\ Grant = 1..Len(grant) /\ \A t \in Grant : Login(t) = grant[t].login
  BY GrantRows
<1> QED
  BY <1>1, <1>2 DEF OnlyFamily, Unusable

(* A row is inserted at the end of the table.                               *)
LEMMA RowAppended ==
  ASSUME NEW T \in Seq(Row), NEW r \in Row
  PROVE  /\ Append(T, r) \in Seq(Row) /\ Len(Append(T, r)) = Len(T) + 1
         /\ Append(T, r)[Len(T) + 1] = r
         /\ \A t \in 1..Len(T) : Append(T, r)[t] = T[t]
  OBVIOUS

(* So is a rotation: the new token joins the family of the spent one, which *)
(* had a usable token.                                                      *)
LEMMA RotatesItsFamily ==
  ASSUME Grants, NEW t0 \in Grant, grant[t0].st = "ACTIVE",
         grant' = Append(Turned({t0}, "ROTATED"), [login |-> Login(t0), st |-> "ACTIVE"])
  PROVE  /\ \A f : f = Login(t0) => OnlyFamily(f)
         /\ Len(grant') = Len(grant) + 1 /\ grant'[Len(grant) + 1].st = "ACTIVE"
         /\ grant'[Len(grant) + 1].login = Login(t0)
<1>1. /\ Len(grant) \in Nat /\ Grant = 1..Len(grant)
      /\ \A t \in Grant : grant[t] \in Row /\ Login(t) = grant[t].login
  BY GrantRows
<1>2. PICK T : T = Turned({t0}, "ROTATED")
  OBVIOUS
<1>3. PICK r : r = [login |-> Login(t0), st |-> "ACTIVE"]
  OBVIOUS
<1>4. /\ T \in Seq(Row) /\ Len(T) = Len(grant)
      /\ \A t \in Grant : T[t].login = grant[t].login /\ (t # t0 => T[t].st = grant[t].st)
  BY <1>2, TurnedRows
<1>5. r \in Row /\ r.login = Login(t0) /\ r.st = "ACTIVE"
  BY <1>1, <1>3 DEF Row
<1>6. grant' = Append(T, r)
  BY <1>2, <1>3
<1>7. /\ grant' \in Seq(Row) /\ Len(grant') = Len(T) + 1
      /\ grant'[Len(T) + 1] = r
      /\ \A t \in 1..Len(T) : grant'[t] = T[t]
  <2>1. /\ Append(T, r) \in Seq(Row) /\ Len(Append(T, r)) = Len(T) + 1
        /\ Append(T, r)[Len(T) + 1] = r
        /\ \A t \in 1..Len(T) : Append(T, r)[t] = T[t]
    BY <1>4, <1>5, RowAppended
  <2> QED
    BY <1>6, <2>1, Zenon
<1>8. ~Unusable(Login(t0))
  BY <1>1 DEF Unusable
<1>9. /\ Len(grant') >= Len(grant)
      /\ \A t \in Grant : grant'[t].login = grant[t].login /\ (t # t0 => grant'[t].st = grant[t].st)
      /\ grant'[Len(grant) + 1].login = Login(t0) /\ grant'[Len(grant) + 1].st = "ACTIVE"
  <2>1. Len(grant') >= Len(grant)
    BY <1>1, <1>4, <1>7
  <2>2. \A t \in Grant : grant'[t] = T[t]
    BY <1>1, <1>4, <1>7
  <2>3. \A t \in Grant : grant'[t].login = grant[t].login /\ (t # t0 => grant'[t].st = grant[t].st)
    BY <1>4, <2>2
  <2>4. grant'[Len(grant) + 1] = r
    BY <1>4, <1>7
  <2> QED
    BY <1>5, <2>1, <2>3, <2>4
<1>10. \A t \in 1..Len(grant') : t \notin Grant => t = Len(grant) + 1
  <2>1. Len(grant) \in Nat /\ Grant = 1..Len(grant) /\ Len(grant') = Len(grant) + 1
    BY <1>1, <1>4, <1>7
  <2> QED
    BY <2>1
<1>11. ASSUME NEW f, f = Login(t0) PROVE OnlyFamily(f)
  BY <1>1, <1>7, <1>8, <1>9, <1>10, <1>11 DEF OnlyFamily
<1> QED
  BY <1>4, <1>7, <1>9, <1>11

(* What every step does to the families: tokens keep theirs, a family        *)
(* without a usable token stays without, and what is past stays past.       *)
Onward ==
  /\ Grants' /\ Len(grant') \in Nat /\ Grant' = 1..Len(grant')
  /\ \A t \in Grant : t \in Grant' /\ Login(t)' = Login(t)
  /\ \A f \in 1..Len(grant) : Unusable(f) => Unusable(f)'
  /\ past.out \subseteq past'.out /\ past.lost \subseteq past'.lost

(* The refresh under way is not disturbed by what happens to other          *)
(* families, or by a tab that holds a pair of another one.                  *)
LEMMA RefreshingGoesOn ==
  ASSUME Refreshing, Onward, UNCHANGED flight, NEW b, tab' = b,
         flight # NoFlight => b \in {None, flight.sent} \/ Login(b)' # Login(flight.sent)
  PROVE  Refreshing'
<1> SUFFICES ASSUME flight # NoFlight PROVE Refreshing'
  BY DEF Refreshing, NoFlight
<1>1. PICK s \in Grant, a \in {Waiting, None} \cup Grant : flight.sent = s /\ flight.ans = a /\ flight = [sent |-> s, ans |-> a]
  BY DEF Refreshing
<1>2. Waiting \notin Grant' /\ None \notin Grant'
  BY DEF Grant, Waiting, None, Onward
<1>3. /\ s \in Grant' /\ Login(s)' = Login(s)
      /\ a \in Grant => a \in Grant' /\ Login(a)' = Login(a)
  BY DEF Onward
<1>4. /\ a \in {Waiting, None} \cup Grant'
      /\ a \in Grant' => Login(a)' = Login(s)'
      /\ b \in {None, s} \/ Login(b)' # Login(s)'
  BY <1>1, <1>2, <1>3 DEF Refreshing
<1>5. flight' = [sent |-> s, ans |-> a] /\ flight'.sent = s /\ flight'.ans = a
  BY <1>1
<1> QED
  BY <1>3, <1>4, <1>5 DEF Refreshing, Login

(* In particular when the tab keeps its pair or forgets it.                 *)
LEMMA RefreshingStays ==
  ASSUME Refreshing, tab # None => tab \in Grant, Onward, UNCHANGED flight, tab' \in {None, tab}
  PROVE  Refreshing'
<1>1. PICK b : b = tab'
  OBVIOUS
<1>2. flight # NoFlight => b \in {None, flight.sent} \/ Login(b)' # Login(flight.sent)
  BY <1>1 DEF Refreshing, Onward
<1> QED
  BY <1>1, <1>2, RefreshingGoesOn

(* The logout in progress: a family it found without a usable token stays   *)
(* without.                                                                 *)
LEMMA LeavingStays ==
  ASSUME Grants, Leaving, Onward, UNCHANGED leaving
  PROVE  Leaving'
<1> SUFFICES ASSUME leaving # Stays PROVE Leaving'
  BY DEF Leaving, Stays
<1>1. PICK p \in {"revoke", "refresh", "again"}, s \in Grant, a \in {Waiting, None} \cup Grant :
        leaving.pc = p /\ leaving.sent = s /\ leaving.ans = a /\ leaving = [pc |-> p, sent |-> s, ans |-> a]
  BY DEF Leaving
<1>2. Waiting \notin Grant' /\ None \notin Grant'
  BY DEF Grant, Waiting, None, Onward
<1>3. /\ s \in Grant' /\ Login(s)' = Login(s)
      /\ a \in Grant => a \in Grant' /\ Login(a)' = Login(a)
  BY DEF Onward
<1>4. PICK f : f = Login(s)
  OBVIOUS
<1>5. Unusable(f) => Unusable(f)'
  BY <1>1, <1>4 DEF Onward, Grants
<1>6. leaving' = [pc |-> p, sent |-> s, ans |-> a] /\ leaving'.pc = p /\ leaving'.sent = s /\ leaving'.ans = a
  BY <1>1
<1>7. Login(s)' \in past'.out
  BY <1>1, <1>3 DEF Leaving, Onward
<1>8. Unusable(Login(leaving.sent))' <=> Unusable(f)'
  BY <1>3, <1>4, <1>6 DEF Unusable, Login
<1>9. Unusable(Login(leaving.sent)) <=> Unusable(f)
  BY <1>1, <1>4
<1> QED
  BY <1>1, <1>2, <1>3, <1>5, <1>6, <1>7, <1>8, <1>9 DEF Leaving, Login

(* A call on the wire, as long as the refresh or the logout it belongs to   *)
(* is unchanged.                                                            *)
LEMMA CallStays ==
  ASSUME NEW w, UnderWay(w), Onward, w.by = "flight" => UNCHANGED flight, w.by = "logout" => UNCHANGED leaving
  PROVE  UnderWay(w)'
<1>1. w.t \in Grant' /\ Login(w.t)' = Login(w.t)
  BY DEF Onward, UnderWay
<1>2. w.by = "nobody" => Login(w.t)' \in past'.out \cup past'.lost /\ (w.do = "revoke" => Login(w.t)' \in past'.out)
  BY <1>1 DEF UnderWay, Onward
<1> QED
  BY <1>1, <1>2 DEF UnderWay, LogoutCall, NoFlight, Stays, Send, Login

(* A revoked family stays revoked.                                          *)
LEMMA EndedStays ==
  ASSUME BInv, Onward, past'.ended = past.ended
  PROVE  (\A f \in past.ended : Unusable(f))'
  BY DEF BInv, Grants, Onward, Unusable
(* The families, when no row is written.                                    *)
LEMMA SameGrants ==
  ASSUME Grants, UNCHANGED grant, past' = [logins |-> past'.logins, faults |-> past'.faults, out |-> past'.out,
         ended |-> past'.ended, lost |-> past'.lost],
         past'.out \subseteq 1..Len(grant), past'.ended \subseteq 1..Len(grant)
  PROVE  Grants'
  BY DEF Grants, Grant, Login

(* A tab with nothing stored, and an empty table.                           *)
LEMMA BrowserBegins == BrowserInit => BInv
<1> SUFFICES ASSUME BrowserInit PROVE BInv
  OBVIOUS
<1>1. grant = <<>> /\ Len(grant) = 0 /\ Grant = {}
  BY DEF BrowserInit, Grant
<1>2. PICK b \in Budget : past = [logins |-> b.logins, faults |-> b.faults, out |-> {}, ended |-> {}, lost |-> {}]
  BY DEF BrowserInit
<1>3. Grants
  BY <1>1, <1>2 DEF Grants
<1>4. Refreshing /\ Leaving /\ Holds /\ \A w \in wire : UnderWay(w)
  BY DEF BrowserInit, Refreshing, Leaving, Holds
<1>5. \A f \in past.ended : Unusable(f)
  BY <1>2
<1> QED
  BY <1>3, <1>4, <1>5 DEF BInv

(* A login begins a family of its own, which nothing under way belongs to.  *)
LEMMA LoginStep == BInv /\ LogIn => BInv'
<1> SUFFICES ASSUME BInv, LogIn PROVE BInv'
  OBVIOUS
<1>1. /\ grant \in Seq(Row) /\ Len(grant) \in Nat /\ Grant = 1..Len(grant)
      /\ \A t \in Grant : grant[t] \in Row /\ Login(t) = grant[t].login /\ Login(t) \in 1..Len(grant)
  BY GrantRows DEF BInv, Grants
<1>2. PICK n : n = Len(grant) + 1
  OBVIOUS
<1>3. /\ grant' \in Seq(Row) /\ Len(grant') = n /\ grant'[n] = [login |-> n, st |-> "ACTIVE"]
      /\ \A t \in Grant : grant'[t] = grant[t]
  BY <1>1, <1>2, RowAppended DEF LogIn, Row
<1>4. /\ UNCHANGED <<flight, leaving, ask, wire>> /\ tab = None /\ tab' = n
      /\ past' = [past EXCEPT !.logins = @ - 1]
  BY <1>2 DEF LogIn
<1>5. Grant' = 1..n /\ n \notin Grant /\ n \in Nat \ {0} /\ Grant \subseteq Grant' /\ \A t \in Grant' : t \in Grant \/ t = n
  BY <1>1, <1>3, <1>2, LenProperties DEF Grant
<1>6. /\ past' = [logins |-> past'.logins, faults |-> past'.faults, out |-> past'.out, ended |-> past'.ended,
                  lost |-> past'.lost]
      /\ past'.out = past.out /\ past'.ended = past.ended /\ past'.lost = past.lost
  BY <1>4 DEF BInv, Grants
<1>7. Grants'
  <2>1. \A t \in 1..n : grant'[t].login \in 1..n
    BY <1>1, <1>3, <1>5
  <2> QED
    BY <1>1, <1>3, <1>5, <1>6, <1>2, <2>1 DEF BInv, Grants, Row, Login
<1>8. \A f \in 1..Len(grant) : Unusable(f) => \A t \in 1..n : grant'[t].login = f => grant'[t].st # "ACTIVE"
  BY <1>1, <1>3, <1>5, <1>2 DEF Unusable, Login
<1>9. Onward
  <2>1. \A f \in 1..Len(grant) : Unusable(f) => Unusable(f)'
    BY <1>1, <1>3, <1>5, <1>7, <1>8 DEF Unusable, Login
  <2> QED
    BY <1>1, <1>3, <1>5, <1>6, <1>7, <2>1 DEF Onward, Login
<1>10. Refreshing'
  <2>1. flight # NoFlight => Login(n)' # Login(flight.sent)
    BY <1>1, <1>3, <1>2 DEF BInv, Refreshing, Login
  <2> QED
    BY <1>4, <1>9, <2>1, RefreshingGoesOn DEF BInv
<1>11. Holds'
  BY <1>1, <1>3, <1>4, <1>5, <1>6, <1>2 DEF BInv, Holds, Login, Grants, Refreshing, NoFlight, None, Waiting
<1>12. Leaving' /\ (\A w \in wire : UnderWay(w))' /\ (\A f \in past.ended : Unusable(f))'
  BY <1>4, <1>6, <1>9, LeavingStays, CallStays, EndedStays DEF BInv
<1> QED
  BY <1>7, <1>10, <1>11, <1>12 DEF BInv

(* Most steps touch no grant.                                               *)
LEMMA NoGrantTouched ==
  ASSUME BInv, UNCHANGED grant,
         past' = [logins |-> past'.logins, faults |-> past'.faults, out |-> past'.out,
                  ended |-> past'.ended, lost |-> past'.lost],
         past.out \subseteq past'.out, past.lost \subseteq past'.lost,
         past'.out \subseteq 1..Len(grant), past'.ended \subseteq 1..Len(grant)
  PROVE  Onward
<1>1. Grants'
  BY SameGrants DEF BInv
<1>2. Len(grant) \in Nat /\ Grant = 1..Len(grant)
  BY GrantRows DEF BInv
<1> QED
  BY <1>1, <1>2 DEF Onward, Grant, Login, Unusable

(* The steps of the pages touch neither the grants nor the past.            *)
LEMMA SamePast ==
  ASSUME BInv, UNCHANGED <<grant, past>>
  PROVE  Onward
  BY NoGrantTouched DEF BInv, Grants

(* The stored pair is one the server issued.                                *)
LEMMA TabIsGrant == BInv => (tab # None => tab \in Grant)
  BY DEF BInv, Holds

(* Requests come and go; the second refusal of one may only clear the tab.  *)
LEMMA PageStep ==
  ASSUME BInv, UNCHANGED <<flight, leaving, wire, grant, past>>, tab' \in {None, tab}
  PROVE  BInv'
<1>1. Onward
  BY SamePast
<1>2. Grants' /\ Refreshing' /\ Leaving'
  BY <1>1, TabIsGrant, RefreshingStays, LeavingStays DEF BInv, Onward
<1>3. Holds'
  BY DEF BInv, Holds, Login, Grant, None
<1>4. (\A w \in wire : UnderWay(w))' /\ (\A f \in past.ended : Unusable(f))'
  BY <1>1, CallStays, EndedStays DEF BInv
<1> QED
  BY <1>2, <1>3, <1>4 DEF BInv

(* A refused request begins a refresh only when there is none.              *)
LEMMA RefusedStep ==
  ASSUME BInv, NEW a \in Asker, Refused(a)
  PROVE  BInv'
<1>1. CASE UNCHANGED <<flight, wire>>
  BY <1>1, PageStep DEF Refused
<1>2. CASE ~UNCHANGED <<flight, wire>>
  <2>1. /\ flight = NoFlight /\ tab # None
        /\ flight' = [sent |-> tab, ans |-> Waiting]
        /\ wire' = wire \cup {Send("flight", "refresh", tab, FALSE)}
        /\ UNCHANGED <<tab, leaving, grant, past>>
    BY <1>2 DEF Refused, Join
  <2>2. Onward
    BY <2>1, SamePast
  <2>3. PICK b \in Grant : b = tab
    BY <2>1, TabIsGrant
  <2>4. b \in Grant' /\ b # None /\ Waiting \notin Grant /\ None \notin Grant
    BY <2>1, <2>2, <2>3 DEF Onward, Grant, Waiting, None
  <2>5. /\ flight' = [sent |-> b, ans |-> Waiting] /\ flight'.sent = b /\ flight'.ans = Waiting /\ tab' = b
        /\ flight' # NoFlight
    BY <2>1, <2>3, <2>4 DEF NoFlight
  <2>6. Refreshing'
    BY <2>4, <2>5, <2>1 DEF Refreshing, Grant
  <2>7. Leaving' /\ Grants' /\ (\A f \in past.ended : Unusable(f))'
    BY <2>1, <2>2, LeavingStays, EndedStays DEF BInv, Onward
  <2>8. Holds'
    BY <2>1, <2>3, <2>4, <2>5 DEF BInv, Holds, NoFlight, Grant, Login
  <2>9. ASSUME NEW w \in wire PROVE UnderWay(w)'
    <3>1. UnderWay(w) /\ w.by # "flight"
      BY <2>1 DEF BInv, UnderWay
    <3> QED
      BY <2>1, <2>2, <3>1, CallStays
  <2>10. UnderWay(Send("flight", "refresh", b, FALSE))'
    BY <2>4, <2>5 DEF UnderWay, Send
  <2>11. (\A w \in wire : UnderWay(w))'
    BY <2>1, <2>3, <2>9, <2>10
  <2> QED
    BY <2>6, <2>7, <2>8, <2>11 DEF BInv
<1> QED
  BY <1>1, <1>2

(* The answer of the refresh replaces the pair that was sent, and no other. *)
LEMMA RefreshEndsStep == BInv /\ RefreshEnds => BInv'
<1> SUFFICES ASSUME BInv, RefreshEnds PROVE BInv'
  OBVIOUS
<1>1. flight # NoFlight /\ flight.ans # Waiting /\ flight' = NoFlight /\ UNCHANGED <<leaving, wire, grant, past>>
  BY DEF RefreshEnds
<1>2. Onward
  BY <1>1, SamePast
<1>3. \/ tab' = None
      \/ Keeps /\ tab' = flight.ans
      \/ tab # flight.sent /\ tab' = tab
  BY DEF RefreshEnds
<1>4. Refreshing'
  BY <1>1 DEF Refreshing
<1>5. Leaving' /\ Grants' /\ (\A f \in past.ended : Unusable(f))'
  BY <1>1, <1>2, LeavingStays, EndedStays DEF BInv, Onward
<1>6. Holds'
  <2> SUFFICES ASSUME tab' # None PROVE Holds'
    BY DEF Holds, None
  <2>1. flight'.sent # tab'
    BY <1>1 DEF NoFlight, None
  <2>2. CASE Keeps /\ tab' = flight.ans
    <3>1. /\ flight.ans \in Grant /\ Login(flight.ans) = Login(flight.sent) /\ tab = flight.sent /\ tab # None
      BY <1>1, <2>2, GrantRows DEF BInv, Refreshing, Keeps, None
    <3>2. Login(tab) \notin past.out /\ (Login(tab) \notin past.lost => grant[flight.ans].st = "ACTIVE")
      BY <3>1 DEF BInv, Holds
    <3> QED
      BY <1>1, <2>1, <2>2, <3>1, <3>2 DEF Holds, Login, Grant
  <2>3. CASE tab # flight.sent /\ tab' = tab
    BY <1>1, <2>1, <2>3 DEF BInv, Holds, Login, Grant, None
  <2> QED
    BY <1>3, <2>2, <2>3
<1>7. (\A w \in wire : UnderWay(w))'
  <2> SUFFICES ASSUME NEW w \in wire PROVE UnderWay(w)'
    BY <1>1
  <2>1. UnderWay(w) /\ w.by # "flight"
    BY <1>1 DEF BInv, UnderWay
  <2> QED
    BY <1>1, <1>2, <2>1, CallStays
<1> QED
  BY <1>4, <1>5, <1>6, <1>7 DEF BInv

(* The user leaves: the family is left for good, its revocation under way.  *)
LEMMA LogOutStep == BInv /\ LogOut => BInv'
<1> SUFFICES ASSUME BInv, LogOut PROVE BInv'
  OBVIOUS
<1>1. PICK b \in Grant : b = tab
  BY TabIsGrant DEF LogOut
<1>2. /\ leaving = Stays /\ leaving' = [pc |-> "revoke", sent |-> b, ans |-> Waiting]
      /\ wire' = wire \cup {Send("logout", "revoke", b, FALSE)} /\ tab' = None
      /\ past' = [past EXCEPT !.out = @ \cup {Login(b)}] /\ UNCHANGED <<flight, ask, grant>>
  BY <1>1 DEF LogOut
<1>3. /\ past' = [logins |-> past'.logins, faults |-> past'.faults, out |-> past'.out, ended |-> past'.ended,
                  lost |-> past'.lost]
      /\ past'.out = past.out \cup {Login(b)} /\ past'.ended = past.ended /\ past'.lost = past.lost
  BY <1>2 DEF BInv, Grants
<1>4. Login(b) \in 1..Len(grant)
  BY DEF BInv, Grants
<1>5. Onward
  BY <1>2, <1>3, <1>4, NoGrantTouched DEF BInv, Grants
<1>6. Grants' /\ Refreshing' /\ Holds' /\ (\A f \in past.ended : Unusable(f))'
  BY <1>2, <1>3, <1>5, TabIsGrant, RefreshingStays, EndedStays DEF BInv, Onward, Holds
<1>7. /\ leaving'.pc = "revoke" /\ leaving'.sent = b /\ leaving'.ans = Waiting
      /\ b \in Grant' /\ Waiting \notin Grant' /\ Waiting # None /\ Login(b)' \in past'.out
      /\ leaving' # Stays
  BY <1>2, <1>3, <1>5 DEF Onward, Waiting, None, Stays
<1>8. Leaving'
  BY <1>2, <1>7 DEF Leaving, Login
<1>9. ASSUME NEW w \in wire PROVE UnderWay(w)'
  <2>1. UnderWay(w) /\ w.by # "logout"
    BY <1>2 DEF BInv, UnderWay
  <2> QED
    BY <1>2, <1>5, <2>1, CallStays
<1>10. UnderWay(Send("logout", "revoke", b, FALSE))'
  BY <1>7 DEF UnderWay, Send, LogoutCall
<1>11. (\A w \in wire : UnderWay(w))'
  BY <1>2, <1>9, <1>10
<1> QED
  BY <1>6, <1>8, <1>11 DEF BInv

(* Logout ends only when the server has said so, or has refused its         *)
(* refresh: either way the family has no usable token.                      *)
LEMMA LogOutGoesOnStep == BInv /\ LogOutGoesOn => BInv'
<1> SUFFICES ASSUME BInv, LogOutGoesOn PROVE BInv'
  OBVIOUS
<1>1. PICK p \in {"revoke", "refresh", "again"}, s \in Grant, a \in {None} \cup Grant :
        /\ leaving.pc = p /\ leaving.sent = s /\ leaving.ans = a /\ leaving # Stays
  BY DEF BInv, Leaving, LogOutGoesOn
<1>2. /\ Login(s) \in past.out /\ Login(s) \in 1..Len(grant)
      /\ p = "refresh" /\ a \in Grant => Login(a) = Login(s)
      /\ p = "again" => a # None
      /\ p = "refresh" /\ a = None => Unusable(Login(s))
      /\ p # "refresh" /\ a \in Grant => Unusable(Login(s))
  BY <1>1 DEF BInv, Leaving, Grants
<1>3. UNCHANGED <<tab, flight, ask, grant>> /\ wire' = wire \cup NextCall /\ a # Waiting
  BY <1>1 DEF LogOutGoesOn
<1>4. NextCall = IF p = "revoke" /\ a = None THEN {Send("logout", "refresh", s, FALSE)}
                 ELSE IF p = "refresh" /\ a # None THEN {Send("logout", "revoke", a, TRUE)} ELSE {}
  BY <1>1 DEF NextCall
<1>5. ASSUME NEW w \in wire PROVE UnderWay(w) /\ w.by # "logout"
  BY <1>1, <1>3 DEF BInv, UnderWay
<1>6. None \notin Grant /\ Waiting \notin Grant /\ None # Waiting
  BY GrantRows DEF BInv, None, Waiting
<1>7. CASE NextCall = {}
  <2>1. leaving' = Stays /\ past' = [past EXCEPT !.ended = @ \cup {Login(s)}] /\ wire' = wire
    BY <1>1, <1>3, <1>7 DEF LogOutGoesOn
  <2>2. Unusable(Login(s))
    BY <1>1, <1>2, <1>4, <1>6, <1>7
  <2>3. /\ past' = [logins |-> past'.logins, faults |-> past'.faults, out |-> past'.out, ended |-> past'.ended,
                    lost |-> past'.lost]
        /\ past'.out = past.out /\ past'.ended = past.ended \cup {Login(s)} /\ past'.lost = past.lost
    BY <2>1 DEF BInv, Grants
  <2>4. Onward
    BY <1>2, <1>3, <2>3, NoGrantTouched DEF BInv, Grants
  <2>5. Grants' /\ Refreshing' /\ Leaving'
    BY <1>3, <2>1, <2>4, TabIsGrant, RefreshingStays DEF BInv, Onward, Leaving
  <2>6. Holds'
    BY <1>3, <2>3 DEF BInv, Holds, Login, Grant, None
  <2>7. (\A w \in wire : UnderWay(w))'
    BY <1>3, <1>5, <2>1, <2>4, CallStays
  <2>8. (\A f \in past.ended : Unusable(f))'
    BY <1>3, <2>2, <2>3 DEF BInv, Unusable, Login, Grant
  <2> QED
    BY <2>5, <2>6, <2>7, <2>8 DEF BInv
<1>8. CASE NextCall # {}
  <2>1. PICK w \in NextCall : /\ UNCHANGED past
                              /\ leaving' = [pc |-> IF w.do = "refresh" THEN "refresh" ELSE "again", sent |-> w.t,
                                             ans |-> Waiting]
    BY <1>8 DEF LogOutGoesOn
  <2>2. /\ NextCall = {w} /\ w.t \in Grant /\ Login(w.t) = Login(s)
        /\ \/ w.do = "refresh" /\ w = Send("logout", "refresh", w.t, FALSE)
           \/ w.do = "revoke" /\ w = Send("logout", "revoke", w.t, TRUE)
    <3>1. CASE p = "revoke" /\ a = None
      <4>1. NextCall = {w} /\ w = Send("logout", "refresh", s, FALSE)
        BY <1>4, <2>1, <3>1
      <4>2. w.t = s /\ w.do = "refresh"
        BY <4>1 DEF Send
      <4> QED
        BY <4>1, <4>2
    <3>2. CASE p = "refresh" /\ a # None
      <4>1. NextCall = {w} /\ w = Send("logout", "revoke", a, TRUE) /\ a \in Grant
        BY <1>4, <2>1, <3>2
      <4>2. w.t = a /\ w.do = "revoke"
        BY <4>1 DEF Send
      <4> QED
        BY <1>2, <3>2, <4>1, <4>2
    <3> QED
      BY <1>4, <1>8, <3>1, <3>2
  <2>3. Onward
    BY <1>3, <2>1, SamePast
  <2>4. Grants' /\ Refreshing' /\ (\A f \in past.ended : Unusable(f))'
    BY <1>3, <2>1, <2>3, TabIsGrant, RefreshingStays, EndedStays DEF BInv, Onward
  <2>5. Holds'
    BY <1>3, <2>1 DEF BInv, Holds, Login, Grant, None
  <2>6. /\ leaving'.pc \in {"refresh", "again"} /\ leaving'.sent = w.t /\ leaving'.ans = Waiting
        /\ leaving'.pc = "refresh" <=> w.do = "refresh"
        /\ w.t \in Grant' /\ Waiting \notin Grant' /\ Login(w.t)' \in past'.out
        /\ leaving' # Stays
    BY <1>2, <1>6, <2>1, <2>2, <2>3 DEF Onward, Waiting, Stays
  <2>7. Leaving'
    BY <1>6, <2>1, <2>6 DEF Leaving, Login
  <2>8. UnderWay(w)'
    <3>1. CASE w.do = "refresh"
      <4>1. w = [by |-> "logout", do |-> "refresh", t |-> w.t, fresh |-> FALSE] /\ leaving'.pc = "refresh"
        BY <2>2, <2>6, <3>1 DEF Send
      <4>2. w.by = "logout" /\ w.fresh = FALSE /\ w = Send(w.by, w.do, w.t, w.fresh)
        BY <4>1 DEF Send
      <4>3. LogoutCall' = [by |-> "logout", do |-> "refresh", t |-> w.t, fresh |-> FALSE]
        BY <2>6, <4>1 DEF LogoutCall, Send
      <4> QED
        BY <2>6, <4>1, <4>2, <4>3 DEF UnderWay, LogoutCall
    <3>2. CASE w.do = "revoke"
      <4>1. w = [by |-> "logout", do |-> "revoke", t |-> w.t, fresh |-> TRUE] /\ leaving'.pc = "again"
        BY <2>2, <2>6, <3>2 DEF Send
      <4>2. w.by = "logout" /\ w.fresh = TRUE /\ w = Send(w.by, w.do, w.t, w.fresh)
        BY <4>1 DEF Send
      <4>3. LogoutCall' = [by |-> "logout", do |-> "revoke", t |-> w.t, fresh |-> TRUE]
        BY <2>6, <4>1 DEF LogoutCall, Send
      <4> QED
        BY <2>6, <4>1, <4>2, <4>3 DEF UnderWay, LogoutCall
    <3> QED
      BY <2>2, <3>1, <3>2
  <2>9. (\A v \in wire : UnderWay(v))'
    BY <1>3, <1>5, <2>2, <2>3, <2>8, CallStays
  <2> QED
    BY <2>4, <2>5, <2>7, <2>9 DEF BInv
<1> QED
  BY <1>7, <1>8

(* A fault leaves behind the calls that nobody waits for any more.          *)
LEMMA OrphanStays ==
  ASSUME BInv, Onward, NEW S \in SUBSET {"flight", "logout"}, wire' = Orphaned(S),
         "flight" \notin S => UNCHANGED flight, "logout" \notin S => UNCHANGED leaving,
         "flight" \in S /\ flight # NoFlight => Login(flight.sent) \in past'.lost
  PROVE  (\A w \in wire : UnderWay(w))'
<1> SUFFICES ASSUME NEW v \in wire' PROVE UnderWay(v)'
  OBVIOUS
<1>1. PICK w \in wire : v = IF w.by \in S THEN [w EXCEPT !.by = "nobody"] ELSE w
  BY DEF Orphaned
<1>2. UnderWay(w)
  BY DEF BInv
<1>3. CASE w.by \notin S
  BY <1>1, <1>2, <1>3, CallStays DEF UnderWay
<1>4. CASE w.by \in S
  <2>1. w = [by |-> w.by, do |-> w.do, t |-> w.t, fresh |-> w.fresh] /\ w.t \in Grant
    BY <1>2 DEF UnderWay, Send
  <2>2. v = [by |-> "nobody", do |-> w.do, t |-> w.t, fresh |-> w.fresh]
    BY <1>1, <1>4, <2>1
  <2>3. v.by = "nobody" /\ v.do = w.do /\ v.t = w.t /\ v = Send(v.by, v.do, v.t, v.fresh)
    BY <2>2 DEF Send
  <2>4. w.t \in Grant' /\ Login(w.t)' = Login(w.t)
    BY <2>1 DEF Onward
  <2>5. Login(w.t) \in past'.out \cup past'.lost /\ (w.do = "revoke" => Login(w.t) \in past'.out)
    <3>1. CASE w.by = "flight"
      <4>1. flight # NoFlight /\ w.t = flight.sent /\ w.do = "refresh"
        BY <1>2, <3>1 DEF UnderWay, Send
      <4> QED
        BY <1>4, <3>1, <4>1
    <3>2. CASE w.by = "logout"
      <4>1. leaving # Stays /\ w.t = leaving.sent
        BY <1>2, <3>2 DEF UnderWay, LogoutCall, Send
      <4>2. Login(w.t) \in past.out
        BY <4>1 DEF BInv, Leaving
      <4> QED
        BY <4>2 DEF Onward
    <3> QED
      BY <1>4, <3>1, <3>2
  <2> QED
    BY <2>3, <2>4, <2>5 DEF UnderWay, Login
<1> QED
  BY <1>3, <1>4

(* What a lost answer leaves on record.                                     *)
LEMMA LostIsPast ==
  ASSUME BInv, NEW L, Loses([past EXCEPT !.lost = @ \cup L])
  PROVE  /\ past' = [logins |-> past'.logins, faults |-> past'.faults, out |-> past'.out, ended |-> past'.ended,
                     lost |-> past'.lost]
         /\ past'.out = past.out /\ past'.ended = past.ended /\ past'.lost = past.lost \cup L
  BY DEF BInv, Grants, Loses

(* The pair in the tab, when a refresh or everything is given up.           *)
LEMMA HoldsWhenLost ==
  ASSUME BInv, UNCHANGED <<tab, grant>>, flight' \in {flight, NoFlight}, past'.out = past.out,
         past.lost \subseteq past'.lost,
         flight' = flight \/ flight = NoFlight \/ Login(flight.sent) \in past'.lost
  PROVE  Holds'
<1> SUFFICES ASSUME tab # None PROVE Holds'
  BY DEF Holds
<1>1. tab \in Grant /\ Login(tab) \notin past.out
  BY DEF BInv, Holds
<1>2. CASE flight' = flight
  BY <1>2 DEF BInv, Holds, Login, Grant
<1>3. CASE flight' = NoFlight /\ flight # NoFlight /\ Login(flight.sent) \in past'.lost
  <2>1. flight'.sent # tab
    BY <1>3 DEF NoFlight
  <2>2. Login(tab) \notin past'.lost => flight.sent # tab /\ grant[tab].st = "ACTIVE"
    BY <1>3 DEF BInv, Holds
  <2> QED
    BY <1>1, <2>1, <2>2 DEF Holds, Login, Grant
<1> QED
  BY <1>2, <1>3

(* The answer of a refresh is lost: its family may have moved on without    *)
(* the tab.                                                                 *)
LEMMA RefreshFailsStep == BInv /\ RefreshFails => BInv'
<1> SUFFICES ASSUME BInv, RefreshFails PROVE BInv'
  OBVIOUS
<1>1. /\ flight # NoFlight /\ flight' = NoFlight /\ wire' = Orphaned({"flight"})
      /\ UNCHANGED <<tab, leaving, grant>> /\ Loses([past EXCEPT !.lost = @ \cup {Login(flight.sent)}])
  BY DEF RefreshFails
<1>2. /\ past' = [logins |-> past'.logins, faults |-> past'.faults, out |-> past'.out, ended |-> past'.ended,
                  lost |-> past'.lost]
      /\ past'.out = past.out /\ past'.ended = past.ended /\ past'.lost = past.lost \cup {Login(flight.sent)}
  BY <1>1, LostIsPast
<1>3. Onward
  BY <1>1, <1>2, NoGrantTouched DEF BInv, Grants
<1>4. Grants' /\ Refreshing' /\ Leaving' /\ (\A f \in past.ended : Unusable(f))'
  BY <1>1, <1>2, <1>3, LeavingStays, EndedStays DEF BInv, Onward, Refreshing
<1>5. Holds'
  BY <1>1, <1>2, HoldsWhenLost
<1>6. (\A w \in wire : UnderWay(w))'
  BY <1>1, <1>2, <1>3, OrphanStays
<1> QED
  BY <1>4, <1>5, <1>6 DEF BInv

(* The answer of a logout is lost; its call may still arrive.               *)
LEMMA LogOutFailsStep == BInv /\ LogOutFails => BInv'
<1> SUFFICES ASSUME BInv, LogOutFails PROVE BInv'
  OBVIOUS
<1>1. leaving' = Stays /\ wire' = Orphaned({"logout"}) /\ UNCHANGED <<tab, flight, ask, grant>> /\ Loses(past)
  BY DEF LogOutFails
<1>2. /\ past' = [logins |-> past'.logins, faults |-> past'.faults, out |-> past'.out, ended |-> past'.ended,
                  lost |-> past'.lost]
      /\ past'.out = past.out /\ past'.ended = past.ended /\ past'.lost = past.lost
  BY <1>1 DEF Loses, BInv, Grants
<1>3. Onward
  BY <1>1, <1>2, NoGrantTouched DEF BInv, Grants
<1>4. Grants' /\ Refreshing' /\ Leaving' /\ (\A f \in past.ended : Unusable(f))'
  BY <1>1, <1>2, <1>3, TabIsGrant, RefreshingStays, EndedStays DEF BInv, Onward, Leaving
<1>5. Holds'
  BY <1>1, <1>2, HoldsWhenLost
<1>6. (\A w \in wire : UnderWay(w))'
  BY <1>1, <1>3, OrphanStays
<1> QED
  BY <1>4, <1>5, <1>6 DEF BInv

(* A reload forgets both.                                                   *)
LEMMA ReloadStep == BInv /\ Reload => BInv'
<1> SUFFICES ASSUME BInv, Reload PROVE BInv'
  OBVIOUS
<1> DEFINE L == {Login(t) : t \in {flight.sent} \ {None}}
<1>1. /\ flight' = NoFlight /\ leaving' = Stays /\ wire' = Orphaned({"flight", "logout"})
      /\ UNCHANGED <<tab, grant>> /\ Loses([past EXCEPT !.lost = @ \cup L])
  BY DEF Reload
<1>2. /\ past' = [logins |-> past'.logins, faults |-> past'.faults, out |-> past'.out, ended |-> past'.ended,
                  lost |-> past'.lost]
      /\ past'.out = past.out /\ past'.ended = past.ended /\ past'.lost = past.lost \cup L
  BY <1>1, LostIsPast
<1>3. flight # NoFlight => Login(flight.sent) \in past'.lost
  BY <1>2, GrantRows DEF BInv, Refreshing, None
<1>4. Onward
  BY <1>1, <1>2, NoGrantTouched DEF BInv, Grants
<1>5. Grants' /\ Refreshing' /\ Leaving' /\ (\A f \in past.ended : Unusable(f))'
  BY <1>1, <1>2, <1>4, EndedStays DEF BInv, Onward, Refreshing, Leaving
<1>6. Holds'
  BY <1>1, <1>2, <1>3, HoldsWhenLost
<1>7. (\A w \in wire : UnderWay(w))'
  BY <1>1, <1>3, <1>4, OrphanStays
<1> QED
  BY <1>5, <1>6, <1>7 DEF BInv

(* A call of one family moves every family onward.                          *)
LEMMA FamilyOnward ==
  ASSUME BInv, NEW f \in 1..Len(grant), OnlyFamily(f), UNCHANGED past
  PROVE  /\ Onward
         /\ \A t \in Grant : Login(t) # f => grant'[t].st = grant[t].st
<1>1. /\ Len(grant) \in Nat /\ Grant = 1..Len(grant)
      /\ \A t \in Grant : Login(t) = grant[t].login /\ Login(t) \in 1..Len(grant)
  BY GrantRows DEF BInv, Grants
<1>2. /\ grant' \in Seq(Row) /\ Len(grant') \in Nat /\ Len(grant') >= Len(grant) /\ Grant' = 1..Len(grant')
      /\ \A t \in 1..Len(grant') : Login(t)' = grant'[t].login
  BY LenProperties DEF OnlyFamily, Grant, Login
<1>3. \A t \in Grant : t \in Grant' /\ Login(t)' = Login(t)
  <2> SUFFICES ASSUME NEW t \in Grant PROVE t \in Grant' /\ Login(t)' = Login(t)
    OBVIOUS
  <2>1. t \in 1..Len(grant')
    BY <1>1, <1>2
  <2>2. grant'[t].login = grant[t].login
    BY DEF OnlyFamily
  <2> QED
    BY <1>1, <1>2, <2>1, <2>2
<1>4. \A t \in Grant' : Login(t)' \in 1..Len(grant')
  <2> SUFFICES ASSUME NEW t \in 1..Len(grant') PROVE Login(t)' \in 1..Len(grant')
    BY <1>2
  <2>1. Login(t)' \in 1..Len(grant)
    <3>1. CASE t \in Grant
      BY <1>1, <1>3, <3>1
    <3>2. CASE t \notin Grant
      BY <1>2, <3>2 DEF OnlyFamily
    <3> QED
      BY <3>1, <3>2
  <2> QED
    BY <1>1, <1>2, <2>1
<1>5. Grants'
  BY <1>1, <1>2, <1>4 DEF BInv, Grants, Row
<1>6. ASSUME NEW g \in 1..Len(grant), Unusable(g) PROVE Unusable(g)'
  <2>1. CASE g = f
    BY <1>2, <1>6, <2>1 DEF OnlyFamily, Unusable
  <2>2. CASE g # f
    <3> SUFFICES ASSUME NEW t \in Grant', Login(t)' = g PROVE grant'[t].st # "ACTIVE"
      BY DEF Unusable
    <3>1. t \in Grant /\ Login(t) = g
      BY <1>2, <1>3, <2>2 DEF OnlyFamily
    <3> QED
      BY <1>1, <1>6, <2>2, <3>1 DEF OnlyFamily, Unusable
  <2> QED
    BY <2>1, <2>2
<1>7. \A t \in Grant : Login(t) # f => grant'[t].st = grant[t].st
  BY <1>1 DEF OnlyFamily
<1> QED
  BY <1>2, <1>3, <1>5, <1>6, <1>7 DEF Onward

(* An answer takes its call off the wire; the calls of the refresh and of    *)
(* the logout are single, so no other loses the one that waits for it.      *)
LEMMA ReplyCalls ==
  ASSUME BInv, Onward, NEW w \in wire, NEW ans, Reply(w, ans)
  PROVE  (\A v \in wire : UnderWay(v))'
<1> SUFFICES ASSUME NEW v \in wire, v # w PROVE UnderWay(v)'
  BY DEF Reply
<1>1. UnderWay(v) /\ UnderWay(w)
  BY DEF BInv
<1>2. v.by = "flight" => w.by # "flight"
  BY <1>1 DEF UnderWay
<1>3. v.by = "logout" => w.by # "logout"
  BY <1>1 DEF UnderWay
<1> QED
  BY <1>1, <1>2, <1>3, CallStays DEF Reply

(* The tab's own family changes only by its refresh, unless it was cut off.  *)
LEMMA HoldsAside ==
  ASSUME BInv, NEW f \in past.out \cup past.lost,
         \A t \in Grant : t \in Grant' /\ Login(t)' = Login(t),
         \A t \in Grant : Login(t) # f => grant'[t].st = grant[t].st,
         None \notin Grant', Waiting \notin Grant',
         UNCHANGED <<tab, flight, past>>
  PROVE  Holds'
<1> SUFFICES ASSUME tab # None PROVE Holds'
  BY DEF Holds
<1>1. PICK b \in Grant : b = tab
  BY TabIsGrant
<1>2. Login(b) \notin past.out
  BY <1>1 DEF BInv, Holds
<1>3. CASE Login(b) \in past.lost
  BY <1>1, <1>2, <1>3 DEF Holds, Login
<1>4. CASE Login(b) \notin past.lost
  <2>1. Login(b) # f
    BY <1>2, <1>4
  <2>2. grant'[b].st = grant[b].st
    BY <2>1
  <2>3. flight.sent = b => flight # NoFlight
    BY <1>1 DEF NoFlight
  <2>4. flight.sent = b /\ flight.ans \in Grant' => flight.ans \in Grant /\ grant'[flight.ans].st = grant[flight.ans].st
    BY <2>1, <2>3 DEF BInv, Refreshing
  <2>5. flight.sent = b /\ flight.ans \in Grant => flight.ans \in Grant'
    OBVIOUS
  <2> QED
    BY <1>1, <1>2, <1>4, <2>2, <2>4, <2>5 DEF BInv, Holds, Login
<1> QED
  BY <1>3, <1>4

(* The answer of a call of the logout.                                      *)
LEMMA LogoutAnswered ==
  ASSUME BInv, Onward, NEW w \in wire, w.by = "logout", NEW ans \in {None} \cup Grant',
         leaving' = [leaving EXCEPT !.ans = ans], NEW f, f = Login(w.t),
         w.do = "refresh" /\ ans \in Grant' => Login(ans)' = f,
         w.do = "refresh" /\ ans = None => Unusable(f)',
         w.do = "revoke" /\ ans \in Grant' => Unusable(f)',
         ans = None => ~w.fresh
  PROVE  Leaving'
<1>1. leaving # Stays /\ leaving.ans = Waiting /\ w = LogoutCall
  BY DEF BInv, UnderWay
<1>2. PICK p \in {"revoke", "refresh", "again"}, s \in Grant :
        leaving.pc = p /\ leaving.sent = s /\ leaving = [pc |-> p, sent |-> s, ans |-> leaving.ans]
  BY <1>1 DEF BInv, Leaving
<1>3. w.t = s /\ Login(s) = f /\ Login(s) \in past.out
  BY <1>1, <1>2 DEF LogoutCall, Send, BInv, Leaving
<1>4. leaving' = [pc |-> p, sent |-> s, ans |-> ans] /\ leaving'.pc = p /\ leaving'.sent = s /\ leaving'.ans = ans
  BY <1>2
<1>5. /\ p = "refresh" => w.do = "refresh"
      /\ p # "refresh" => w.do = "revoke"
      /\ p = "again" => w.fresh
  BY <1>1, <1>2 DEF LogoutCall, Send
<1>6. s \in Grant' /\ Login(s)' = f /\ Login(s)' \in past'.out
  BY <1>3 DEF Onward
<1>7. Unusable(Login(leaving.sent))' <=> Unusable(f)'
  BY <1>4, <1>6 DEF Unusable, Login
<1>8. None \notin Grant'
  BY DEF Onward, None
<1> QED
  BY <1>4, <1>5, <1>6, <1>7, <1>8 DEF Leaving, Login

(* The logout, whosever call is answered.                                   *)
LEMMA LeavingAnswered ==
  ASSUME BInv, Onward, NEW w \in wire, NEW ans \in {None} \cup Grant', Reply(w, ans), NEW f, f = Login(w.t),
         w.do = "refresh" /\ ans \in Grant' => Login(ans)' = f,
         w.do = "refresh" /\ ans = None => Unusable(f)',
         w.do = "revoke" /\ ans \in Grant' => Unusable(f)',
         ans = None => ~w.fresh \/ w.by # "logout"
  PROVE  Leaving'
<1>1. CASE w.by = "logout"
  BY <1>1, LogoutAnswered DEF Reply
<1>2. CASE w.by # "logout"
  BY <1>2, LeavingStays DEF Reply, BInv
<1> QED
  BY <1>1, <1>2

(* The answer of a refresh: a token of the same family, or a refusal.       *)
LEMMA FlightAnswered ==
  ASSUME BInv, Onward, NEW w \in wire, w.by = "flight", NEW ans \in {None} \cup Grant', Reply(w, ans),
         ans \in Grant' => Login(ans)' = Login(w.t)
  PROVE  /\ Refreshing'
         /\ flight # NoFlight /\ flight.ans = Waiting /\ w.t = flight.sent /\ w.t \in Grant
         /\ flight'.sent = w.t /\ flight'.ans = ans
<1>1. flight # NoFlight /\ flight.ans = Waiting /\ w.t = flight.sent /\ w.t \in Grant
  BY DEF BInv, UnderWay, Send
<1>2. PICK s \in Grant : flight.sent = s /\ flight = [sent |-> s, ans |-> Waiting]
  BY <1>1 DEF BInv, Refreshing
<1>3. flight' = [sent |-> s, ans |-> ans] /\ flight'.sent = s /\ flight'.ans = ans
  BY <1>2 DEF Reply
<1>4. PICK b : b = tab /\ tab' = b
  BY DEF Reply
<1>5. /\ b \in {None, s} \/ (b \in Grant /\ Login(b) # Login(s))
  BY <1>1, <1>2, <1>4, TabIsGrant DEF BInv, Refreshing
<1>6. s \in Grant' /\ Login(s)' = Login(s) /\ (b \in Grant => Login(b)' = Login(b))
  BY DEF Onward
<1>7. Refreshing'
  BY <1>1, <1>2, <1>3, <1>4, <1>5, <1>6 DEF Refreshing, Login
<1> QED
  BY <1>1, <1>2, <1>3, <1>7

(* A call that is not the one of the refresh concerns a family that the tab *)
(* has left or was cut off from.                                            *)
LEMMA OthersRefreshing ==
  ASSUME BInv, Onward, NEW w \in wire, w.by # "flight", NEW ans, Reply(w, ans)
  PROVE  Refreshing' /\ UNCHANGED <<tab, flight, past>> /\ Login(w.t) \in past.out \cup past.lost
<1>1. UNCHANGED <<tab, flight, past>>
  BY DEF Reply
<1>2. Refreshing'
  BY <1>1, TabIsGrant, RefreshingStays DEF BInv
<1>3. UnderWay(w)
  BY DEF BInv
<1>4. CASE w.by = "logout"
  <2>1. leaving # Stays /\ w.t = leaving.sent
    BY <1>3, <1>4 DEF UnderWay, LogoutCall, Send
  <2> QED
    BY <1>1, <1>2, <2>1 DEF BInv, Leaving
<1>5. CASE w.by = "nobody"
  BY <1>1, <1>2, <1>3, <1>5 DEF UnderWay
<1> QED
  BY <1>3, <1>4, <1>5 DEF UnderWay

(* A refresh with the usable token.                                         *)
LEMMA RotateStep ==
  ASSUME BInv, NEW w \in wire, w.do = "refresh", grant[w.t].st = "ACTIVE",
         grant' = Append(Turned({w.t}, "ROTATED"), [login |-> Login(w.t), st |-> "ACTIVE"]),
         Reply(w, Len(grant) + 1)
  PROVE  BInv'
<1>1. w.t \in Grant /\ Len(grant) \in Nat /\ Grant = 1..Len(grant) /\ UnderWay(w)
  BY GrantRows DEF BInv, UnderWay
<1>2. PICK f \in 1..Len(grant), n \in Nat : f = Login(w.t) /\ n = Len(grant) + 1
  BY <1>1 DEF BInv, Grants
<1>3. /\ OnlyFamily(f) /\ Len(grant') = n /\ grant'[n].st = "ACTIVE" /\ grant'[n].login = f
  BY <1>1, <1>2, RotatesItsFamily DEF BInv
<1>4. /\ Onward /\ UNCHANGED past
      /\ \A t \in Grant : Login(t) # f => grant'[t].st = grant[t].st
  BY <1>3, FamilyOnward DEF Reply
<1>5. /\ n \in Grant' /\ n # None /\ Login(n)' = f /\ None \notin Grant' /\ Waiting \notin Grant'
  BY <1>1, <1>2, <1>3, <1>4 DEF Onward, Login, None, Waiting
<1>6. Reply(w, n)
  BY <1>2
<1>7. Leaving'
  BY <1>2, <1>4, <1>5, <1>6, LeavingAnswered
<1>8. Grants' /\ (\A v \in wire : UnderWay(v))' /\ (\A g \in past.ended : Unusable(g))'
  BY <1>4, <1>6, ReplyCalls, EndedStays DEF Onward
<1>9. CASE w.by = "flight"
  <2>1. /\ Refreshing' /\ flight # NoFlight /\ w.t = flight.sent /\ flight'.sent = w.t /\ flight'.ans = n
        /\ flight.ans = Waiting
    BY <1>2, <1>4, <1>5, <1>6, <1>9, FlightAnswered
  <2>2. Holds'
    <3> SUFFICES ASSUME tab # None PROVE Holds'
      BY DEF Holds, Reply
    <3>1. PICK b \in Grant : b = tab /\ tab' = b
      BY <1>6, TabIsGrant DEF Reply
    <3>2. b \in Grant' /\ Login(b)' = Login(b) /\ Login(b) \notin past'.out
      BY <1>4, <3>1 DEF Onward, BInv, Holds
    <3>3. CASE b = w.t
      BY <1>3, <1>5, <2>1, <3>1, <3>2, <3>3 DEF Holds, Login
    <3>4. CASE b # w.t
      <4>1. Login(b) # f
        BY <1>2, <2>1, <3>1, <3>4, <1>1 DEF BInv, Refreshing, None
      <4>2. Login(b) \notin past.lost => grant[b].st = "ACTIVE"
        BY <2>1, <3>1, <3>4 DEF BInv, Holds
      <4> QED
        BY <1>4, <2>1, <3>1, <3>2, <3>4, <4>1, <4>2 DEF Holds, Login
    <3> QED
      BY <3>3, <3>4
  <2> QED
    BY <1>7, <1>8, <2>1, <2>2 DEF BInv
<1>10. CASE w.by # "flight"
  <2>1. Refreshing' /\ UNCHANGED <<tab, flight, past>> /\ f \in past.out \cup past.lost
    BY <1>2, <1>4, <1>6, <1>10, OthersRefreshing
  <2>2. Holds'
    BY <1>4, <1>5, <2>1, HoldsAside DEF Onward
  <2> QED
    BY <1>7, <1>8, <2>1, <2>2 DEF BInv
<1> QED
  BY <1>9, <1>10

(* A refresh with a spent token ends its family.                            *)
LEMMA CompromiseStep ==
  ASSUME BInv, NEW w \in wire, w.do = "refresh", grant[w.t].st # "ACTIVE",
         grant' = Turned(Kin(w.t), "COMPROMISED"), Reply(w, None)
  PROVE  BInv'
<1>1. w.t \in Grant /\ Len(grant) \in Nat /\ Grant = 1..Len(grant) /\ UnderWay(w)
  BY GrantRows DEF BInv, UnderWay
<1>2. PICK f \in 1..Len(grant) : f = Login(w.t)
  BY <1>1 DEF BInv, Grants
<1>3. OnlyFamily(f) /\ Len(grant') = Len(grant)
  BY <1>2, TurnsItsFamily DEF BInv, Kin
<1>4. /\ Onward /\ UNCHANGED past
      /\ \A t \in Grant : Login(t) # f => grant'[t].st = grant[t].st
  BY <1>3, FamilyOnward DEF Reply
<1>5. None \notin Grant' /\ Waiting \notin Grant' /\ Grant' = Grant
  BY <1>1, <1>3, <1>4 DEF Onward, None, Waiting
<1>6. Unusable(f)'
  <2>1. \A t \in Grant : grant'[t].st = IF t \in Kin(w.t) THEN "COMPROMISED" ELSE grant[t].st
    BY TurnedRows DEF BInv
  <2> QED
    BY <1>2, <1>4, <1>5, <2>1 DEF Unusable, Kin, Onward
<1>7. w.by = "logout" => ~w.fresh
  <2> SUFFICES ASSUME w.by = "logout" PROVE ~w.fresh
    OBVIOUS
  <2>1. w = LogoutCall
    BY <1>1 DEF UnderWay
  <2>2. leaving.pc = "refresh"
    BY <2>1 DEF LogoutCall, Send
  <2> QED
    BY <2>1, <2>2 DEF LogoutCall, Send
<1>8. Leaving'
  BY <1>2, <1>4, <1>5, <1>6, <1>7, LeavingAnswered
<1>9. Grants' /\ (\A v \in wire : UnderWay(v))' /\ (\A g \in past.ended : Unusable(g))'
  BY <1>4, ReplyCalls, EndedStays DEF Onward
<1>10. CASE w.by = "flight"
  <2>1. /\ Refreshing' /\ flight # NoFlight /\ w.t = flight.sent /\ flight'.sent = w.t /\ flight'.ans = None
        /\ flight.ans = Waiting
    BY <1>4, <1>5, <1>10, FlightAnswered
  <2>2. Holds'
    <3> SUFFICES ASSUME tab # None PROVE Holds'
      BY DEF Holds, Reply
    <3>1. PICK b \in Grant : b = tab /\ tab' = b
      BY TabIsGrant DEF Reply
    <3>2. b \in Grant' /\ Login(b)' = Login(b) /\ Login(b) \notin past'.out
      BY <1>4, <3>1 DEF Onward, BInv, Holds
    <3>3. Login(b) \notin past.lost => grant[b].st = "ACTIVE"
      BY <1>1, <1>5, <2>1, <3>1 DEF BInv, Holds
    <3>4. Login(b) \notin past.lost => b # w.t
      BY <3>3
    <3>5. b # w.t => Login(b) # f
      BY <1>1, <1>2, <2>1, <3>1 DEF BInv, Refreshing, None
    <3> QED
      BY <1>4, <1>5, <2>1, <3>1, <3>2, <3>3, <3>4, <3>5 DEF Holds, Login
  <2> QED
    BY <1>8, <1>9, <2>1, <2>2 DEF BInv
<1>11. CASE w.by # "flight"
  <2>1. Refreshing' /\ UNCHANGED <<tab, flight, past>> /\ f \in past.out \cup past.lost
    BY <1>2, <1>4, <1>11, OthersRefreshing
  <2>2. Holds'
    BY <1>4, <1>5, <2>1, HoldsAside DEF Onward
  <2> QED
    BY <1>8, <1>9, <2>1, <2>2 DEF BInv
<1> QED
  BY <1>10, <1>11

(* A revocation, or its refusal.                                            *)
LEMMA RevokeStep ==
  ASSUME BInv, NEW w \in wire, RevokeRefreshToken(w)
  PROVE  BInv'
<1>1. w.t \in Grant /\ Len(grant) \in Nat /\ Grant = 1..Len(grant) /\ UnderWay(w) /\ w.do = "revoke"
  BY GrantRows DEF BInv, UnderWay, RevokeRefreshToken
<1>2. PICK f \in 1..Len(grant) : f = Login(w.t)
  BY <1>1 DEF BInv, Grants
<1>3. w.by # "flight"
  BY <1>1 DEF UnderWay, Send
<1>4. None \notin Grant /\ Waiting \notin Grant
  BY <1>1 DEF None, Waiting
<1>5. CASE grant' = Turned({t \in Kin(w.t) : grant[t].st = "ACTIVE"}, "REVOKED") /\ Reply(w, w.t)
  <2>1. OnlyFamily(f) /\ Len(grant') = Len(grant)
    BY <1>2, <1>5, TurnsItsFamily DEF BInv, Kin
  <2>2. /\ Onward /\ UNCHANGED past
        /\ \A t \in Grant : Login(t) # f => grant'[t].st = grant[t].st
    BY <1>5, <2>1, FamilyOnward DEF Reply
  <2>3. None \notin Grant' /\ Waiting \notin Grant' /\ Grant' = Grant
    BY <1>1, <2>1, <2>2 DEF Onward, None, Waiting
  <2>4. Unusable(f)'
    <3>1. \A t \in Grant : grant'[t].st = IF t \in Kin(w.t) /\ grant[t].st = "ACTIVE" THEN "REVOKED" ELSE grant[t].st
      BY <1>5, TurnedRows DEF BInv
    <3> QED
      BY <1>2, <2>2, <2>3, <3>1 DEF Unusable, Kin, Onward
  <2>5. PICK t \in Grant' : t = w.t /\ Reply(w, t) /\ t # None
    BY <1>1, <1>4, <1>5, <2>3
  <2>6. Leaving' /\ Grants' /\ (\A v \in wire : UnderWay(v))' /\ (\A g \in past.ended : Unusable(g))'
    BY <1>1, <1>2, <2>2, <2>4, <2>5, LeavingAnswered, ReplyCalls, EndedStays DEF Onward
  <2>7. Refreshing' /\ UNCHANGED <<tab, flight, past>> /\ f \in past.out \cup past.lost
    BY <1>2, <1>3, <2>2, <2>5, OthersRefreshing
  <2>8. Holds'
    BY <2>2, <2>3, <2>7, HoldsAside DEF Onward
  <2> QED
    BY <2>6, <2>7, <2>8 DEF BInv
<1>6. CASE ~w.fresh /\ UNCHANGED grant /\ Reply(w, None)
  <2>1. Onward /\ UNCHANGED past
    BY <1>6, SamePast DEF Reply
  <2>2. Leaving' /\ Grants' /\ (\A v \in wire : UnderWay(v))' /\ (\A g \in past.ended : Unusable(g))'
    BY <1>1, <1>2, <1>4, <1>6, <2>1, LeavingAnswered, ReplyCalls, EndedStays DEF Onward
  <2>3. Refreshing' /\ UNCHANGED <<tab, flight, past>>
    BY <1>3, <1>6, <2>1, OthersRefreshing
  <2>4. Holds'
    BY <1>6, <2>3 DEF BInv, Holds, Login, Grant
  <2> QED
    BY <2>2, <2>3, <2>4 DEF BInv
<1> QED
  BY <1>5, <1>6 DEF RevokeRefreshToken

(* Every step keeps the invariant.                                          *)
LEMMA BrowserStep == BInv /\ [BrowserNext]_browserVars => BInv'
<1> SUFFICES ASSUME BInv, [BrowserNext]_browserVars PROVE BInv'
  OBVIOUS
<1>1. CASE LogIn \/ LogOut \/ LogOutGoesOn \/ RefreshEnds
  BY <1>1, LoginStep, LogOutStep, LogOutGoesOnStep, RefreshEndsStep
<1>2. ASSUME NEW a \in Asker, Request(a) \/ Settled(a) \/ RefusedAgain(a) PROVE BInv'
  BY <1>2, PageStep DEF Request, Settled, RefusedAgain
<1>3. ASSUME NEW a \in Asker, Refused(a) PROVE BInv'
  BY <1>3, RefusedStep
<1>4. ASSUME NEW w \in wire, Refresh(w) PROVE BInv'
  BY <1>4, RotateStep, CompromiseStep DEF Refresh
<1>5. ASSUME NEW w \in wire, RevokeRefreshToken(w) PROVE BInv'
  BY <1>5, RevokeStep
<1>6. CASE RefreshFails \/ LogOutFails \/ Reload
  BY <1>6, RefreshFailsStep, LogOutFailsStep, ReloadStep
<1>7. CASE UNCHANGED browserVars
  BY <1>7, PageStep DEF browserVars
<1> QED
  BY <1>1, <1>2, <1>3, <1>4, <1>5, <1>6, <1>7 DEF BrowserNext

(* The invariant of a tab.                                                  *)
LEMMA BrowserAlways == BrowserSpec => []BInv
  BY BrowserBegins, BrowserStep, PTL DEF BrowserSpec

(* However many requests are refused at once, for whatever reason, the tab   *)
(* holds the usable pair of its family or awaits the one that replaces it,   *)
(* unless the answer of a refresh was lost: the refresh that every request   *)
(* joins (accessTokenRefresh in core/api/http.ts) sends no token twice.      *)
THEOREM TabStaysSignedIn == BrowserSpec => []SessionSurvives
<1>1. BInv => SessionSurvives
  BY DEF BInv, Holds, SessionSurvives
<1> QED
  BY <1>1, BrowserAlways, PTL

(* A refresh that ends late never brings back the session the user has left, *)
(* and when logout (core/api/auth.ts) has run to its end no token of that    *)
(* session is usable, whichever of its calls were refused on the way.       *)
THEOREM LeftIsLeft == BrowserSpec => []LogoutIsFinal
<1>1. BInv => LogoutIsFinal
  BY DEF BInv, Holds, Unusable, LogoutIsFinal
<1> QED
  BY <1>1, BrowserAlways, PTL

-----------------------------------------------------------------------------
(* The types of the tab's state.  No number is kept beyond the tokens       *)
(* issued, and those never exceed the bound.                                *)
AskRow    == [pc : {"rest", "sent", "wait", "again"}, began : 0..NumGrants, auth : 0..NumGrants]
FlightRow == [sent : 0..NumGrants, ans : -1..NumGrants]
LeaveRow  == [pc : {"none", "revoke", "refresh", "again"}, sent : 0..NumGrants, ans : -1..NumGrants]
CallRow   == [by : {"flight", "logout", "nobody"}, do : {"refresh", "revoke"}, t : 1..NumGrants, fresh : BOOLEAN]
GrantRow  == [login : 1..NumGrants, st : {"ACTIVE", "ROTATED", "REVOKED", "COMPROMISED"}]
TabTyped  == BrowserTypeOK /\ Len(grant) <= NumGrants

(* What may be put together.                                                *)
LEMMA TabConstants == NoFlight \in FlightRow /\ Stays \in LeaveRow /\ Rest \in AskRow
BY BrowserConstants DEF NoFlight, Stays, Rest, None, FlightRow, LeaveRow, AskRow

(* A request of the tab, and its answer.                                    *)
LEMMA TabFlight ==
  ASSUME NEW m \in -1..NumGrants
  PROVE  /\ \A n \in 0..NumGrants : [sent |-> n, ans |-> m] \in FlightRow
         /\ \A q \in FlightRow : [q EXCEPT !.ans = m] \in FlightRow
BY DEF FlightRow

(* A logout under way, and its answer.                                      *)
LEMMA TabLeave ==
  ASSUME NEW m \in -1..NumGrants
  PROVE  /\ \A n \in 0..NumGrants, pc \in {"none", "revoke", "refresh", "again"} :
              [pc |-> pc, sent |-> n, ans |-> m] \in LeaveRow
         /\ \A q \in LeaveRow : [q EXCEPT !.ans = m] \in LeaveRow
BY DEF LeaveRow

(* A caller as it asks, waits and asks again.                               *)
LEMMA TabAsk ==
  ASSUME NEW n \in 0..NumGrants
  PROVE  /\ [pc |-> "sent", began |-> n, auth |-> n] \in AskRow
         /\ \A q \in AskRow : /\ [q EXCEPT !.pc = "wait"] \in AskRow
                              /\ [q EXCEPT !.pc = "again", !.auth = n] \in AskRow
<1>1. [pc |-> "sent", began |-> n, auth |-> n] \in AskRow
  BY DEF AskRow
<1>2. ASSUME NEW q \in AskRow
      PROVE  /\ [q EXCEPT !.pc = "wait"] \in AskRow
             /\ [q EXCEPT !.pc = "again", !.auth = n] \in AskRow
  <2>1. q = [pc |-> q.pc, began |-> q.began, auth |-> q.auth] /\ q.began \in 0..NumGrants /\ q.auth \in 0..NumGrants
    BY DEF AskRow
  <2>2. [q EXCEPT !.pc = "wait"] = [pc |-> "wait", began |-> q.began, auth |-> q.auth]
    BY <2>1
  <2>3. [q EXCEPT !.pc = "again", !.auth = n] = [pc |-> "again", began |-> q.began, auth |-> n]
    <3>1. PICK p : p = [q EXCEPT !.pc = "again"]
      OBVIOUS
    <3>2. p = [pc |-> "again", began |-> q.began, auth |-> q.auth]
      BY <2>1, <3>1
    <3>3. [q EXCEPT !.pc = "again", !.auth = n] = [p EXCEPT !.auth = n]
      BY <3>1
    <3> QED
      BY <3>2, <3>3
  <2> QED
    BY <2>1, <2>2, <2>3 DEF AskRow
<1> QED
  BY <1>1, <1>2, Zenon

(* A call on the wire, and one whose caller is gone.                        *)
LEMMA TabCall ==
  /\ \A by \in {"flight", "logout", "nobody"}, do \in {"refresh", "revoke"}, t \in 1..NumGrants, b \in BOOLEAN :
       Send(by, do, t, b) \in CallRow
  /\ \A w \in CallRow : [w EXCEPT !.by = "nobody"] \in CallRow
BY DEF CallRow, Send

(* The type invariant, variable by variable.                                *)
LEMMA TabTypesAre ==
  /\ BrowserTypeOK <=> /\ tab \in 0..NumGrants /\ flight \in FlightRow /\ leaving \in LeaveRow
                       /\ ask \in [Asker -> AskRow] /\ wire \subseteq CallRow /\ grant \in Seq(GrantRow)
  /\ BrowserTypeOK' <=> /\ tab' \in 0..NumGrants /\ flight' \in FlightRow /\ leaving' \in LeaveRow
                        /\ ask' \in [Asker -> AskRow] /\ wire' \subseteq CallRow /\ grant' \in Seq(GrantRow)
BY DEF BrowserTypeOK, FlightRow, LeaveRow, AskRow, CallRow, GrantRow

(* What is known of the numbers in use.                                     *)
LEMMA TabNumbers ==
  ASSUME BInv, TabTyped
  PROVE  /\ NumGrants \in Nat /\ Len(grant) \in Nat /\ Grant = 1..Len(grant) /\ Len(grant) <= NumGrants
         /\ Grant \subseteq 1..NumGrants /\ None \in 0..NumGrants /\ Waiting \in -1..NumGrants
         /\ \A n \in 0..NumGrants : n \in -1..NumGrants /\ (n # None => n \in 1..NumGrants)
         /\ \A n \in -1..NumGrants : n # Waiting => n \in 0..NumGrants
         /\ \A n \in 1..NumGrants : n \in 0..NumGrants /\ n # None
         /\ \A t \in Grant : grant[t] \in GrantRow /\ Login(t) \in 1..NumGrants
<1>1. NumGrants \in Nat /\ Len(grant) \in Nat /\ Grant = 1..Len(grant) /\ Len(grant) <= NumGrants
  BY BrowserConstants, GrantRows DEF BInv, TabTyped
<1>2. \A t \in Grant : grant[t] \in GrantRow
  <2>1. grant \in Seq(GrantRow)
    BY TabTypesAre DEF TabTyped
  <2> QED
    BY <2>1, ElementOfSeq, LenProperties DEF Grant
<1>3. \A t \in Grant : Login(t) \in 1..NumGrants
  BY <1>2 DEF Login, GrantRow
<1> QED
  BY <1>1, <1>2, <1>3 DEF None, Waiting

(* A change of status keeps the types of the rows.                          *)
LEMMA TurnedTyped ==
  ASSUME BInv, TabTyped, NEW S, NEW st \in {"ROTATED", "REVOKED", "COMPROMISED"}
  PROVE  Turned(S, st) \in Seq(GrantRow) /\ Len(Turned(S, st)) = Len(grant)
<1>1. Turned(S, st) \in Seq(Row) /\ Len(Turned(S, st)) = Len(grant)
  BY TurnedRows DEF BInv
<1>2. \A t \in Grant : [grant[t] EXCEPT !.st = st] \in GrantRow
  BY TabNumbers DEF GrantRow
<1>3. Turned(S, st) \in [1..Len(grant) -> GrantRow]
  BY <1>2, TabNumbers DEF Turned
<1>4. Turned(S, st) \in Seq(GrantRow)
  BY <1>3, TabNumbers, IsASeq
<1> QED
  BY <1>1, <1>4

(* What the tab itself does: the server's rows stay as they are.            *)
LEMMA TabStepTypes ==
  ASSUME BInv, TabTyped,
         \/ LogOut \/ LogOutGoesOn \/ RefreshEnds \/ RefreshFails \/ LogOutFails \/ Reload
         \/ \E a \in Asker : Request(a) \/ Settled(a) \/ Refused(a) \/ RefusedAgain(a)
  PROVE  TabTyped'
<1>1. /\ tab \in 0..NumGrants /\ flight \in FlightRow /\ leaving \in LeaveRow
      /\ ask \in [Asker -> AskRow] /\ wire \subseteq CallRow /\ grant \in Seq(GrantRow)
  BY TabTypesAre DEF TabTyped
<1>2. /\ NumGrants \in Nat /\ None \in 0..NumGrants /\ Waiting \in -1..NumGrants
      /\ Grant \subseteq 1..NumGrants
      /\ \A n \in 0..NumGrants : n \in -1..NumGrants /\ (n # None => n \in 1..NumGrants)
      /\ \A n \in -1..NumGrants : n # Waiting => n \in 0..NumGrants
      /\ \A n \in 1..NumGrants : n \in 0..NumGrants /\ n # None
  BY TabNumbers
<1>3. \A S : Orphaned(S) \subseteq CallRow
  <2>1. \A w \in wire : w \in CallRow /\ [w EXCEPT !.by = "nobody"] \in CallRow
    BY <1>1, TabCall, Zenon
  <2> QED
    BY <2>1 DEF Orphaned
<1> SUFFICES BrowserTypeOK' /\ UNCHANGED grant
  BY DEF TabTyped
<1>4. UNCHANGED grant
  BY Zenon DEF LogOut, LogOutGoesOn, RefreshEnds, RefreshFails, LogOutFails, Reload, Request, Settled, Refused, RefusedAgain
<1>5. CASE LogOut
  <2>1. leaving' \in LeaveRow
    <3>1. tab \in 0..NumGrants /\ leaving' = [pc |-> "revoke", sent |-> tab, ans |-> Waiting]
      BY <1>1, <1>5 DEF LogOut
    <3>2. [pc |-> "revoke", sent |-> tab, ans |-> Waiting] \in LeaveRow
      BY <1>2, <3>1, TabLeave
    <3> QED
      BY <3>1, <3>2, Zenon
  <2>2. Send("logout", "revoke", tab, FALSE) \in CallRow
    <3>1. tab \in 1..NumGrants
      BY <1>1, <1>2, <1>5 DEF LogOut
    <3> QED
      BY <3>1, TabCall
  <2>3. tab' = None /\ UNCHANGED <<flight, ask>> /\ wire' = wire \cup {Send("logout", "revoke", tab, FALSE)}
    BY <1>5 DEF LogOut
  <2> QED
    BY <1>1, <1>2, <1>4, <2>1, <2>2, <2>3, TabTypesAre
<1>6. CASE LogOutGoesOn
  <2>1. leaving.sent \in 1..NumGrants /\ leaving.ans \in {None} \cup 1..NumGrants
    BY <1>2, <1>6 DEF BInv, Leaving, LogOutGoesOn
  <2>2. NextCall = {} \/ \E do \in {"refresh", "revoke"}, t \in 1..NumGrants, b \in BOOLEAN :
                           NextCall = {Send("logout", do, t, b)}
    BY <2>1, Zenon DEF NextCall
  <2>3. \A do, t, b : Send("logout", do, t, b).t = t /\ Send("logout", do, t, b).do = do
    BY DEF Send
  <2>4. NextCall \subseteq CallRow /\ \A v \in NextCall : v.t \in 1..NumGrants
    <3>1. CASE NextCall = {}
      BY <3>1
    <3>2. ASSUME NEW do \in {"refresh", "revoke"}, NEW t \in 1..NumGrants, NEW b \in BOOLEAN,
                 NextCall = {Send("logout", do, t, b)}
          PROVE  NextCall \subseteq CallRow /\ \A v \in NextCall : v.t \in 1..NumGrants
      <4>1. Send("logout", do, t, b) \in CallRow
        BY TabCall
      <4> QED
        BY <2>3, <3>2, <4>1
    <3> QED
      BY <2>2, <3>1, <3>2
  <2>5. leaving' \in LeaveRow
    <3>1. CASE NextCall = {}
      BY <1>6, <3>1, TabConstants, Zenon DEF LogOutGoesOn
    <3>2. CASE NextCall # {}
      <4>1. PICK v \in NextCall : leaving' = [pc |-> IF v.do = "refresh" THEN "refresh" ELSE "again", sent |-> v.t, ans |-> Waiting]
        BY <1>6, <3>2 DEF LogOutGoesOn
      <4> QED
        <5>1. v.t \in 0..NumGrants
          BY <1>2, <2>4, <3>2
        <5>2. CASE v.do = "refresh"
          BY <1>2, <4>1, <5>1, <5>2, TabLeave
        <5>3. CASE v.do # "refresh"
          BY <1>2, <4>1, <5>1, <5>3, TabLeave
        <5> QED
          BY <5>2, <5>3
    <3> QED
      BY <3>1, <3>2
  <2>6. wire' = wire \cup NextCall /\ UNCHANGED <<tab, flight, ask>>
    BY <1>6 DEF LogOutGoesOn
  <2> QED
    BY <1>1, <1>4, <2>4, <2>5, <2>6, TabTypesAre, Zenon
<1>7. CASE RefreshEnds
  <2>1. flight.ans \in 0..NumGrants
    <3>1. flight.ans \in -1..NumGrants
      BY <1>1 DEF FlightRow
    <3>2. flight.ans # Waiting
      BY <1>7, Zenon DEF RefreshEnds
    <3> QED
      BY <1>2, <3>1, <3>2
  <2>2. PICK stored \in 0..NumGrants : stored = IF Keeps THEN flight.ans ELSE IF tab = flight.sent THEN None ELSE tab
    BY <1>1, <1>2, <2>1
  <2>3. PICK awaits : awaits = {b \in Asker : ask[b].pc = "wait"}
    OBVIOUS
  <2>4. /\ tab' \in {None, stored} /\ flight' = NoFlight /\ UNCHANGED <<leaving, wire>>
        /\ ask' = [a \in Asker |-> IF a \notin awaits THEN ask[a]
                             ELSE IF Keeps /\ Repeats(a)
                                  THEN [ask[a] EXCEPT !.pc = "again", !.auth = stored] ELSE Rest]
    BY <1>7, <2>2, <2>3, Zenon DEF RefreshEnds
  <2>5. ask' \in [Asker -> AskRow]
    <3>1. \A a \in Asker : ask[a] \in AskRow /\ [ask[a] EXCEPT !.pc = "again", !.auth = stored] \in AskRow
      BY <1>1, TabAsk, Zenon
    <3>2. ASSUME NEW a \in Asker PROVE ask'[a] \in AskRow
      <4>1. CASE a \notin awaits
        BY <2>4, <3>1, <4>1, Zenon
      <4>2. CASE a \in awaits /\ Keeps /\ Repeats(a)
        BY <2>4, <3>1, <4>2, Zenon
      <4>3. CASE a \in awaits /\ ~(Keeps /\ Repeats(a))
        BY <2>4, <3>1, <4>3, TabConstants, Zenon
      <4> QED
        BY <4>1, <4>2, <4>3
    <3>3. ask' = [a \in Asker |-> ask'[a]]
      BY <2>4, Zenon
    <3> QED
      BY <3>2, <3>3
  <2>6. tab' \in 0..NumGrants /\ flight' \in FlightRow
    BY <1>2, <2>4, TabConstants, Zenon
  <2> QED
    BY <1>1, <1>4, <2>4, <2>5, <2>6, TabTypesAre, Zenon
<1>8. ASSUME NEW a \in Asker, Request(a) \/ Settled(a) \/ RefusedAgain(a) PROVE BrowserTypeOK'
  <2>1. PICK q : /\ ask' = [ask EXCEPT ![a] = q] /\ q \in {Rest, [pc |-> "sent", began |-> tab, auth |-> tab]}
                 /\ tab' \in {tab, None} /\ UNCHANGED <<flight, leaving, wire>>
    BY <1>8 DEF Request, Settled, RefusedAgain
  <2>2. q \in AskRow
    <3>1. tab \in 0..NumGrants /\ Rest \in AskRow
      BY <1>1, TabConstants, Zenon
    <3>2. [pc |-> "sent", began |-> tab, auth |-> tab] \in AskRow
      BY <3>1, TabAsk, Zenon
    <3> QED
      BY <2>1, <3>1, <3>2, Zenon
  <2>3. ask' \in [Asker -> AskRow]
    BY <1>1, <2>1, <2>2
  <2> QED
    BY <1>1, <1>2, <1>4, <2>1, <2>3, TabTypesAre
<1>9. ASSUME NEW a \in Asker, Refused(a) PROVE BrowserTypeOK'
  <2>1. ask[a] \in AskRow
    BY <1>1
  <2>2. ask' \in {[ask EXCEPT ![a].pc = "again", ![a].auth = tab], [ask EXCEPT ![a].pc = "wait"], [ask EXCEPT ![a] = Rest]}
    BY <1>9 DEF Refused
  <2>3. /\ [ask EXCEPT ![a].pc = "again", ![a].auth = tab] = [ask EXCEPT ![a] = [ask[a] EXCEPT !.pc = "again", !.auth = tab]]
        /\ [ask EXCEPT ![a].pc = "wait"] = [ask EXCEPT ![a] = [ask[a] EXCEPT !.pc = "wait"]]
    BY <1>1, <2>1 DEF AskRow
  <2>4. PICK q : ask' = [ask EXCEPT ![a] = q]
                 /\ q \in {[ask[a] EXCEPT !.pc = "again", !.auth = tab], [ask[a] EXCEPT !.pc = "wait"], Rest}
    BY <2>2, <2>3
  <2>5. q \in AskRow
    <3>1. tab \in 0..NumGrants /\ Rest \in AskRow
      BY <1>1, TabConstants, Zenon
    <3>2. \A p \in AskRow : /\ [p EXCEPT !.pc = "wait"] \in AskRow
                           /\ [p EXCEPT !.pc = "again", !.auth = tab] \in AskRow
      BY <3>1, TabAsk, Zenon
    <3>3. /\ [ask[a] EXCEPT !.pc = "wait"] \in AskRow
          /\ [ask[a] EXCEPT !.pc = "again", !.auth = tab] \in AskRow
      BY <2>1, <3>2, Zenon
    <3> QED
      BY <2>4, <3>1, <3>3, Zenon
  <2>6. ask' \in [Asker -> AskRow]
    BY <1>1, <2>4, <2>5
  <2>7. /\ UNCHANGED <<tab, leaving>>
        /\ \/ UNCHANGED <<flight, wire>>
           \/ /\ tab # None /\ flight' = [sent |-> tab, ans |-> Waiting]
              /\ wire' = wire \cup {Send("flight", "refresh", tab, FALSE)}
    BY <1>9 DEF Refused
  <2>8. flight' \in FlightRow /\ wire' \subseteq CallRow
    <3>1. CASE UNCHANGED <<flight, wire>>
      BY <1>1, <3>1
    <3>2. CASE /\ tab # None /\ flight' = [sent |-> tab, ans |-> Waiting]
               /\ wire' = wire \cup {Send("flight", "refresh", tab, FALSE)}
      <4>1. [sent |-> tab, ans |-> Waiting] \in FlightRow
        BY <1>1, <1>2, TabFlight
      <4>2. Send("flight", "refresh", tab, FALSE) \in CallRow
        BY <1>1, <1>2, <3>2, TabCall
      <4> QED
        BY <1>1, <3>2, <4>1, <4>2
    <3> QED
      BY <2>7, <3>1, <3>2
  <2> QED
    BY <1>1, <1>4, <2>6, <2>7, <2>8, TabTypesAre
<1>10. CASE RefreshFails \/ LogOutFails \/ Reload
  <2>1. ask' \in [Asker -> AskRow]
    <3>1. CASE RefreshFails
      BY <1>1, <3>1, TabConstants DEF RefreshFails
    <3>2. CASE LogOutFails \/ Reload
      BY <1>1, <3>2, TabConstants DEF LogOutFails, Reload
    <3> QED
      BY <1>10, <3>1, <3>2
  <2>2. wire' \subseteq CallRow /\ flight' \in FlightRow /\ leaving' \in LeaveRow /\ UNCHANGED tab
    <3>1. CASE RefreshFails
      BY <1>1, <1>3, <3>1, TabConstants, Zenon DEF RefreshFails
    <3>2. CASE LogOutFails
      BY <1>1, <1>3, <3>2, TabConstants, Zenon DEF LogOutFails
    <3>3. CASE Reload
      BY <1>1, <1>3, <3>3, TabConstants, Zenon DEF Reload
    <3> QED
      BY <1>10, <3>1, <3>2, <3>3
  <2> QED
    BY <1>1, <1>4, <2>1, <2>2, TabTypesAre
<1> QED
  BY <1>4, <1>5, <1>6, <1>7, <1>8, <1>9, <1>10

(* What the server does, and a login: a row is inserted within the bound, or *)
(* rows change their status.                                                *)
LEMMA ServerStepTypes ==
  ASSUME BInv, TabTyped, LogIn \/ \E w \in wire : Refresh(w) \/ RevokeRefreshToken(w)
  PROVE  TabTyped'
<1>1. /\ tab \in 0..NumGrants /\ flight \in FlightRow /\ leaving \in LeaveRow
      /\ ask \in [Asker -> AskRow] /\ wire \subseteq CallRow /\ grant \in Seq(GrantRow)
  BY TabTypesAre DEF TabTyped
<1>2. /\ NumGrants \in Nat /\ None \in -1..NumGrants /\ Grant \subseteq 1..NumGrants
      /\ Len(grant) \in Nat /\ Len(grant) <= NumGrants /\ Grant \subseteq -1..NumGrants
      /\ \A t \in Grant : Login(t) \in 1..NumGrants
  BY TabNumbers DEF None
<1>3. ASSUME NEW T \in Seq(GrantRow), Len(T) = Len(grant), Len(grant) < NumGrants, NEW f \in 1..NumGrants
      PROVE  /\ Append(T, [login |-> f, st |-> "ACTIVE"]) \in Seq(GrantRow)
             /\ Len(Append(T, [login |-> f, st |-> "ACTIVE"])) = Len(grant) + 1
             /\ Len(grant) + 1 \in 1..NumGrants
  <2>1. PICK r \in GrantRow : r = [login |-> f, st |-> "ACTIVE"]
    BY DEF GrantRow
  <2>2. Append(T, r) \in Seq(GrantRow) /\ Len(Append(T, r)) = Len(T) + 1
    BY <2>1, AppendProperties
  <2> QED
    BY <1>2, <1>3, <2>1, <2>2
<1>4. ASSUME NEW w \in wire, NEW n \in -1..NumGrants, Reply(w, n), grant' \in Seq(GrantRow), Len(grant') <= NumGrants
      PROVE  TabTyped'
  <2>1. flight' \in FlightRow /\ leaving' \in LeaveRow
    <3>1. /\ [flight EXCEPT !.ans = n] \in FlightRow
          /\ [leaving EXCEPT !.ans = n] \in LeaveRow
      BY <1>1, TabFlight, TabLeave
    <3> QED
      BY <1>1, <1>4, <3>1, Zenon DEF Reply
  <2>2. wire' \subseteq CallRow /\ UNCHANGED <<tab, ask>>
    BY <1>1, <1>4 DEF Reply
  <2> QED
    BY <1>1, <1>4, <2>1, <2>2, TabTypesAre DEF TabTyped
<1>5. CASE LogIn
  <2>1. Len(grant) < NumGrants /\ grant' = Append(grant, [login |-> Len(grant) + 1, st |-> "ACTIVE"])
        /\ tab' = Len(grant) + 1 /\ UNCHANGED <<flight, leaving, ask, wire>>
    BY <1>5 DEF LogIn
  <2>2. Len(grant) + 1 \in 1..NumGrants
    BY <1>2, <2>1
  <2>3. grant' \in Seq(GrantRow) /\ Len(grant') <= NumGrants /\ tab' \in 0..NumGrants
    BY <1>1, <1>2, <1>3, <2>1, <2>2
  <2> QED
    BY <1>1, <2>1, <2>3, TabTypesAre DEF TabTyped
<1>6. ASSUME NEW w \in wire, Refresh(w) PROVE TabTyped'
  <2>1. w.t \in Grant
    BY DEF BInv, UnderWay
  <2>2. CASE /\ grant[w.t].st = "ACTIVE" /\ Len(grant) < NumGrants
             /\ grant' = Append(Turned({w.t}, "ROTATED"), [login |-> Login(w.t), st |-> "ACTIVE"])
             /\ Reply(w, Len(grant) + 1)
    <3>1. Turned({w.t}, "ROTATED") \in Seq(GrantRow) /\ Len(Turned({w.t}, "ROTATED")) = Len(grant)
      BY TurnedTyped
    <3>2. /\ grant' \in Seq(GrantRow) /\ Len(grant') = Len(grant) + 1 /\ Len(grant) + 1 \in 1..NumGrants
      BY <1>2, <1>3, <2>1, <2>2, <3>1
    <3>3. Len(grant) + 1 \in -1..NumGrants /\ Len(grant') <= NumGrants
      BY <1>2, <3>2
    <3> QED
      BY <1>4, <2>2, <3>2, <3>3
  <2>3. CASE grant' = Turned(Kin(w.t), "COMPROMISED") /\ Reply(w, None)
    BY <1>2, <1>4, <2>3, TurnedTyped
  <2> QED
    BY <1>6, <2>2, <2>3 DEF Refresh
<1>7. ASSUME NEW w \in wire, RevokeRefreshToken(w) PROVE TabTyped'
  <2>1. w.t \in Grant
    BY DEF BInv, UnderWay
  <2>2. CASE grant' = Turned({t \in Kin(w.t) : grant[t].st = "ACTIVE"}, "REVOKED") /\ Reply(w, w.t)
    BY <1>2, <1>4, <2>1, <2>2, TurnedTyped
  <2>3. CASE UNCHANGED grant /\ Reply(w, None)
    BY <1>1, <1>2, <1>4, <2>3
  <2> QED
    BY <1>7, <2>2, <2>3 DEF RevokeRefreshToken
<1> QED
  BY <1>5, <1>6, <1>7

(* Every step keeps the types.                                              *)
LEMMA TabTypesKept == BInv /\ TabTyped /\ [BrowserNext]_browserVars => TabTyped'
<1>1. ASSUME TabTyped, UNCHANGED browserVars PROVE TabTyped'
  BY <1>1 DEF TabTyped, BrowserTypeOK, browserVars
<1> QED
  BY <1>1, TabStepTypes, ServerStepTypes DEF BrowserNext

(* A fresh tab is typed.                                                    *)
LEMMA TabTypedFirst == BrowserInit => TabTyped
<1> SUFFICES ASSUME BrowserInit PROVE TabTyped
  OBVIOUS
<1>1. tab \in 0..NumGrants /\ grant = <<>> /\ wire = {}
  BY BrowserConstants DEF BrowserInit, None
<1>2. flight \in FlightRow /\ leaving \in LeaveRow /\ ask \in [Asker -> AskRow]
  BY TabConstants DEF BrowserInit
<1>3. grant \in Seq(GrantRow) /\ Len(grant) <= NumGrants
  BY <1>1, BrowserConstants
<1> QED
  BY <1>1, <1>2, <1>3, TabTypesAre DEF TabTyped

-----------------------------------------------------------------------------
(* The three protocols side by side, as the runs check them: while one runs *)
(* the others rest, and what rests keeps its invariant.                     *)
DevicesInv == PInv /\ OfflineInv /\ BInv /\ TabTyped

(* All three begin well.                                                    *)
LEMMA DevicesBegin == DevicesInit => DevicesInv
BY Beginning, OfflineInitInv, BrowserBegins, TabTypedFirst DEF DevicesInit, DevicesInv

(* A step of one is no step of the others.                                  *)
LEMMA DevicesStep == DevicesInv /\ [DevicesNext]_devicesVars => DevicesInv'
<1>1. ASSUME DevicesInv, DevicesNext \/ UNCHANGED devicesVars
      PROVE  [PrintNext]_printVars /\ [OfflineNext]_offlineVars /\ [BrowserNext]_browserVars
  BY <1>1, Zenon DEF DevicesNext, devicesVars
<1> QED
  BY <1>1, EveryStep, OfflineStep, BrowserStep, TabTypesKept DEF DevicesInv

(* and so always.                                                           *)
LEMMA DevicesAlways == DevicesSpec => []DevicesInv
  BY DevicesBegin, DevicesStep, PTL DEF DevicesSpec

(* The rows, processes and calls of print agents, handhelds and browser tabs *)
(* keep their types, with whatever jobs, scans, logins and faults there are. *)
THEOREM DevicesTypeCorrect == DevicesSpec => []DevicesTypeOK
<1>1. DevicesInv => DevicesTypeOK
  BY Consequences DEF DevicesInv, DevicesTypeOK, OfflineInv, TabTyped
<1> QED
  BY <1>1, DevicesAlways, PTL

(* Each protocol keeps its promises in the system of the three: no label is *)
(* printed twice blindly, no scan is applied twice nor, but for the two ways *)
(* KeptOnDevice names, lost once saved, and a tab neither loses its session *)
(* nor gets one back that it has left.                                      *)
THEOREM DevicesSafe ==
  DevicesSpec => []( /\ NoBlindReprint /\ PrintedWasSent /\ KeptOnDevice /\ AppliedOnce
                     /\ SessionSurvives /\ LogoutIsFinal)
<1>1. BInv => SessionSurvives /\ LogoutIsFinal
  BY DEF BInv, Holds, Unusable, SessionSurvives, LogoutIsFinal
<1>2. DevicesInv => /\ NoBlindReprint /\ PrintedWasSent /\ KeptOnDevice /\ AppliedOnce
                    /\ SessionSurvives /\ LogoutIsFinal
  BY <1>1, Consequences DEF DevicesInv, OfflineInv, QueueInv, Stored, Stores, KeptOnDevice, OnceInv
<1> QED
  BY <1>2, DevicesAlways, PTL
=============================================================================
