-------------------------- MODULE JobSystemProofs ---------------------------
(***************************************************************************)
(* Theorems about JobSystem for any sets of jobs, nodes and exit codes and *)
(* any number of faults.  The lemmas about single job records repeat those *)
(* of JobRegistryProofs, which is about another specification, for the     *)
(* operations that are used here.                                          *)
(***************************************************************************)
EXTENDS JobSystem, TLAPS, FiniteSetTheorems

-----------------------------------------------------------------------------
(* Every operation on a record yields a record.                            *)

\* A newly created job is a job.
LEMMA CreatedType ==
    ASSUME NEW r \in Nat PROVE Created(r) \in Job /\ NoJob \in Job
  BY JobAssumption DEF Created, NoJob, Job, Statuses, StartTimes, NoExec

\* Claim keeps the record well formed, counts the attempt and names the
\* execution.
LEMMA ClaimedFacts ==
    ASSUME NEW j \in Job, NEW e \in Nat
    PROVE  LET u == Claimed(j, e) IN
           /\ u \in Job /\ u.status = "running" /\ u.exec = e /\ u.started = "recent"
           /\ u.attempts = j.attempts + 1 /\ u.maxRetries = j.maxRetries
           /\ u.node = j.node /\ u.completed = j.completed /\ u.result = j.result
  <1>1. j.attempts + 1 \in Nat
    BY DEF Job
  <1>2. Claimed(j, e) \in Job
    BY <1>1 DEF Claimed, Job, Statuses, StartTimes
  <1> QED BY <1>2 DEF Claimed, Job

\* u is j, taken back for another execution.
TakenBack(j, u) ==
    /\ u.status = "pending" /\ u.node = NoNode /\ u.exec = NoExec /\ u.started = "nil"
    /\ u.completed = j.completed /\ u.result = j.result

\* u is j, ended with the given status and result.
Ended(j, u, status, code) ==
    /\ u.status = status /\ u.completed /\ u.result = code
    /\ u.node = j.node /\ u.exec = j.exec /\ u.started = j.started

\* Requeueing and finishing keep the record well formed and its counters.
LEMMA EndedFacts ==
    ASSUME NEW j \in Job, NEW s \in Terminal, NEW code \in ExitCodes
    PROVE  /\ Requeued(j) \in Job /\ TakenBack(j, Requeued(j))
           /\ Requeued(j).attempts = j.attempts /\ Requeued(j).maxRetries = j.maxRetries
           /\ Finished(j, s, code) \in Job /\ Ended(j, Finished(j, s, code), s, code)
           /\ Finished(j, s, code).attempts = j.attempts
           /\ Finished(j, s, code).maxRetries = j.maxRetries
  <1>1. Requeued(j) \in Job /\ Finished(j, s, code) \in Job
    BY DEF Requeued, Finished, Job, Statuses, StartTimes, Terminal, NoExec
  <1> QED BY <1>1 DEF Requeued, Finished, Job, TakenBack, Ended

\* A reported job is requeued within its budget or has ended with the
\* reported exit code.
LEMMA ReportedFacts ==
    ASSUME NEW j \in Job, NEW code \in ExitCodes
    PROVE  LET u == Reported(j, code) IN
           /\ u \in Job /\ u.attempts = j.attempts /\ u.maxRetries = j.maxRetries
           /\ \/ TakenBack(j, u) /\ MayRetry(j)
              \/ Ended(j, u, "succeeded", code)
              \/ Ended(j, u, "failed", code) /\ ~MayRetry(j)
  BY EndedFacts DEF Reported, Terminal

\* A recovered job is requeued within its budget or has failed with -1.
LEMMA RecoveredFacts ==
    ASSUME NEW j \in Job
    PROVE  LET u == Recovered(j) IN
           /\ u \in Job /\ u.attempts = j.attempts /\ u.maxRetries = j.maxRetries
           /\ \/ TakenBack(j, u) /\ MayRetry(j)
              \/ Ended(j, u, "failed", -1) /\ ~MayRetry(j)
  BY EndedFacts, JobAssumption DEF Recovered, Terminal

\* The clock changes nothing but the start time.
LEMMA OverdueFacts ==
    ASSUME NEW j \in Job
    PROVE  LET u == [j EXCEPT !.started = "overdue"] IN
           /\ u \in Job /\ u.started = "overdue"
           /\ u.status = j.status /\ u.node = j.node /\ u.exec = j.exec
           /\ u.attempts = j.attempts /\ u.maxRetries = j.maxRetries
           /\ u.completed = j.completed /\ u.result = j.result
  BY DEF Job, StartTimes

\* Update keeps the record well formed, the counters and the execution; it
\* never moves a job back to a waiting status, and it starts and ends only a
\* waiting and a running job.
LEMMA UpdatedFacts ==
    ASSUME NEW j \in Job, NEW p \in UpdateParams, j.status # "none"
    PROVE  LET u == Updated(j, p) IN
           /\ u \in Job
           /\ u.attempts = j.attempts /\ u.maxRetries = j.maxRetries
           /\ u.exec = j.exec /\ u.status # "none"
           /\ u.status \in {"pending", "assigned"} => j.status \in {"pending", "assigned"}
           /\ u.status = "running" => j.status \in {"assigned", "running"}
           /\ j.status = "running" => u.node = j.node
  <1>1. p.status \in (Statuses \ {"none"}) \cup {Absent} /\ p.node \in Nodes \cup {NoNode, Absent}
        /\ p.started \in StartTimes /\ p.completed \in BOOLEAN
        /\ p.result \in ExitCodes \cup {NoResult}
    BY DEF UpdateParams
  <1>2. j.status \in Statuses /\ j.node \in Nodes \cup {NoNode} /\ j.exec \in Nat
        /\ j.started \in StartTimes /\ j.completed \in BOOLEAN /\ j.attempts \in Nat
        /\ j.maxRetries \in Nat /\ j.result \in ExitCodes \cup {NoResult}
    BY DEF Job
  <1>3. CASE StatusRejected(j, p)
    BY <1>3 DEF Updated
  <1>4. CASE ~StatusRejected(j, p)
    <2> DEFINE s == NextStatus(j, p)
    <2>1. s \in Statuses \ {"none"}
      BY <1>1, <1>2 DEF NextStatus
    <2>2. /\ s \in {"pending", "assigned"} => j.status \in {"pending", "assigned"}
          /\ s = "running" => j.status \in {"assigned", "running"}
      BY <1>4, <1>2 DEF StatusRejected, NextStatus, isValidTransition, Statuses
    <2>4. CASE FieldsRejected(j, p)
      <3>1. Updated(j, p) = [j EXCEPT !.status = s]
        BY <1>4, <2>4 DEF Updated
      <3> QED BY <3>1, <2>1, <2>2 DEF Job
    <2>5. CASE ~FieldsRejected(j, p)
      <3>1. Updated(j, p) = [j EXCEPT
                   !.status = s,
                   !.node = IF p.node = Absent THEN @ ELSE p.node,
                   !.started = IF p.started = "nil" THEN @ ELSE p.started,
                   !.completed = @ \/ p.completed,
                   !.result = IF p.result = NoResult THEN @ ELSE p.result]
        BY <1>4, <2>5 DEF Updated
      <3>2. (j.completed \/ p.completed) \in BOOLEAN
        BY <1>1, <1>2
      <3>3. Updated(j, p) \in Job
        BY <3>1, <3>2, <1>1, <2>1, JobAssumption DEF Job
      <3>4. j.status = "running" => p.node = Absent
        BY <2>5 DEF FieldsRejected, SetsExecutionFields
      <3> QED BY <3>1, <3>3, <3>4, <2>1, <2>2 DEF Job
    <2> QED BY <2>4, <2>5
  <1> QED BY <1>3, <1>4

\* The scheduler's assignment sets the status and the node of a waiting job and
\* nothing else; every other job refuses it.
LEMMA AssignedFacts ==
    ASSUME NEW r \in Job, NEW n \in Nodes
    PROVE  LET u == Updated(r, AssignTo(n)) IN
           /\ u \in Job
           /\ r.status \notin {"pending", "assigned"} =>
                 u = r /\ ~UpdateAccepted(r, AssignTo(n))
           /\ r.status \in {"pending", "assigned"} =>
                 /\ UpdateAccepted(r, AssignTo(n))
                 /\ u.status = "assigned" /\ u.node = n
           /\ u.exec = r.exec /\ u.started = r.started /\ u.completed = r.completed
           /\ u.attempts = r.attempts /\ u.maxRetries = r.maxRetries
           /\ u.result = r.result
  <1> DEFINE p == AssignTo(n)
  <1>1. /\ p.status = "assigned" /\ p.node = n /\ p.started = "nil"
        /\ p.completed = FALSE /\ p.result = NoResult
    BY DEF AssignTo
  <1>2. "assigned" # Absent /\ n # Absent
    BY JobAssumption DEF Statuses
  <1>3. CASE r.status \notin {"pending", "assigned"}
    <2>1. StatusRejected(r, p)
      BY <1>1, <1>2, <1>3 DEF StatusRejected, isValidTransition
    <2> QED BY <1>3, <2>1 DEF Updated, UpdateAccepted
  <1>4. CASE r.status \in {"pending", "assigned"}
    <2>3. ~StatusRejected(r, p)
      BY <1>1, <1>4 DEF StatusRejected, isValidTransition
    <2>4. NextStatus(r, p) = "assigned"
      BY <1>1, <1>2 DEF NextStatus
    <2>5. ~FieldsRejected(r, p)
      BY <1>4, <2>4 DEF FieldsRejected, Terminal
    <2>6. (r.completed \/ FALSE) = r.completed
      BY DEF Job
    <2>7. Updated(r, p) = [r EXCEPT !.status = "assigned", !.node = n, !.started = r.started,
                                    !.completed = (r.completed \/ FALSE), !.result = r.result]
      BY <1>1, <1>2, <2>3, <2>4, <2>5 DEF Updated
    <2>8. Updated(r, p) \in Job
      BY <2>6, <2>7 DEF Job, Statuses
    <2>9. UpdateAccepted(r, p)
      BY <2>3, <2>5 DEF UpdateAccepted
    <2> HIDE DEF p
    <2>10. QED
      BY <1>4, <2>6, <2>7, <2>8, <2>9 DEF Job, p
  <1> QED BY <1>3, <1>4

-----------------------------------------------------------------------------
(* The retry budget.                                                       *)

\* Every operation keeps a job within its budget: Claim uses one execution up,
\* and a job is only requeued while its budget lasts.
LEMMA BudgetKept ==
    ASSUME NEW r \in Job, NEW k \in Nat, WithinBudget(r, k)
    PROVE  /\ r.status = "none" => \A m \in Nat : WithinBudget(Created(m), k)
           /\ \A n \in Nodes : WithinBudget(Updated(r, AssignTo(n)), k)
           /\ r.status # "none" => \A p \in UpdateParams : WithinBudget(Updated(r, p), k)
           /\ r.status = "assigned" => WithinBudget(Claimed(r, k + 1), k + 1)
           /\ \A code \in ExitCodes : WithinBudget(Reported(r, code), k)
           /\ WithinBudget(Recovered(r), k)
           /\ WithinBudget([r EXCEPT !.started = "overdue"], k)
  <1>0. r.attempts \in Nat /\ r.maxRetries \in Nat
    BY DEF Job
  <1>1. ASSUME r.status = "none", NEW m \in Nat PROVE WithinBudget(Created(m), k)
    BY <1>1 DEF WithinBudget, Created, NoJob
  <1>2. ASSUME NEW n \in Nodes PROVE WithinBudget(Updated(r, AssignTo(n)), k)
    BY <1>2, AssignedFacts DEF WithinBudget
  <1>7. ASSUME r.status # "none", NEW p \in UpdateParams PROVE WithinBudget(Updated(r, p), k)
    BY <1>7, UpdatedFacts DEF WithinBudget
  <1>3. ASSUME r.status = "assigned" PROVE WithinBudget(Claimed(r, k + 1), k + 1)
    <2> DEFINE e == k + 1
               u == Claimed(r, e)
    <2>1. e \in Nat
      OBVIOUS
    <2> HIDE DEF e
    <2>2. u.status = "running" /\ u.attempts = r.attempts + 1 /\ u.maxRetries = r.maxRetries
      BY <2>1, ClaimedFacts
    <2> HIDE DEF u
    <2>3. WithinBudget(u, k + 1)
      BY <1>0, <1>3, <2>2 DEF WithinBudget
    <2> QED BY <2>3 DEF u, e
  <1>4. ASSUME NEW code \in ExitCodes PROVE WithinBudget(Reported(r, code), k)
    BY <1>0, ReportedFacts DEF WithinBudget, MayRetry, TakenBack, Ended
  <1>5. WithinBudget(Recovered(r), k)
    BY <1>0, RecoveredFacts DEF WithinBudget, MayRetry, TakenBack, Ended
  <1>6. WithinBudget([r EXCEPT !.started = "overdue"], k)
    BY OverdueFacts DEF WithinBudget
  <1> QED BY <1>1, <1>2, <1>3, <1>4, <1>5, <1>6, <1>7

-----------------------------------------------------------------------------
(* The scheduler's choices.                                                *)

\* A set of numbers that is not empty has a least element.
LEMMA MinFacts ==
    ASSUME NEW S \in SUBSET Nat, S # {}
    PROVE  Min(S) \in S /\ \A y \in S : Min(S) <= y
  <1> DEFINE R == OpToRel(<, Nat)
  <1>1. PICK x \in S : \A y \in S : ~(<<y, x>> \in R)
    BY WFMin, NatLessThanWellFounded
  <1>2. R = {ss \in Nat \X Nat : ss[1] < ss[2]}
    BY DEF OpToRel
  <1> HIDE DEF R
  <1>3. ASSUME NEW y \in S PROVE x <= y
    <2>1. <<y, x>> \in Nat \X Nat /\ <<y, x>>[1] = y /\ <<y, x>>[2] = x
      OBVIOUS
    <2> QED BY <1>1, <1>2, <2>1
  <1> QED BY <1>3 DEF Min

\* Round robin picks one of the eligible nodes, and not the last one used
\* when there is another.
LEMMA SelectFacts ==
    ASSUME NEW S \in SUBSET Nat, NEW last \in Nat, S # {}
    PROVE  /\ Select(S, last) \in S
           /\ Select(S, last) = last => S = {last}
  <1> DEFINE later == {n \in S : n > last}
  <1>1. CASE later = {}
    <2>1. Select(S, last) = Min(S)
      BY <1>1 DEF Select
    <2>2. Min(S) \in S /\ \A y \in S : Min(S) <= y
      BY MinFacts
    <2>3. \A y \in S : y <= last
      BY <1>1
    <2>4. ASSUME Min(S) = last, NEW y \in S PROVE y = last
      <3>1. y \in Nat /\ last <= y /\ y <= last
        BY <2>2, <2>3, <2>4
      <3> QED BY <3>1
    <2> QED BY <2>1, <2>2, <2>4
  <1>2. CASE later # {}
    <2>1. Select(S, last) = Min(later)
      BY <1>2 DEF Select
    <2>2. Min(later) \in later
      BY <1>2, MinFacts
    <2> QED BY <2>1, <2>2
  <1> QED BY <1>1, <1>2

-----------------------------------------------------------------------------
(* The inductive invariant.                                                *)

\* Every job keeps to its retry budget, as in the registry.
Budgets == \A j \in Jobs : WithinBudget(jobs[j], issued[j])

\* The agent holds an execution: it runs it or has its outcome to report.
Busy(n) == agents[n].pc \in {"executing", "waiting", "reporting"}

\* Agents work, and have worked, only under ExecutionIDs that were generated.
WorkIsIssued ==
    /\ \A n \in Nodes : Busy(n) =>
          agents[n].job \in Jobs /\ agents[n].exec \in 1..issued[agents[n].job]
    /\ \A x \in exits : x[2] \in 1..issued[x[1]]

\* What is reported, or waits to be reported, is the end of a real command.
ReportsAreExits ==
    /\ \A n \in Nodes : agents[n].pc \in {"waiting", "reporting"} =>
          <<agents[n].job, agents[n].exec, n, agents[n].code>> \in exits
    /\ \A r \in reqs : r.kind = "result" => <<r.job, r.exec, r.node, r.code>> \in exits

WorkInv == WorkIsIssued /\ ReportsAreExits /\ OneRunPerExecution

\* A job that waits for a claim has no execution: its last one was revoked.  So
\* a PATCH that starts it gives it no execution that an agent works under.
WaitingHasNoExec ==
    \A j \in Jobs : jobs[j].status \in {"none", "pending", "assigned"} => jobs[j].exec = NoExec

JobSystemInv ==
    /\ TypeOK /\ Budgets /\ WorkInv
    /\ OfflineSinceMatches /\ WaitingHasNoExec
    /\ HolderIsAssigned /\ ResultIntegrity

-----------------------------------------------------------------------------
(* Type correctness.                                                       *)

\* The states in which agents start are agent states.
LEMMA AgentTypes ==
    /\ IdleAgent \in Agent /\ DownAgent \in Agent
    /\ IdleAgent.pc = "idle" /\ DownAgent.pc = "down"
    /\ \A j \in Jobs : [IdleAgent EXCEPT !.pc = "claiming", !.job = j] \in Agent
    /\ \A j \in Jobs, e \in Nat :
          [IdleAgent EXCEPT !.pc = "executing", !.job = j, !.exec = e] \in Agent
  BY JobAssumption DEF IdleAgent, DownAgent, Agent

\* Orphaned requests are requests.
LEMMA OrphanedType ==
    ASSUME reqs \subseteq Request, NEW n \in Nodes
    PROVE  /\ Orphaned(n) \subseteq Request
           /\ \A q \in Orphaned(n) : \E r \in reqs :
                 /\ q.kind = r.kind /\ q.job = r.job /\ q.exec = r.exec
                 /\ q.node = r.node /\ q.code = r.code
  <1> SUFFICES ASSUME NEW q \in Orphaned(n)
               PROVE  /\ q \in Request
                      /\ \E r \in reqs :
                            /\ q.kind = r.kind /\ q.job = r.job /\ q.exec = r.exec
                            /\ q.node = r.node /\ q.code = r.code
    OBVIOUS
  <1>1. PICK r \in reqs : q = r \/ q = [r EXCEPT !.live = FALSE]
    BY DEF Orphaned
  <1>2. r \in Request
    OBVIOUS
  <1> QED BY <1>1, <1>2 DEF Request

\* A recovery sweep yields jobs.
LEMMA RecoverJobsType ==
    ASSUME jobs \in [Jobs -> Job], NEW S, RecoverJobs(S)
    PROVE  /\ jobs' \in [Jobs -> Job]
           /\ \A j \in Jobs : jobs'[j] = IF j \in S THEN Recovered(jobs[j]) ELSE jobs[j]
  BY RecoveredFacts DEF RecoverJobs

\* The scheduler's assignment: the first job of its snapshot goes to an eligible
\* node unless Update refuses it, or nothing is eligible.
LEMMA AssignFacts ==
    ASSUME TypeOK, SchedAssign
    PROVE  \E j \in sched.pending :
             LET rest == [sched EXCEPT !.pending = @ \ {j}]
                 n == Select(Eligible, sched.last) IN
             \/ Eligible = {} /\ sched' = rest /\ UNCHANGED jobs
             \/ /\ Eligible # {} /\ n \in Eligible /\ n \in Nodes
                /\ jobs' = [jobs EXCEPT ![j] = Updated(jobs[j], AssignTo(n))]
                /\ sched' = IF jobs[j].status \in {"pending", "assigned"}
                            THEN [rest EXCEPT !.last = n] ELSE rest
  <1> DEFINE j == Min(sched.pending)
             rest == [sched EXCEPT !.pending = @ \ {j}]
             n == Select(Eligible, sched.last)
  <1>0. /\ sched.pc = "assign" /\ sched.pending # {} /\ sched.pending \subseteq Jobs
        /\ sched.last \in Nodes \cup {0} /\ sched.online \subseteq Nodes
        /\ Nodes \subseteq Nat /\ Jobs \subseteq Nat
    BY JobSystemAssumption DEF SchedAssign, TypeOK, SchedulerState
  <1>1. j \in sched.pending
    BY <1>0, MinFacts
  <1>2. j \in Jobs /\ jobs[j] \in Job
    BY <1>0, <1>1 DEF TypeOK
  <1>3. CASE Eligible = {}
    <2>1. sched' = rest /\ UNCHANGED jobs
      BY <1>3 DEF SchedAssign
    <2> QED BY <1>1, <1>3, <2>1
  <1>4. CASE Eligible # {}
    <2>1. n \in Eligible /\ n \in Nodes
      <3>1. Eligible \subseteq Nodes
        BY <1>0 DEF Eligible
      <3>2. Eligible \in SUBSET Nat
        BY <1>0, <3>1
      <3>3. sched.last \in Nat
        <4>1. (Nodes \subseteq Nat) /\ (sched.last \in Nodes \cup {0})
          BY <1>0
        <4>2. CASE sched.last = 0
          BY <4>2
        <4>3. CASE sched.last \in Nodes
          BY <4>1, <4>3
        <4> QED BY <4>1, <4>2, <4>3
      <3> QED BY <1>4, <3>1, <3>2, <3>3, SelectFacts
    <2>2. /\ AssignTo(n).node = n
          /\ UpdateAccepted(jobs[j], AssignTo(n)) <=> jobs[j].status \in {"pending", "assigned"}
      BY <1>2, <2>1, AssignedFacts DEF AssignTo
    <2>3. /\ jobs' = [jobs EXCEPT ![j] = Updated(jobs[j], AssignTo(n))]
          /\ sched' = IF UpdateAccepted(jobs[j], AssignTo(n))
                      THEN [rest EXCEPT !.last = AssignTo(n).node] ELSE rest
      BY <1>4 DEF SchedAssign
    <2>4. sched' = IF jobs[j].status \in {"pending", "assigned"}
                   THEN [rest EXCEPT !.last = n] ELSE rest
      BY <2>2, <2>3
    <2> QED BY <1>1, <1>4, <2>1, <2>3, <2>4
  <1> QED BY <1>3, <1>4

\* A step of the scheduler keeps the types.
LEMMA SchedulerTypes ==
    ASSUME TypeOK, Scheduler PROVE TypeOK'
  <1>0. /\ jobs \in [Jobs -> Job] /\ sched \in SchedulerState /\ sched.online \subseteq Nodes
        /\ sched.expired \subseteq Nodes /\ sched.pending \subseteq Jobs
        /\ sched.last \in Nodes \cup {0}
    BY DEF TypeOK, SchedulerState
  <1> SUFFICES /\ UNCHANGED <<issued, nodes, agents, reqs, faults, exits, patched>>
               /\ jobs' \in [Jobs -> Job] /\ sched' \in SchedulerState
    BY DEF TypeOK, NR!NodeTypeOK
  <1>1. CASE SchedTimeouts
    BY <1>0, <1>1, RecoverJobsType DEF SchedTimeouts, SchedulerState
  <1>2. CASE SchedListNodes
    BY <1>0, <1>2 DEF SchedListNodes, SchedulerState
  <1>3. ASSUME NEW n \in Nodes, SchedRecoverNode(n)
        PROVE  /\ UNCHANGED <<issued, nodes, agents, reqs, faults, exits, patched>>
               /\ jobs' \in [Jobs -> Job] /\ sched' \in SchedulerState
    <2>1. jobs' \in [Jobs -> Job]
      BY <1>0, <1>3, RecoverJobsType DEF SchedRecoverNode
    <2>2. sched' \in SchedulerState
      BY <1>0, <1>3 DEF SchedRecoverNode, SchedulerState
    <2> QED BY <1>3, <2>1, <2>2 DEF SchedRecoverNode
  <1>4. CASE SchedRecoverDone
    BY <1>0, <1>4 DEF SchedRecoverDone, SchedulerState
  <1>5. CASE SchedListJobs
    BY <1>0, <1>5 DEF SchedListJobs, SchedulerState
  <1>6. CASE SchedAssign
    <2> DEFINE n == Select(Eligible, sched.last)
    <2>1. PICK j \in sched.pending :
             /\ \/ UNCHANGED jobs
                \/ n \in Nodes /\ jobs' = [jobs EXCEPT ![j] = Updated(jobs[j], AssignTo(n))]
             /\ \/ sched' = [sched EXCEPT !.pending = @ \ {j}]
                \/ /\ n \in Nodes
                   /\ sched' = [[sched EXCEPT !.pending = @ \ {j}] EXCEPT !.last = n]
      BY <1>6, AssignFacts
    <2> HIDE DEF n
    <2>2. j \in Jobs /\ jobs[j] \in Job
      BY <1>0
    <2>3. n \in Nodes => Updated(jobs[j], AssignTo(n)) \in Job
      BY <2>1, <2>2, AssignedFacts
    <2>4. jobs' \in [Jobs -> Job]
      BY <1>0, <2>1, <2>2, <2>3
    <2>5. sched' \in SchedulerState
      BY <1>0, <2>1 DEF SchedulerState
    <2> QED BY <1>6, <2>4, <2>5 DEF SchedAssign
  <1>7. CASE SchedDone
    BY <1>0, <1>7 DEF SchedDone, SchedulerState
  <1> QED BY <1>1, <1>2, <1>3, <1>4, <1>5, <1>6, <1>7 DEF Scheduler

\* A step of an agent keeps the types; what it reports is what it worked on.
LEMMA AgentTypesKept ==
    ASSUME TypeOK, WorkIsIssued, NEW n \in Nodes,
           AgentStart(n) \/ AgentStep(n) \/ Crash(n) \/ RequestFails(n)
    PROVE  TypeOK'
  <1>0. /\ agents \in [Nodes -> Agent] /\ agents[n] \in Agent /\ reqs \subseteq Request
        /\ faults \in 0..MaxFaults /\ MaxFaults \in Nat /\ AgentCodes \subseteq ExitCodes
        /\ exits \subseteq Jobs \X Nat \X Nodes \X ExitCodes
        /\ nodes \in [Nodes -> NR!Node] /\ issued \in [Jobs -> Nat]
    BY JobSystemAssumption DEF TypeOK, NR!NodeTypeOK
  <1>1. CASE AgentStart(n)
    BY <1>0, <1>1, AgentTypes
       DEF AgentStart, TypeOK, NR!NodeTypeOK, NR!Register, NR!Fresh, NR!Node
  <1>2. ASSUME NEW j \in Jobs, Poll(n, j) PROVE TypeOK'
    <2>1. ClaimRequest(n, j) \in Request
      BY JobAssumption DEF ClaimRequest, Request
    <2> QED BY <1>0, <1>2, <2>1, AgentTypes DEF Poll, TypeOK, NR!NodeTypeOK
  <1>3. ASSUME NEW code \in AgentCodes, ProcessExits(n, code) PROVE TypeOK'
    <2>1. agents[n].job \in Jobs /\ agents[n].exec \in Nat /\ code \in ExitCodes
      BY <1>0, <1>3 DEF ProcessExits, WorkIsIssued, Busy
    <2>2. agents' \in [Nodes -> Agent]
      BY <1>0, <1>3, <2>1 DEF ProcessExits, Agent
    <2>3. exits' \subseteq Jobs \X Nat \X Nodes \X ExitCodes
      BY <1>0, <1>3, <2>1 DEF ProcessExits
    <2> QED BY <1>3, <2>2, <2>3 DEF ProcessExits, TypeOK, NR!NodeTypeOK
  <1>4. CASE SendResult(n)
    <2>1. agents[n].job \in Jobs /\ agents[n].exec \in Nat /\ agents[n].code \in ExitCodes
      BY <1>0, <1>4 DEF SendResult, WorkIsIssued, Busy, Agent
    <2>2. ResultRequest(n) \in Request
      BY <2>1 DEF ResultRequest, Request
    <2>3. agents[n].tries + 1 \in Nat
      BY <1>0 DEF Agent
    <2>4. agents' \in [Nodes -> Agent]
      BY <1>0, <1>4, <2>3 DEF SendResult, Agent
    <2> QED BY <1>0, <1>4, <2>2, <2>4 DEF SendResult, TypeOK, NR!NodeTypeOK
  <1>5. CASE GiveUpReporting(n)
    BY <1>0, <1>5, AgentTypes DEF GiveUpReporting, TypeOK, NR!NodeTypeOK
  <1>6. CASE Crash(n)
    <2>1. faults' \in 0..MaxFaults
      BY <1>0, <1>6 DEF Crash
    <2>2. reqs' \subseteq Request
      BY <1>0, <1>6, OrphanedType DEF Crash
    <2> QED BY <1>0, <1>6, <2>1, <2>2, AgentTypes DEF Crash, TypeOK, NR!NodeTypeOK
  <1>7. CASE RequestFails(n)
    <2>1. faults' \in 0..MaxFaults
      BY <1>0, <1>7 DEF RequestFails
    <2>2. reqs' \subseteq Request
      BY <1>0, <1>7, OrphanedType DEF RequestFails
    <2>3. [agents[n] EXCEPT !.pc = "waiting"] \in Agent
      BY <1>0 DEF Agent
    <2>4. agents' \in [Nodes -> Agent]
      BY <1>0, <1>7, <2>3, AgentTypes DEF RequestFails
    <2> QED BY <1>7, <2>1, <2>2, <2>4 DEF RequestFails, TypeOK, NR!NodeTypeOK
  <1> QED BY <1>1, <1>2, <1>3, <1>4, <1>5, <1>6, <1>7 DEF AgentStep

\* A handler keeps the types.
LEMMA HandlerTypes ==
    ASSUME TypeOK, NEW r \in reqs, Handlers(r) \/ RequestLost(r) PROVE TypeOK'
  <1>0. /\ r \in Request /\ r.node \in Nodes /\ r.job \in Jobs /\ r.code \in ExitCodes
        /\ agents \in [Nodes -> Agent] /\ jobs \in [Jobs -> Job] /\ issued \in [Jobs -> Nat]
        /\ jobs[r.job] \in Job /\ issued[r.job] \in Nat /\ reqs \subseteq Request
        /\ IdleAgent \in Agent
    BY AgentTypes DEF TypeOK, Request
  <1>1. CASE ClaimHandlerCheck(r)
    <2>1. [r EXCEPT !.checked = TRUE] \in Request
      BY <1>0 DEF Request
    <2>2. reqs' \subseteq Request /\ agents' \in [Nodes -> Agent]
      BY <1>0, <1>1, <2>1 DEF ClaimHandlerCheck, Answer
    <2> QED BY <1>1, <2>2 DEF ClaimHandlerCheck, TypeOK, NR!NodeTypeOK
  <1>2. CASE ClaimHandlerApply(r)
    <2> DEFINE e == issued[r.job] + 1
    <2>1. e \in Nat
      BY <1>0
    <2>2. reqs' \subseteq Request
      BY <1>0, <1>2 DEF ClaimHandlerApply
    <2>3. CASE ~ClaimAllowed(jobs[r.job], r.node)
      BY <1>0, <1>2, <2>2, <2>3 DEF ClaimHandlerApply, Answer, TypeOK, NR!NodeTypeOK
    <2>4. CASE ClaimAllowed(jobs[r.job], r.node)
      <3>1. /\ jobs' = [jobs EXCEPT ![r.job] = Claimed(jobs[r.job], e)]
            /\ issued' = [issued EXCEPT ![r.job] = e]
            /\ Answer(r, [IdleAgent EXCEPT !.pc = "executing", !.job = r.job, !.exec = e])
            /\ UNCHANGED <<nodes, sched, faults, exits, patched>>
        BY <1>2, <2>4 DEF ClaimHandlerApply
      <3> HIDE DEF e
      <3>2. Claimed(jobs[r.job], e) \in Job
        BY <1>0, <2>1, ClaimedFacts
      <3>3. agents' \in [Nodes -> Agent]
        BY <1>0, <2>1, <3>1, AgentTypes DEF Answer
      <3>4. jobs' \in [Jobs -> Job] /\ issued' \in [Jobs -> Nat]
        BY <1>0, <2>1, <3>1, <3>2
      <3> QED BY <2>2, <3>1, <3>3, <3>4 DEF TypeOK, NR!NodeTypeOK
    <2> QED BY <2>3, <2>4
  <1>3. CASE ResultHandler(r)
    <2>1. Reported(jobs[r.job], r.code) \in Job
      BY <1>0, ReportedFacts
    <2>2. jobs' \in [Jobs -> Job] /\ agents' \in [Nodes -> Agent] /\ reqs' \subseteq Request
      BY <1>0, <1>3, <2>1 DEF ResultHandler, Answer
    <2> QED BY <1>3, <2>2 DEF ResultHandler, TypeOK, NR!NodeTypeOK
  <1>4. CASE RequestLost(r)
    BY <1>0, <1>4 DEF RequestLost, TypeOK, NR!NodeTypeOK
  <1> QED BY <1>1, <1>2, <1>3, <1>4 DEF Handlers

\* What a step may do to the node registry.
NodeStep ==
    \/ UNCHANGED nodes
    \/ \E n \in Nodes : NR!Register(n) \/ NR!Heartbeat(n) \/ NR!HeartbeatStale(n)
                        \/ NR!GraceExpires(n)
    \/ NR!MarkOfflineNodes

\* The node registry keeps its types and OfflineSince in step with the
\* status, in every order of registrations, heartbeats and sweeps.
LEMMA NodeStepKeeps ==
    ASSUME NR!NodeTypeOK, OfflineSinceMatches, NodeStep
    PROVE  NR!NodeTypeOK' /\ OfflineSinceMatches'
  <1> USE DEF NR!NodeTypeOK, OfflineSinceMatches, NR!OfflineSinceMatches, NR!Node
  <1>1. ASSUME NEW n \in Nodes, NR!Register(n) \/ NR!Heartbeat(n)
        PROVE  NR!NodeTypeOK' /\ OfflineSinceMatches'
    <2>1. nodes' = [nodes EXCEPT ![n] = NR!Fresh]
      BY <1>1 DEF NR!Register, NR!Heartbeat
    <2> QED BY <2>1 DEF NR!Fresh
  <1>2. ASSUME NEW n \in Nodes, NR!HeartbeatStale(n)
        PROVE  NR!NodeTypeOK' /\ OfflineSinceMatches'
    BY <1>2 DEF NR!HeartbeatStale
  <1>3. ASSUME NEW n \in Nodes, NR!GraceExpires(n)
        PROVE  NR!NodeTypeOK' /\ OfflineSinceMatches'
    BY <1>3 DEF NR!GraceExpires
  <1>4. CASE NR!MarkOfflineNodes
    BY <1>4, ZenonT(40) DEF NR!MarkOfflineNodes, NR!GoesOffline, NR!Online
  <1>5. CASE UNCHANGED nodes
    BY <1>5
  <1> QED BY <1>1, <1>2, <1>3, <1>4, <1>5 DEF NodeStep

\* Every step treats the node registry in one of these ways.
LEMMA NextIsNodeStep == [Next]_vars => NodeStep
  <1> SUFFICES ASSUME [Next]_vars PROVE NodeStep
    OBVIOUS
  <1> USE DEF NodeStep
  <1>1. ASSUME NEW j \in Jobs, NEW r \in RetryLimits, CreateJob(j, r) PROVE UNCHANGED nodes
    BY <1>1 DEF CreateJob
  <1>12. ASSUME NEW j \in Jobs, NEW p \in Patches, PatchJob(j, p) PROVE UNCHANGED nodes
    BY <1>12 DEF PatchJob
  <1>2. Scheduler => UNCHANGED nodes
    BY DEF Scheduler, SchedTimeouts, SchedListNodes, SchedRecoverNode, SchedRecoverDone,
           SchedListJobs, SchedAssign, SchedDone
  <1>3. ASSUME NEW n \in Nodes, AgentStart(n) PROVE NR!Register(n)
    BY <1>3 DEF AgentStart
  <1>4. ASSUME NEW n \in Nodes, AgentStep(n) \/ Crash(n) \/ RequestFails(n)
        PROVE  UNCHANGED nodes
    BY <1>4 DEF AgentStep, Poll, ProcessExits, SendResult, GiveUpReporting, Crash, RequestFails
  <1>5. ASSUME NEW r \in reqs, Handlers(r) \/ RequestLost(r) PROVE UNCHANGED nodes
    BY <1>5 DEF Handlers, ClaimHandlerCheck, ClaimHandlerApply, ResultHandler, RequestLost
  <1>6. ASSUME NEW n \in Nodes, HeartbeatArrives(n) PROVE NR!Heartbeat(n)
    BY <1>6 DEF HeartbeatArrives
  <1>7. DetectOffline => NR!MarkOfflineNodes
    BY DEF DetectOffline
  <1>8. ASSUME NEW n \in Nodes, HeartbeatMissed(n) PROVE NR!HeartbeatStale(n)
    BY <1>8 DEF HeartbeatMissed
  <1>9. ASSUME NEW n \in Nodes, GraceExpires(n) PROVE NR!GraceExpires(n)
    BY <1>9 DEF GraceExpires
  <1>10. ASSUME NEW j \in Jobs, ExecutionOverdue(j) PROVE UNCHANGED nodes
    BY <1>10 DEF ExecutionOverdue
  <1>11. CASE UNCHANGED vars
    BY <1>11 DEF vars
  <1> QED BY <1>1, <1>2, <1>3, <1>4, <1>5, <1>6, <1>7, <1>8, <1>9, <1>10, <1>11,
             <1>12 DEF Next

\* The steps of clients and clocks, which touch only jobs, nodes and faults.
Environment ==
    \/ \E j \in Jobs, r \in RetryLimits : CreateJob(j, r)
    \/ \E j \in Jobs, p \in Patches : PatchJob(j, p)
    \/ \E n \in Nodes : HeartbeatArrives(n) \/ HeartbeatMissed(n) \/ GraceExpires(n)
    \/ DetectOffline
    \/ \E j \in Jobs : ExecutionOverdue(j)

\* Clients and clocks keep the types.
LEMMA EnvironmentTypes ==
    ASSUME TypeOK, NR!NodeTypeOK', Environment PROVE TypeOK'
  <1>0. /\ jobs \in [Jobs -> Job] /\ faults \in 0..MaxFaults /\ MaxFaults \in Nat
    BY JobSystemAssumption DEF TypeOK
  <1>1. ASSUME NEW j \in Jobs, NEW r \in RetryLimits, CreateJob(j, r) PROVE TypeOK'
    BY <1>0, <1>1, CreatedType, JobSystemAssumption DEF CreateJob, TypeOK
  <1>2. ASSUME NEW n \in Nodes, HeartbeatArrives(n) \/ GraceExpires(n) PROVE TypeOK'
    BY <1>2 DEF HeartbeatArrives, GraceExpires, otherThanNodes, TypeOK
  <1>3. ASSUME NEW n \in Nodes, HeartbeatMissed(n) PROVE TypeOK'
    BY <1>0, <1>3 DEF HeartbeatMissed, otherThanNodes, TypeOK
  <1>4. DetectOffline => TypeOK'
    BY DEF DetectOffline, otherThanNodes, TypeOK
  <1>5. ASSUME NEW j \in Jobs, ExecutionOverdue(j) PROVE TypeOK'
    <2>1. jobs[j] \in Job /\ [jobs[j] EXCEPT !.started = "overdue"] \in Job
      BY <1>0, OverdueFacts
    <2> QED BY <1>0, <1>5, <2>1 DEF ExecutionOverdue, TypeOK
  <1>6. ASSUME NEW j \in Jobs, NEW p \in Patches, PatchJob(j, p) PROVE TypeOK'
    <2>1. jobs[j] \in Job /\ p \in UpdateParams /\ jobs[j].status # "none"
      BY <1>0, <1>6, JobSystemAssumption DEF PatchJob
    <2>2. Updated(jobs[j], p) \in Job
      BY <2>1, UpdatedFacts
    <2>3. jobs' \in [Jobs -> Job]
      BY <1>0, <1>6, <2>2 DEF PatchJob
    <2>4. faults' \in 0..MaxFaults
      BY <1>0, <1>6 DEF PatchJob
    <2> QED BY <1>6, <2>3, <2>4 DEF PatchJob, TypeOK
  <1> QED BY <1>1, <1>2, <1>3, <1>4, <1>5, <1>6 DEF Environment

\* Every step keeps the types.
LEMMA TypeStep == JobSystemInv /\ [Next]_vars => TypeOK'
  <1> SUFFICES ASSUME JobSystemInv, [Next]_vars PROVE TypeOK'
    OBVIOUS
  <1>1. TypeOK /\ WorkIsIssued /\ OfflineSinceMatches
    BY DEF JobSystemInv, WorkInv
  <1>2. NR!NodeTypeOK'
    BY <1>1, NextIsNodeStep, NodeStepKeeps DEF TypeOK
  <1>3. Environment => TypeOK'
    BY <1>1, <1>2, EnvironmentTypes
  <1>4. Scheduler => TypeOK'
    BY <1>1, SchedulerTypes
  <1>5. ASSUME NEW n \in Nodes, AgentStart(n) \/ AgentStep(n) \/ Crash(n) \/ RequestFails(n)
        PROVE  TypeOK'
    BY <1>1, <1>5, AgentTypesKept
  <1>6. ASSUME NEW r \in reqs, Handlers(r) \/ RequestLost(r) PROVE TypeOK'
    BY <1>1, <1>6, HandlerTypes
  <1>7. CASE UNCHANGED vars
    BY <1>1, <1>7 DEF vars, TypeOK, NR!NodeTypeOK
  <1> QED BY <1>3, <1>4, <1>5, <1>6, <1>7 DEF Next, Environment

-----------------------------------------------------------------------------
(* What a step does to one job, and what that keeps.                       *)

\* The operations of the registry on job j, as the system performs them.
JobStepOf(j) ==
    \/ jobs'[j] = jobs[j] /\ issued'[j] = issued[j]
    \/ /\ issued'[j] = issued[j]
       /\ \/ jobs[j].status = "none" /\ \E r \in RetryLimits : jobs'[j] = Created(r)
          \/ \E n \in Nodes : jobs'[j] = Updated(jobs[j], AssignTo(n))
          \/ /\ jobs[j].status # "none" /\ j \in patched'
             /\ \E p \in Patches : jobs'[j] = Updated(jobs[j], p)
          \/ \E r \in reqs : /\ r.kind = "result" /\ r.job = j
                             /\ ResultAccepted(jobs[j], r.node, r.exec)
                             /\ jobs'[j] = Reported(jobs[j], r.code)
          \/ jobs[j].status \in {"running", "assigned"} /\ jobs'[j] = Recovered(jobs[j])
          \/ jobs'[j] = [jobs[j] EXCEPT !.started = "overdue"]
    \/ /\ issued'[j] = issued[j] + 1 /\ jobs[j].status = "assigned"
       /\ jobs'[j] = Claimed(jobs[j], issued[j] + 1)

\* Every step of the system is one of these, seen from job j.
LEMMA NextIsJobStep ==
    ASSUME TypeOK, [Next]_vars, NEW j \in Jobs PROVE JobStepOf(j)
  <1>0. /\ jobs \in [Jobs -> Job] /\ issued \in [Jobs -> Nat] /\ reqs \subseteq Request
        /\ sched.pending \subseteq Jobs
    BY DEF TypeOK, SchedulerState
  <1>1. ASSUME NEW i \in Jobs, NEW r \in RetryLimits, CreateJob(i, r) PROVE JobStepOf(j)
    BY <1>0, <1>1 DEF CreateJob, JobStepOf
  <1>2. CASE SchedTimeouts
    <2>1. /\ UNCHANGED issued
          /\ jobs'[j] = IF TimedOut(jobs[j]) THEN Recovered(jobs[j]) ELSE jobs[j]
      BY <1>0, <1>2, RecoverJobsType DEF SchedTimeouts
    <2> QED BY <2>1 DEF JobStepOf, TimedOut
  <1>3. ASSUME NEW n \in Nodes, SchedRecoverNode(n) PROVE JobStepOf(j)
    <2>1. /\ UNCHANGED issued
          /\ jobs'[j] = IF HeldBy(jobs[j], n) THEN Recovered(jobs[j]) ELSE jobs[j]
      BY <1>0, <1>3, RecoverJobsType DEF SchedRecoverNode
    <2> QED BY <2>1 DEF JobStepOf, HeldBy
  <1>4. CASE SchedAssign
    <2> DEFINE n == Select(Eligible, sched.last)
    <2>1. PICK i \in sched.pending :
             \/ UNCHANGED jobs
             \/ n \in Nodes /\ jobs' = [jobs EXCEPT ![i] = Updated(jobs[i], AssignTo(n))]
      BY <1>4, AssignFacts
    <2> HIDE DEF n
    <2>2. UNCHANGED issued
      BY <1>4 DEF SchedAssign
    <2> QED BY <1>0, <1>4, <2>1, <2>2 DEF JobStepOf
  <1>5. CASE UNCHANGED <<jobs, issued>>
    BY <1>5 DEF JobStepOf
  <1>6. ASSUME NEW r \in reqs, ClaimHandlerApply(r) PROVE JobStepOf(j)
    <2>1. r.job \in Jobs
      BY <1>0 DEF Request
    <2>2. CASE ClaimAllowed(jobs[r.job], r.node)
      BY <1>0, <1>6, <2>1, <2>2 DEF ClaimHandlerApply, ClaimAllowed, JobStepOf
    <2>3. CASE ~ClaimAllowed(jobs[r.job], r.node)
      BY <1>5, <1>6, <2>3 DEF ClaimHandlerApply
    <2> QED BY <2>2, <2>3
  <1>7. ASSUME NEW r \in reqs, ResultHandler(r) PROVE JobStepOf(j)
    <2>1. r.job \in Jobs
      BY <1>0 DEF Request
    <2> QED BY <1>0, <1>7, <2>1 DEF ResultHandler, JobStepOf
  <1>8. ASSUME NEW i \in Jobs, ExecutionOverdue(i) PROVE JobStepOf(j)
    BY <1>0, <1>8 DEF ExecutionOverdue, JobStepOf
  <1>9. SchedListNodes \/ SchedRecoverDone \/ SchedListJobs \/ SchedDone
           => UNCHANGED <<jobs, issued>>
    BY DEF SchedListNodes, SchedRecoverDone, SchedListJobs, SchedDone
  <1>10. ASSUME NEW n \in Nodes,
                AgentStart(n) \/ AgentStep(n) \/ Crash(n) \/ RequestFails(n)
         PROVE  UNCHANGED <<jobs, issued>>
    BY <1>10 DEF AgentStart, AgentStep, Poll, ProcessExits, SendResult, GiveUpReporting,
                 Crash, RequestFails
  <1>11. ASSUME NEW r \in reqs, ClaimHandlerCheck(r) \/ RequestLost(r)
         PROVE  UNCHANGED <<jobs, issued>>
    BY <1>11 DEF ClaimHandlerCheck, RequestLost
  <1>12. ASSUME NEW n \in Nodes, HeartbeatArrives(n) \/ HeartbeatMissed(n) \/ GraceExpires(n)
         PROVE  UNCHANGED <<jobs, issued>>
    BY <1>12 DEF HeartbeatArrives, HeartbeatMissed, GraceExpires, otherThanNodes
  <1>13. DetectOffline => UNCHANGED <<jobs, issued>>
    BY DEF DetectOffline, otherThanNodes
  <1>14. UNCHANGED vars => UNCHANGED <<jobs, issued>>
    BY DEF vars
  <1>15. ASSUME NEW i \in Jobs, NEW p \in Patches, PatchJob(i, p) PROVE JobStepOf(j)
    BY <1>0, <1>15 DEF PatchJob, JobStepOf
  <1> QED BY <1>1, <1>2, <1>3, <1>4, <1>5, <1>6, <1>7, <1>8, <1>9, <1>10, <1>11, <1>12,
             <1>13, <1>14, <1>15 DEF Next, Scheduler, Handlers

\* Every step keeps every job within its budget.
LEMMA BudgetsStep ==
    ASSUME TypeOK, Budgets, NEW j \in Jobs, JobStepOf(j)
    PROVE  WithinBudget(jobs'[j], issued'[j])
  <1>0. jobs[j] \in Job /\ issued[j] \in Nat /\ WithinBudget(jobs[j], issued[j])
    BY DEF TypeOK, Budgets
  <1>1. \A r \in reqs : r.code \in ExitCodes
    BY DEF TypeOK, Request
  <1>2. RetryLimits \subseteq Nat /\ Patches \subseteq UpdateParams
    BY JobSystemAssumption
  <1> QED BY <1>0, <1>1, <1>2, BudgetKept DEF JobStepOf

\* A job that ends in a step, and that no PATCH touched, ends with a reported
\* exit of its execution, or with the -1 of a recovery.
LEMMA IntegrityStep ==
    ASSUME TypeOK, WorkInv, ResultIntegrity, exits \subseteq exits',
           NEW j \in Jobs, JobStepOf(j), jobs'[j].status \in Terminal,
           j \notin patched, j \notin patched'
    PROVE  \/ <<j, jobs'[j].exec, jobs'[j].node, jobs'[j].result>> \in exits'
           \/ jobs'[j].status = "failed" /\ jobs'[j].result = -1
  <1> DEFINE Goal == \/ <<j, jobs'[j].exec, jobs'[j].node, jobs'[j].result>> \in exits'
                     \/ jobs'[j].status = "failed" /\ jobs'[j].result = -1
  <1>0. jobs[j] \in Job /\ issued[j] \in Nat
    BY DEF TypeOK
  <1>1. CASE jobs'[j] = jobs[j]
    BY <1>1 DEF ResultIntegrity
  <1>2. ASSUME NEW r \in RetryLimits, jobs'[j] = Created(r) PROVE FALSE
    BY <1>2 DEF Created, NoJob, Terminal
  <1>3. ASSUME NEW n \in Nodes, jobs'[j] = Updated(jobs[j], AssignTo(n))
        PROVE  jobs'[j] = jobs[j]
    BY <1>0, <1>3, AssignedFacts DEF Terminal
  <1>4. ASSUME NEW r \in reqs, r.kind = "result", r.job = j,
               ResultAccepted(jobs[j], r.node, r.exec), jobs'[j] = Reported(jobs[j], r.code)
        PROVE  Goal
    <2>1. <<j, r.exec, r.node, r.code>> \in exits
      BY <1>4 DEF WorkInv, ReportsAreExits
    <2>2. r.code \in ExitCodes
      BY DEF TypeOK, Request
    <2>3. jobs'[j].exec = r.exec /\ jobs'[j].node = r.node /\ jobs'[j].result = r.code
      BY <1>0, <1>4, <2>2, ReportedFacts
         DEF ResultAccepted, HoldsExecution, TakenBack, Ended, Terminal
    <2> QED BY <2>1, <2>3
  <1>5. CASE jobs'[j] = Recovered(jobs[j])
    BY <1>0, <1>5, RecoveredFacts DEF TakenBack, Ended, Terminal
  <1>6. CASE jobs'[j] = [jobs[j] EXCEPT !.started = "overdue"]
    <2>1. /\ jobs'[j].status = jobs[j].status /\ jobs'[j].exec = jobs[j].exec
          /\ jobs'[j].node = jobs[j].node /\ jobs'[j].result = jobs[j].result
      BY <1>0, <1>6, OverdueFacts
    <2> QED BY <2>1 DEF ResultIntegrity
  <1>7. CASE jobs'[j] = Claimed(jobs[j], issued[j] + 1)
    <2>1. jobs'[j].status = "running"
      BY <1>0, <1>7 DEF Claimed, Job
    <2> QED BY <2>1 DEF Terminal
  <1> QED BY <1>1, <1>2, <1>3, <1>4, <1>5, <1>6, <1>7 DEF JobStepOf

\* A job that runs after the step ran before with the same execution and
\* node, or was claimed in it by the node it is assigned to, or was started by a
\* PATCH and has no execution.
LEMMA RunningStep ==
    ASSUME TypeOK, WaitingHasNoExec, NEW j \in Jobs, JobStepOf(j),
           jobs'[j].status = "running"
    PROVE  \/ /\ jobs[j].status = "running" /\ jobs'[j].exec = jobs[j].exec
              /\ jobs'[j].node = jobs[j].node
           \/ /\ issued'[j] = issued[j] + 1 /\ jobs'[j].exec = issued[j] + 1
              /\ jobs'[j].node = jobs[j].node
           \/ jobs'[j].exec = NoExec
  <1>0. jobs[j] \in Job /\ issued[j] \in Nat
    BY DEF TypeOK
  <1>1. ASSUME NEW r \in RetryLimits, jobs'[j] = Created(r) PROVE FALSE
    BY <1>1 DEF Created, NoJob
  <1>2. ASSUME NEW n \in Nodes, jobs'[j] = Updated(jobs[j], AssignTo(n))
        PROVE  jobs'[j] = jobs[j]
    BY <1>0, <1>2, AssignedFacts
  <1>7. ASSUME jobs[j].status # "none", NEW p \in Patches, jobs'[j] = Updated(jobs[j], p)
        PROVE  \/ /\ jobs[j].status = "running" /\ jobs'[j].exec = jobs[j].exec
                  /\ jobs'[j].node = jobs[j].node
               \/ jobs'[j].exec = NoExec
    <2>1. p \in UpdateParams
      BY JobSystemAssumption
    <2> QED BY <1>0, <1>7, <2>1, UpdatedFacts DEF WaitingHasNoExec
  <1>3. ASSUME NEW r \in reqs, jobs'[j] = Reported(jobs[j], r.code) PROVE FALSE
    <2>1. r.code \in ExitCodes
      BY DEF TypeOK, Request
    <2> QED BY <1>0, <1>3, <2>1, ReportedFacts DEF TakenBack, Ended
  <1>4. jobs'[j] # Recovered(jobs[j])
    BY <1>0, RecoveredFacts DEF TakenBack, Ended
  <1>5. CASE jobs'[j] = [jobs[j] EXCEPT !.started = "overdue"]
    BY <1>0, <1>5, OverdueFacts
  <1>6. ASSUME jobs'[j] = Claimed(jobs[j], issued[j] + 1)
        PROVE  jobs'[j].exec = issued[j] + 1 /\ jobs'[j].node = jobs[j].node
    BY <1>0, <1>6 DEF Claimed, Job
  <1> QED BY <1>1, <1>2, <1>3, <1>4, <1>5, <1>6, <1>7 DEF JobStepOf

\* A job that waits after the step has no execution.
LEMMA WaitingStep ==
    ASSUME TypeOK, WaitingHasNoExec, NEW j \in Jobs, JobStepOf(j),
           jobs'[j].status \in {"none", "pending", "assigned"}
    PROVE  jobs'[j].exec = NoExec
  <1>0. jobs[j] \in Job /\ issued[j] \in Nat
    BY DEF TypeOK
  <1>1. CASE jobs'[j] = jobs[j]
    BY <1>1 DEF WaitingHasNoExec
  <1>2. ASSUME NEW r \in RetryLimits, jobs'[j] = Created(r) PROVE jobs'[j].exec = NoExec
    BY <1>2 DEF Created, NoJob
  <1>3. ASSUME NEW n \in Nodes, jobs'[j] = Updated(jobs[j], AssignTo(n))
        PROVE  jobs'[j].exec = NoExec
    BY <1>0, <1>1, <1>3, AssignedFacts DEF WaitingHasNoExec
  <1>4. ASSUME jobs[j].status # "none", NEW p \in Patches, jobs'[j] = Updated(jobs[j], p)
        PROVE  jobs'[j].exec = NoExec
    <2>1. p \in UpdateParams
      BY JobSystemAssumption
    <2> QED BY <1>0, <1>4, <2>1, UpdatedFacts DEF WaitingHasNoExec
  <1>5. ASSUME NEW r \in reqs, jobs'[j] = Reported(jobs[j], r.code)
        PROVE  jobs'[j].exec = NoExec
    <2>1. r.code \in ExitCodes
      BY DEF TypeOK, Request
    <2> QED BY <1>0, <1>5, <2>1, ReportedFacts DEF TakenBack, Ended
  <1>6. CASE jobs'[j] = Recovered(jobs[j])
    BY <1>0, <1>6, RecoveredFacts DEF TakenBack, Ended
  <1>7. CASE jobs'[j] = [jobs[j] EXCEPT !.started = "overdue"]
    BY <1>0, <1>7, OverdueFacts DEF WaitingHasNoExec
  <1>8. jobs'[j] # Claimed(jobs[j], issued[j] + 1)
    BY <1>0 DEF Claimed, Job
  <1> QED BY <1>1, <1>2, <1>3, <1>4, <1>5, <1>6, <1>7, <1>8 DEF JobStepOf

\* Only the scheduler moves the scheduler's state.
LEMMA SchedulerOwnsSched == [Next]_vars => Scheduler \/ UNCHANGED sched
  <1> SUFFICES ASSUME [Next]_vars PROVE Scheduler \/ UNCHANGED sched
    OBVIOUS
  <1>1. Environment => UNCHANGED sched
    BY DEF Environment, CreateJob, PatchJob, HeartbeatArrives, HeartbeatMissed, GraceExpires,
           DetectOffline, ExecutionOverdue, otherThanNodes
  <1>2. ASSUME NEW n \in Nodes, AgentStart(n) \/ AgentStep(n) \/ Crash(n) \/ RequestFails(n)
        PROVE  UNCHANGED sched
    BY <1>2 DEF AgentStart, AgentStep, Poll, ProcessExits, SendResult, GiveUpReporting,
                Crash, RequestFails
  <1>3. ASSUME NEW r \in reqs, Handlers(r) \/ RequestLost(r) PROVE UNCHANGED sched
    BY <1>3 DEF Handlers, ClaimHandlerCheck, ClaimHandlerApply, ResultHandler, RequestLost
  <1>4. UNCHANGED vars => UNCHANGED sched
    BY DEF vars
  <1> QED BY <1>1, <1>2, <1>3, <1>4 DEF Next, Environment

\* The history of PATCHes only grows.
LEMMA PatchedGrows == [Next]_vars => patched \subseteq patched'
  <1> SUFFICES ASSUME [Next]_vars PROVE patched \subseteq patched'
    OBVIOUS
  <1>1. Environment => patched \subseteq patched'
    BY DEF Environment, CreateJob, PatchJob, HeartbeatArrives, HeartbeatMissed, GraceExpires,
           DetectOffline, ExecutionOverdue, otherThanNodes
  <1>2. Scheduler => UNCHANGED patched
    BY DEF Scheduler, SchedTimeouts, SchedListNodes, SchedRecoverNode, SchedRecoverDone,
           SchedListJobs, SchedAssign, SchedDone
  <1>3. ASSUME NEW n \in Nodes, AgentStart(n) \/ AgentStep(n) \/ Crash(n) \/ RequestFails(n)
        PROVE  UNCHANGED patched
    BY <1>3 DEF AgentStart, AgentStep, Poll, ProcessExits, SendResult, GiveUpReporting,
                Crash, RequestFails
  <1>4. ASSUME NEW r \in reqs, Handlers(r) \/ RequestLost(r) PROVE UNCHANGED patched
    BY <1>4 DEF Handlers, ClaimHandlerCheck, ClaimHandlerApply, ResultHandler, RequestLost
  <1>5. UNCHANGED vars => UNCHANGED patched
    BY DEF vars
  <1> QED BY <1>1, <1>2, <1>3, <1>4, <1>5 DEF Next, Environment

-----------------------------------------------------------------------------
(* Which agent works under which ExecutionID.                              *)

\* The agent goes on with the execution it holds.
Carries(n) ==
    /\ agents'[n].job = agents[n].job /\ agents'[n].exec = agents[n].exec
    /\ agents'[n].code = agents[n].code
    /\ \/ agents[n].pc = "executing" /\ agents'[n].pc = "executing"
       \/ /\ agents[n].pc \in {"waiting", "reporting"}
          /\ agents'[n].pc \in {"waiting", "reporting"}

\* The agent holds no execution after the step.
Rests(n) == agents'[n].pc \notin {"executing", "waiting", "reporting"}

\* Steps in which no command starts or ends, and only real exits are reported.
QuietStep ==
    /\ UNCHANGED exits
    /\ \A j \in Jobs : issued'[j] >= issued[j]
    /\ \A n \in Nodes : Carries(n) \/ Rests(n)
    /\ \A r \in reqs' : r.kind = "result" => <<r.job, r.exec, r.node, r.code>> \in exits

\* A quiet step keeps the correspondence of agents, executions and exits.
LEMMA QuietKeeps ==
    ASSUME TypeOK, issued' \in [Jobs -> Nat], WorkInv, QuietStep
    PROVE  WorkInv'
  <1>0. /\ issued \in [Jobs -> Nat] /\ \A x \in exits : x[1] \in Jobs
        /\ \A j \in Jobs : 1..issued[j] \subseteq 1..issued'[j]
    BY DEF TypeOK, QuietStep
  <1>1. WorkIsIssued'
    <2>1. ASSUME NEW n \in Nodes, Busy(n)'
          PROVE  agents'[n].job \in Jobs /\ agents'[n].exec \in 1..issued'[agents'[n].job]
      <3>1. Carries(n) /\ Busy(n)
        BY <2>1 DEF QuietStep, Busy, Carries, Rests
      <3>2. agents[n].job \in Jobs /\ agents[n].exec \in 1..issued[agents[n].job]
        BY <3>1 DEF WorkInv, WorkIsIssued
      <3> QED BY <1>0, <3>1, <3>2 DEF Carries
    <2>2. ASSUME NEW x \in exits PROVE x[2] \in 1..issued'[x[1]]
      <3>1. x[1] \in Jobs /\ x[2] \in 1..issued[x[1]]
        BY <1>0 DEF WorkInv, WorkIsIssued
      <3> QED BY <1>0, <3>1
    <2> QED BY <2>1, <2>2 DEF WorkIsIssued, QuietStep
  <1>2. ReportsAreExits'
    <2>1. ASSUME NEW n \in Nodes, agents'[n].pc \in {"waiting", "reporting"}
          PROVE  <<agents'[n].job, agents'[n].exec, n, agents'[n].code>> \in exits
      <3>1. Carries(n) /\ agents[n].pc \in {"waiting", "reporting"}
        BY <2>1 DEF QuietStep, Carries, Rests
      <3> QED BY <3>1 DEF Carries, WorkInv, ReportsAreExits
    <2> QED BY <2>1 DEF ReportsAreExits, QuietStep
  <1>3. OneRunPerExecution'
    <2>1. ASSUME NEW n \in Nodes, NEW j \in Jobs, NEW e, Works(n, j, e)'
          PROVE  Works(n, j, e) /\ e \in 1..issued[j]
      <3>1. Carries(n) /\ Busy(n) /\ Works(n, j, e)
        BY <2>1 DEF QuietStep, Works, Busy, Carries, Rests
      <3> QED BY <3>1 DEF Works, WorkInv, WorkIsIssued
    <2>2. ASSUME NEW n \in Nodes, NEW m \in Nodes, NEW j \in Jobs, NEW e \in 1..issued'[j],
                 Works(n, j, e)', Works(m, j, e)'
          PROVE  n = m
      BY <2>1, <2>2 DEF WorkInv, OneRunPerExecution
    <2>3. ASSUME NEW n \in Nodes, NEW x \in exits, agents'[n].pc = "executing"
          PROVE  ~(x[1] = agents'[n].job /\ x[2] = agents'[n].exec)
      <3>1. Carries(n) /\ agents[n].pc = "executing"
        BY <2>3 DEF QuietStep, Carries, Rests
      <3> QED BY <3>1 DEF Carries, WorkInv, OneRunPerExecution
    <2>4. \A x, y \in exits' : x[1] = y[1] /\ x[2] = y[2] => x = y
      BY DEF QuietStep, WorkInv, OneRunPerExecution
    <2> QED BY <2>2, <2>3, <2>4 DEF OneRunPerExecution, QuietStep
  <1> QED BY <1>1, <1>2, <1>3 DEF WorkInv

\* A command that ends adds the one exit of its execution.
LEMMA ExitKeeps ==
    ASSUME TypeOK, WorkInv, NEW n \in Nodes, NEW code \in AgentCodes, ProcessExits(n, code)
    PROVE  WorkInv'
  <1> DEFINE j0 == agents[n].job
             e0 == agents[n].exec
             new == <<j0, e0, n, code>>
  <1>0. /\ agents[n] \in Agent /\ agents \in [Nodes -> Agent] /\ agents[n].pc = "executing"
        /\ UNCHANGED <<issued, reqs>> /\ exits' = exits \cup {new}
        /\ agents' = [agents EXCEPT ![n].pc = "waiting", ![n].code = code]
        /\ j0 \in Jobs /\ e0 \in 1..issued[j0] /\ code \in ExitCodes
    BY JobSystemAssumption DEF ProcessExits, TypeOK, WorkInv, WorkIsIssued, Busy
  <1>1. /\ agents'[n].pc = "waiting" /\ agents'[n].job = j0 /\ agents'[n].exec = e0
        /\ agents'[n].code = code
        /\ \A m \in Nodes \ {n} : agents'[m] = agents[m]
    BY <1>0 DEF Agent
  <1>2. new[1] = j0 /\ new[2] = e0
    OBVIOUS
  <1>3. \A x \in exits : ~(x[1] = j0 /\ x[2] = e0)
    BY <1>0 DEF WorkInv, OneRunPerExecution
  <1> HIDE DEF j0, e0
  <1>4. WorkIsIssued'
    <2>1. ASSUME NEW m \in Nodes, Busy(m)'
          PROVE  agents'[m].job \in Jobs /\ agents'[m].exec \in 1..issued'[agents'[m].job]
      BY <1>0, <1>1, <2>1 DEF WorkInv, WorkIsIssued, Busy
    <2>2. ASSUME NEW x \in exits' PROVE x[2] \in 1..issued'[x[1]]
      BY <1>0, <1>2, <2>2 DEF WorkInv, WorkIsIssued
    <2> QED BY <2>1, <2>2 DEF WorkIsIssued
  <1>5. ReportsAreExits'
    <2>1. ASSUME NEW m \in Nodes, agents'[m].pc \in {"waiting", "reporting"}
          PROVE  <<agents'[m].job, agents'[m].exec, m, agents'[m].code>> \in exits'
      BY <1>0, <1>1, <2>1 DEF WorkInv, ReportsAreExits
    <2>2. \A r \in reqs' : r.kind = "result" => <<r.job, r.exec, r.node, r.code>> \in exits'
      BY <1>0 DEF WorkInv, ReportsAreExits
    <2> QED BY <2>1, <2>2 DEF ReportsAreExits
  <1>6. OneRunPerExecution'
    <2>1. ASSUME NEW m \in Nodes, NEW j \in Jobs, NEW e, Works(m, j, e)'
          PROVE  Works(m, j, e)
      BY <1>0, <1>1, <2>1 DEF Works, j0, e0
    <2>2. ASSUME NEW l \in Nodes, NEW m \in Nodes, NEW j \in Jobs, NEW e \in 1..issued'[j],
                 Works(l, j, e)', Works(m, j, e)'
          PROVE  l = m
      BY <1>0, <2>1, <2>2 DEF WorkInv, OneRunPerExecution
    <2>3. ASSUME NEW x \in exits', NEW y \in exits', x[1] = y[1], x[2] = y[2] PROVE x = y
      <3>1. CASE x \in exits /\ y \in exits
        BY <2>3, <3>1 DEF WorkInv, OneRunPerExecution
      <3> QED BY <1>0, <1>2, <1>3, <2>3, <3>1
    <2>4. ASSUME NEW m \in Nodes, NEW x \in exits', agents'[m].pc = "executing",
                 x[1] = agents'[m].job, x[2] = agents'[m].exec
          PROVE  FALSE
      <3>1. m # n /\ agents'[m] = agents[m]
        BY <1>1, <2>4
      <3>2. CASE x \in exits
        BY <2>4, <3>1, <3>2 DEF WorkInv, OneRunPerExecution
      <3>3. CASE x = new
        <4>1. Works(m, j0, e0) /\ Works(n, j0, e0)
          BY <1>0, <1>2, <2>4, <3>1, <3>3 DEF Works, j0, e0
        <4> QED BY <1>0, <3>1, <4>1 DEF WorkInv, OneRunPerExecution
      <3> QED BY <1>0, <3>2, <3>3
    <2> QED BY <2>2, <2>3, <2>4 DEF OneRunPerExecution
  <1> QED BY <1>4, <1>5, <1>6 DEF WorkInv

\* A claim that is answered gives the agent an ExecutionID nobody works, or
\* has worked, under.
LEMMA ClaimKeeps ==
    ASSUME TypeOK, WorkInv, NEW r \in reqs, ClaimHandlerApply(r),
           ClaimAllowed(jobs[r.job], r.node), r.live
    PROVE  WorkInv'
  <1> DEFINE n == r.node
             j0 == r.job
             e0 == issued[r.job] + 1
  <1>0. /\ n \in Nodes /\ j0 \in Jobs /\ agents \in [Nodes -> Agent] /\ issued \in [Jobs -> Nat]
        /\ issued[j0] \in Nat /\ e0 \in Nat /\ \A x \in exits : x[1] \in Jobs
    BY DEF TypeOK, Request
  <1>1. /\ issued' = [issued EXCEPT ![j0] = e0] /\ reqs' \subseteq reqs /\ UNCHANGED exits
        /\ agents' = [agents EXCEPT ![n] =
              [IdleAgent EXCEPT !.pc = "executing", !.job = j0, !.exec = e0]]
    BY DEF ClaimHandlerApply, Answer
  <1>2. /\ agents'[n].pc = "executing" /\ agents'[n].job = j0 /\ agents'[n].exec = e0
        /\ \A m \in Nodes \ {n} : agents'[m] = agents[m]
    BY <1>0, <1>1 DEF IdleAgent
  <1>3. /\ issued'[j0] = e0 /\ e0 \notin 1..issued[j0] /\ e0 \in 1..issued'[j0]
        /\ \A j \in Jobs : 1..issued[j] \subseteq 1..issued'[j]
    BY <1>0, <1>1
  <1>4. ASSUME NEW m \in Nodes, Busy(m)
        PROVE  agents[m].job \in Jobs /\ agents[m].exec \in 1..issued[agents[m].job]
    BY <1>4 DEF WorkInv, WorkIsIssued
  <1>5. ASSUME NEW x \in exits PROVE x[1] \in Jobs /\ x[2] \in 1..issued[x[1]]
    BY <1>0 DEF WorkInv, WorkIsIssued
  <1> HIDE DEF n, j0, e0
  <1>6. WorkIsIssued'
    <2>1. ASSUME NEW m \in Nodes, Busy(m)'
          PROVE  agents'[m].job \in Jobs /\ agents'[m].exec \in 1..issued'[agents'[m].job]
      <3>1. CASE m = n
        BY <1>0, <1>2, <1>3, <3>1
      <3>2. CASE m # n
        <4>1. Busy(m) /\ agents'[m] = agents[m]
          BY <1>2, <2>1, <3>2 DEF Busy
        <4> QED BY <1>3, <1>4, <4>1
      <3> QED BY <3>1, <3>2
    <2>2. ASSUME NEW x \in exits' PROVE x[2] \in 1..issued'[x[1]]
      BY <1>1, <1>3, <1>5, <2>2
    <2> QED BY <2>1, <2>2 DEF WorkIsIssued
  <1>7. ReportsAreExits'
    <2>1. ASSUME NEW m \in Nodes, agents'[m].pc \in {"waiting", "reporting"}
          PROVE  <<agents'[m].job, agents'[m].exec, m, agents'[m].code>> \in exits'
      BY <1>1, <1>2, <2>1 DEF WorkInv, ReportsAreExits
    <2>2. \A q \in reqs' : q.kind = "result" => <<q.job, q.exec, q.node, q.code>> \in exits'
      BY <1>1 DEF WorkInv, ReportsAreExits
    <2> QED BY <2>1, <2>2 DEF ReportsAreExits
  <1>8. OneRunPerExecution'
    <2>1. ASSUME NEW m \in Nodes, m # n, NEW j \in Jobs, NEW e, Works(m, j, e)'
          PROVE  Works(m, j, e) /\ e \in 1..issued[j] /\ ~(j = j0 /\ e = e0)
      <3>1. Works(m, j, e) /\ Busy(m)
        BY <1>2, <2>1 DEF Works, Busy
      <3>2. e \in 1..issued[j]
        BY <1>4, <3>1 DEF Works
      <3> QED BY <1>3, <3>1, <3>2
    <2>2. ASSUME NEW j \in Jobs, NEW e, Works(n, j, e)' PROVE j = j0 /\ e = e0
      BY <1>2, <2>2 DEF Works
    <2>3. ASSUME NEW l \in Nodes, NEW m \in Nodes, NEW j \in Jobs, NEW e \in 1..issued'[j],
                 Works(l, j, e)', Works(m, j, e)'
          PROVE  l = m
      <3>1. CASE l # n /\ m # n
        BY <2>1, <2>3, <3>1 DEF WorkInv, OneRunPerExecution
      <3> QED BY <2>1, <2>2, <2>3, <3>1
    <2>4. \A x, y \in exits' : x[1] = y[1] /\ x[2] = y[2] => x = y
      BY <1>1 DEF WorkInv, OneRunPerExecution
    <2>5. ASSUME NEW m \in Nodes, NEW x \in exits', agents'[m].pc = "executing"
          PROVE  ~(x[1] = agents'[m].job /\ x[2] = agents'[m].exec)
      <3>1. CASE m = n
        BY <1>1, <1>2, <1>3, <1>5, <3>1
      <3>2. CASE m # n
        BY <1>1, <1>2, <2>5, <3>2 DEF WorkInv, OneRunPerExecution
      <3> QED BY <3>1, <3>2
    <2> QED BY <2>3, <2>4, <2>5 DEF OneRunPerExecution
  <1> QED BY <1>6, <1>7, <1>8 DEF WorkInv

\* A command ends in the step.
ExitStep == \E n \in Nodes, code \in AgentCodes : ProcessExits(n, code)

\* An agent receives the ExecutionID of a claim in the step.
ClaimStep == \E r \in reqs : /\ ClaimHandlerApply(r) /\ r.live
                             /\ ClaimAllowed(jobs[r.job], r.node)

\* In every other step the agents go on with what they hold or give it up.
LEMMA StepKinds ==
    ASSUME TypeOK, TypeOK', WorkInv, [Next]_vars PROVE QuietStep \/ ExitStep \/ ClaimStep
  <1>0. /\ agents \in [Nodes -> Agent] /\ issued \in [Jobs -> Nat] /\ issued' \in [Jobs -> Nat]
        /\ reqs \subseteq Request /\ \A j \in Jobs : issued[j] >= issued[j]
    BY DEF TypeOK
  <1>1. \A r \in reqs : r.kind = "result" => <<r.job, r.exec, r.node, r.code>> \in exits
    BY DEF WorkInv, ReportsAreExits
  <1>2. ASSUME UNCHANGED <<agents, exits>>, reqs' \subseteq reqs,
               \A j \in Jobs : issued'[j] >= issued[j]
        PROVE  QuietStep
    BY <1>1, <1>2 DEF QuietStep, Carries, Rests
  <1>3. ASSUME NEW n \in Nodes, NEW a, agents' = [agents EXCEPT ![n] = a],
               a.pc \notin {"executing", "waiting", "reporting"}, UNCHANGED <<issued, exits>>,
               \A r \in reqs' : r.kind = "result" => <<r.job, r.exec, r.node, r.code>> \in exits
        PROVE  QuietStep
    <2>1. ASSUME NEW m \in Nodes PROVE Carries(m) \/ Rests(m)
      BY <1>0, <1>3 DEF Carries, Rests
    <2> QED BY <1>0, <1>3, <2>1 DEF QuietStep
  <1>4. CASE Environment \/ Scheduler
    <2>1. UNCHANGED <<agents, exits, reqs, issued>>
      BY <1>4 DEF Environment, CreateJob, PatchJob, HeartbeatArrives, HeartbeatMissed, GraceExpires,
             DetectOffline, ExecutionOverdue, otherThanNodes, Scheduler, SchedTimeouts,
             SchedListNodes, SchedRecoverNode, SchedRecoverDone, SchedListJobs, SchedAssign,
             SchedDone
    <2> QED BY <1>0, <1>2, <2>1
  <1>5. ASSUME NEW n \in Nodes, AgentStart(n) \/ GiveUpReporting(n) PROVE QuietStep
    BY <1>1, <1>3, <1>5, AgentTypes DEF AgentStart, GiveUpReporting
  <1>6. ASSUME NEW n \in Nodes, NEW j \in Jobs, Poll(n, j) PROVE QuietStep
    <2>1. [IdleAgent EXCEPT !.pc = "claiming", !.job = j].pc = "claiming"
      BY DEF IdleAgent
    <2>2. \A r \in reqs' : r.kind = "result" => <<r.job, r.exec, r.node, r.code>> \in exits
      BY <1>1, <1>6 DEF Poll, ClaimRequest
    <2> QED BY <1>3, <1>6, <2>1, <2>2 DEF Poll
  <1>7. ASSUME NEW n \in Nodes, NEW code \in AgentCodes, ProcessExits(n, code) PROVE ExitStep
    BY <1>7 DEF ExitStep
  <1>8. ASSUME NEW n \in Nodes, SendResult(n) PROVE QuietStep
    <2>1. /\ agents[n] \in Agent /\ agents[n].pc = "waiting" /\ UNCHANGED <<issued, exits>>
          /\ agents' = [agents EXCEPT ![n].pc = "reporting", ![n].tries = @ + 1]
          /\ reqs' = reqs \cup {ResultRequest(n)}
      BY <1>0, <1>8 DEF SendResult
    <2>2. <<agents[n].job, agents[n].exec, n, agents[n].code>> \in exits
      BY <2>1 DEF WorkInv, ReportsAreExits
    <2>3. \A r \in reqs' : r.kind = "result" => <<r.job, r.exec, r.node, r.code>> \in exits
      BY <1>1, <2>1, <2>2 DEF ResultRequest
    <2>4. ASSUME NEW m \in Nodes PROVE Carries(m) \/ Rests(m)
      BY <1>0, <2>1 DEF Carries, Rests, Agent
    <2> QED BY <1>0, <2>1, <2>3, <2>4 DEF QuietStep
  <1>9. ASSUME NEW n \in Nodes
        PROVE  \A r \in Orphaned(n) : r.kind = "result" =>
                  <<r.job, r.exec, r.node, r.code>> \in exits
    <2> SUFFICES ASSUME NEW q \in Orphaned(n), q.kind = "result"
                 PROVE  <<q.job, q.exec, q.node, q.code>> \in exits
      OBVIOUS
    <2>1. PICK r \in reqs : /\ q.kind = r.kind /\ q.job = r.job /\ q.exec = r.exec
                            /\ q.node = r.node /\ q.code = r.code
      BY <1>0, OrphanedType
    <2> QED BY <1>1, <2>1
  <1>10. ASSUME NEW n \in Nodes, Crash(n) PROVE QuietStep
    BY <1>3, <1>9, <1>10, AgentTypes DEF Crash
  <1>11. ASSUME NEW n \in Nodes, RequestFails(n) PROVE QuietStep
    <2>1. /\ UNCHANGED <<issued, exits>> /\ reqs' = Orphaned(n) /\ agents[n] \in Agent
      BY <1>0, <1>11 DEF RequestFails
    <2>2. CASE agents[n].pc = "claiming"
      BY <1>3, <1>9, <1>11, <2>1, <2>2, AgentTypes DEF RequestFails
    <2>3. CASE agents[n].pc # "claiming"
      <3>1. /\ agents[n].pc = "reporting"
            /\ agents' = [agents EXCEPT ![n] = [agents[n] EXCEPT !.pc = "waiting"]]
        BY <1>11, <2>3 DEF RequestFails
      <3>2. ASSUME NEW m \in Nodes PROVE Carries(m) \/ Rests(m)
        BY <1>0, <2>1, <3>1 DEF Carries, Rests, Agent
      <3> QED BY <1>0, <1>9, <2>1, <3>2 DEF QuietStep
    <2> QED BY <2>2, <2>3
  <1>12. ASSUME NEW r \in reqs, ClaimHandlerCheck(r) PROVE QuietStep
    <2>1. r.node \in Nodes /\ r \in Request /\ r.kind = "claim"
      BY <1>0, <1>12 DEF Request, ClaimHandlerCheck
    <2>2. \A q \in reqs' : q.kind = "result" => <<q.job, q.exec, q.node, q.code>> \in exits
      BY <1>1, <1>12, <2>1 DEF ClaimHandlerCheck, Request
    <2>3. UNCHANGED <<issued, exits>>
      BY <1>12 DEF ClaimHandlerCheck
    <2>4. UNCHANGED agents \/ agents' = [agents EXCEPT ![r.node] = IdleAgent]
      BY <1>12 DEF ClaimHandlerCheck, Answer
    <2>5. UNCHANGED agents => QuietStep
      BY <1>0, <2>2, <2>3 DEF QuietStep, Carries, Rests
    <2> QED BY <1>3, <2>1, <2>2, <2>3, <2>4, <2>5, AgentTypes
  <1>13. ASSUME NEW r \in reqs, ClaimHandlerApply(r) PROVE QuietStep \/ ClaimStep
    <2>1. r.node \in Nodes /\ r.job \in Jobs /\ reqs' \subseteq reqs /\ UNCHANGED exits
      BY <1>0, <1>13 DEF Request, ClaimHandlerApply
    <2>2. CASE ~ClaimAllowed(jobs[r.job], r.node)
      <3>1. UNCHANGED issued /\ (UNCHANGED agents \/ agents' = [agents EXCEPT ![r.node] = IdleAgent])
        BY <1>13, <2>2 DEF ClaimHandlerApply, Answer
      <3> QED BY <1>0, <1>1, <1>2, <1>3, <2>1, <3>1, AgentTypes
    <2>3. CASE ClaimAllowed(jobs[r.job], r.node) /\ r.live
      BY <1>13, <2>3 DEF ClaimStep
    <2>4. CASE ClaimAllowed(jobs[r.job], r.node) /\ ~r.live
      <3>1. UNCHANGED agents /\ issued' = [issued EXCEPT ![r.job] = issued[r.job] + 1]
        BY <1>13, <2>4 DEF ClaimHandlerApply, Answer
      <3>2. \A j \in Jobs : issued'[j] >= issued[j]
        BY <1>0, <2>1, <3>1
      <3> QED BY <1>2, <2>1, <3>1, <3>2
    <2> QED BY <2>2, <2>3, <2>4
  <1>14. ASSUME NEW r \in reqs, ResultHandler(r) PROVE QuietStep
    <2>1. /\ r.node \in Nodes /\ reqs' \subseteq reqs /\ UNCHANGED <<issued, exits>>
          /\ UNCHANGED agents \/ agents' = [agents EXCEPT ![r.node] = IdleAgent]
      BY <1>0, <1>14 DEF Request, ResultHandler, Answer
    <2> QED BY <1>0, <1>1, <1>2, <1>3, <2>1, AgentTypes
  <1>15. ASSUME NEW r \in reqs, RequestLost(r) PROVE QuietStep
    BY <1>0, <1>2, <1>15 DEF RequestLost
  <1>16. CASE UNCHANGED vars
    BY <1>0, <1>2, <1>16 DEF vars
  <1> QED BY <1>4, <1>5, <1>6, <1>7, <1>8, <1>10, <1>11, <1>12, <1>13, <1>14, <1>15, <1>16
          DEF Next, Environment, AgentStep, Handlers

\* Every step keeps the correspondence of agents, executions and exits.
LEMMA WorkStep ==
    ASSUME TypeOK, TypeOK', WorkInv, [Next]_vars PROVE WorkInv' /\ exits \subseteq exits'
  <1>1. CASE QuietStep
    BY <1>1, QuietKeeps DEF TypeOK, QuietStep
  <1>2. CASE ExitStep
    BY <1>2, ExitKeeps DEF ExitStep, ProcessExits
  <1>3. CASE ClaimStep
    BY <1>3, ClaimKeeps DEF ClaimStep, ClaimHandlerApply
  <1> QED BY <1>1, <1>2, <1>3, StepKinds

\* An agent that works under an ExecutionID after the step did so before, or
\* received it in the step for a job assigned to its node.
LEMMA WorksStep ==
    ASSUME TypeOK, TypeOK', WorkInv, [Next]_vars,
           NEW n \in Nodes, NEW j \in Jobs, NEW e, Works(n, j, e)'
    PROVE  \/ Works(n, j, e)
           \/ jobs[j].status = "assigned" /\ jobs[j].node = n /\ e = issued[j] + 1
  <1>1. CASE QuietStep
    BY <1>1 DEF QuietStep, Carries, Rests, Works
  <1>2. CASE ExitStep
    <2>1. PICK m \in Nodes, code \in AgentCodes : ProcessExits(m, code)
      BY <1>2 DEF ExitStep
    <2>2. agents[m] \in Agent /\ agents[n] \in Agent /\ agents \in [Nodes -> Agent]
      BY DEF TypeOK
    <2> QED BY <2>1, <2>2 DEF ProcessExits, Works, Agent
  <1>3. CASE ClaimStep
    <2>1. PICK r \in reqs : ClaimHandlerApply(r) /\ r.live /\ ClaimAllowed(jobs[r.job], r.node)
      BY <1>3 DEF ClaimStep
    <2>2. r.node \in Nodes /\ agents \in [Nodes -> Agent]
      BY DEF TypeOK, Request
    <2>3. agents' = [agents EXCEPT ![r.node] =
             [IdleAgent EXCEPT !.pc = "executing", !.job = r.job, !.exec = issued[r.job] + 1]]
      BY <2>1 DEF ClaimHandlerApply, Answer
    <2>4. CASE n # r.node
      BY <2>2, <2>3, <2>4 DEF Works
    <2>5. CASE n = r.node
      <3>1. agents'[n].job = r.job /\ agents'[n].exec = issued[r.job] + 1
        BY <2>2, <2>3, <2>5 DEF IdleAgent
      <3> QED BY <2>1, <2>5, <3>1 DEF Works, ClaimAllowed
    <2> QED BY <2>4, <2>5
  <1> QED BY <1>1, <1>2, <1>3, StepKinds

\* Every step keeps control plane and agents in agreement on who runs a job.
LEMMA HolderStep ==
    ASSUME TypeOK, TypeOK', WorkInv, WorkInv', WaitingHasNoExec, HolderIsAssigned, [Next]_vars,
           NEW n \in Nodes, NEW j \in Jobs, JobStepOf(j), NEW e, e = jobs'[j].exec,
           jobs'[j].status = "running", Works(n, j, e)'
    PROVE  jobs'[j].node = n
  <1>0. issued[j] \in Nat
    BY DEF TypeOK
  <1>1. \/ Works(n, j, e)
        \/ jobs[j].status = "assigned" /\ jobs[j].node = n /\ e = issued[j] + 1
    BY WorksStep
  <1>2. CASE /\ jobs[j].status = "running" /\ jobs'[j].exec = jobs[j].exec
             /\ jobs'[j].node = jobs[j].node
    BY <1>1, <1>2 DEF HolderIsAssigned
  <1>3. CASE jobs'[j].exec = issued[j] + 1 /\ jobs'[j].node = jobs[j].node
    <2>1. ~Works(n, j, issued[j] + 1)
      <3> SUFFICES ASSUME Works(n, j, issued[j] + 1) PROVE FALSE
        OBVIOUS
      <3>1. issued[j] + 1 \in 1..issued[j]
        BY DEF Works, WorkInv, WorkIsIssued, Busy
      <3> QED BY <1>0, <3>1
    <2> QED BY <1>1, <1>3, <2>1
  <1>4. jobs'[j].exec # NoExec
    <2>1. e \in 1..issued'[j] /\ issued'[j] \in Nat
      BY DEF TypeOK, Works, WorkInv, WorkIsIssued, Busy
    <2> QED BY <2>1 DEF NoExec
  <1> QED BY <1>2, <1>3, <1>4, RunningStep

-----------------------------------------------------------------------------
(* The theorems.                                                           *)

\* The invariant holds initially and every step keeps it.
THEOREM Invariant == Spec => []JobSystemInv
  <1>1. Init => JobSystemInv
    <2> SUFFICES ASSUME Init PROVE JobSystemInv
      OBVIOUS
    <2>1. /\ NoJob \in Job /\ NoJob.status = "none" /\ DownAgent \in Agent /\ DownAgent.pc = "down"
          /\ MaxFaults \in Nat
      BY CreatedType, AgentTypes, JobSystemAssumption DEF NoJob
    <2>2. TypeOK
      BY <2>1 DEF Init, TypeOK, NR!NodeTypeOK, NR!NodeInit, NR!Node, SchedulerState
    <2>3. Budgets
      BY DEF Init, Budgets, WithinBudget, NoJob
    <2>4. WorkInv
      BY <2>1 DEF Init, WorkInv, WorkIsIssued, ReportsAreExits, OneRunPerExecution, Busy, Works
    <2>5. OfflineSinceMatches
      BY DEF Init, OfflineSinceMatches, NR!OfflineSinceMatches, NR!NodeInit
    <2>6. WaitingHasNoExec /\ HolderIsAssigned /\ ResultIntegrity
      BY <2>1 DEF Init, WaitingHasNoExec, NoJob, HolderIsAssigned, ResultIntegrity, Terminal
    <2> QED BY <2>2, <2>3, <2>4, <2>5, <2>6 DEF JobSystemInv
  <1>2. JobSystemInv /\ [Next]_vars => JobSystemInv'
    <2> SUFFICES ASSUME JobSystemInv, [Next]_vars PROVE JobSystemInv'
      OBVIOUS
    <2>0. /\ TypeOK /\ Budgets /\ WorkInv /\ OfflineSinceMatches /\ WaitingHasNoExec
          /\ HolderIsAssigned /\ ResultIntegrity
      BY DEF JobSystemInv
    <2>1. TypeOK'
      BY TypeStep
    <2>2. \A j \in Jobs : JobStepOf(j)
      BY <2>0, NextIsJobStep
    <2>3. Budgets'
      BY <2>0, <2>2, BudgetsStep DEF Budgets
    <2>4. WorkInv' /\ exits \subseteq exits'
      BY <2>0, <2>1, WorkStep
    <2>5. OfflineSinceMatches'
      BY <2>0, NextIsNodeStep, NodeStepKeeps DEF TypeOK
    <2>6. WaitingHasNoExec'
      BY <2>0, <2>2, WaitingStep DEF WaitingHasNoExec
    <2>7. HolderIsAssigned'
      <3> SUFFICES ASSUME NEW n \in Nodes, NEW j \in Jobs, jobs'[j].status = "running",
                          Works(n, j, jobs[j].exec)'
                   PROVE  jobs'[j].node = n
        BY DEF HolderIsAssigned
      <3>1. PICK e : e = jobs'[j].exec
        OBVIOUS
      <3>2. Works(n, j, e)'
        BY <3>1 DEF Works
      <3> QED BY <2>0, <2>1, <2>2, <2>4, <3>1, <3>2, HolderStep
    <2>8. ResultIntegrity'
      <3>1. patched \subseteq patched'
        BY PatchedGrows
      <3> QED BY <2>0, <2>2, <2>4, <3>1, IntegrityStep DEF ResultIntegrity
    <2> QED BY <2>1, <2>3, <2>4, <2>5, <2>6, <2>7, <2>8 DEF JobSystemInv
  <1> QED BY <1>1, <1>2, PTL DEF Spec

\* The recorded outcome of a job that no PATCH touched is that of a command that
\* really ran under its execution, or the -1 of a recovery.
THEOREM IntegrityHolds == Spec => []ResultIntegrity
  BY Invariant, PTL DEF JobSystemInv

\* No two agents ever work under one ExecutionID, and it ends once.
THEOREM OneRunHolds == Spec => []OneRunPerExecution
  BY Invariant, PTL DEF JobSystemInv, WorkInv

\* The agent working under a job's current execution is on its node.
THEOREM HolderHolds == Spec => []HolderIsAssigned
  BY Invariant, PTL DEF JobSystemInv

\* OfflineSince is set exactly on nodes that are offline.
THEOREM OfflineHolds == Spec => []OfflineSinceMatches
  BY Invariant, PTL DEF JobSystemInv

\* The exits of a job are told apart by their ExecutionIDs, so there are no
\* more of them than ExecutionIDs were generated.
LEMMA ExitsWithinIssued ==
    ASSUME TypeOK, WorkInv, NEW j \in Jobs
    PROVE  LET S == {x \in exits : x[1] = j} IN
           IsFiniteSet(S) /\ Cardinality(S) \in Nat /\ Cardinality(S) <= issued[j]
  <1> DEFINE S == {x \in exits : x[1] = j}
             T == 1..issued[j]
             f == [x \in S |-> x[2]]
  <1>1. issued[j] \in Nat
    BY DEF TypeOK
  <1>2. \A x \in S : x[2] \in T
    BY DEF WorkInv, WorkIsIssued
  <1>3. \A x, y \in S : x[2] = y[2] => x = y
    BY DEF WorkInv, OneRunPerExecution
  <1> HIDE DEF S, T
  <1>4. f \in Injection(S, T)
    BY <1>2, <1>3 DEF Injection, IsInjective
  <1>5. IsFiniteSet(T) /\ Cardinality(T) = issued[j]
    BY <1>1, FS_Interval, SMTT(30) DEF T
  <1>6. IsFiniteSet(S) /\ Cardinality(S) <= Cardinality(T)
    BY <1>4, <1>5, FS_Injection
  <1>7. Cardinality(S) \in Nat
    BY <1>6, FS_CardinalityType
  <1> QED BY <1>5, <1>6, <1>7 DEF S

\* At most MaxRetries + 1 commands are ever run for a job.
THEOREM BudgetHolds == Spec => []BudgetRespected
  <1>1. JobSystemInv => BudgetRespected
    <2> SUFFICES ASSUME JobSystemInv, NEW j \in Jobs
                 PROVE  /\ issued[j] <= jobs[j].maxRetries + 1
                        /\ Cardinality({x \in exits : x[1] = j}) <= jobs[j].maxRetries + 1
      BY DEF BudgetRespected
    <2>1. issued[j] <= jobs[j].maxRetries + 1
      BY DEF JobSystemInv, Budgets, WithinBudget
    <2>2. issued[j] \in Nat /\ jobs[j].maxRetries \in Nat
      BY DEF JobSystemInv, TypeOK, Job
    <2> DEFINE c == Cardinality({x \in exits : x[1] = j})
    <2>3. c \in Nat /\ c <= issued[j]
      BY ExitsWithinIssued DEF JobSystemInv
    <2> HIDE DEF c
    <2>4. c <= jobs[j].maxRetries + 1
      BY <2>1, <2>2, <2>3
    <2> QED BY <2>1, <2>4 DEF c
  <1> QED BY <1>1, Invariant, PTL

\* Two consecutive assignments go to different nodes whenever more than one
\* node is eligible.
THEOREM SpreadHolds == Spec => SpreadsLoad
  <1>1. ASSUME JobSystemInv, [Next]_vars, sched.pc = "assign", jobs' # jobs,
               Cardinality(Eligible) > 1, sched' # sched
        PROVE  sched'.last # sched.last
    <2>0. TypeOK /\ sched \in SchedulerState /\ jobs \in [Jobs -> Job]
      BY <1>1 DEF JobSystemInv, TypeOK
    <2>1. SchedAssign
      <3>1. Scheduler => SchedAssign \/ UNCHANGED jobs
        BY <1>1 DEF Scheduler, SchedTimeouts, SchedListNodes, SchedRecoverNode,
                    SchedRecoverDone, SchedListJobs, SchedDone
      <3> QED BY <1>1, <3>1, SchedulerOwnsSched
    <2> DEFINE n == Select(Eligible, sched.last)
    <2>2. PICK j \in sched.pending :
             /\ Eligible # {} /\ n \in Nodes
             /\ jobs' = [jobs EXCEPT ![j] = Updated(jobs[j], AssignTo(n))]
             /\ sched' = IF jobs[j].status \in {"pending", "assigned"}
                         THEN [[sched EXCEPT !.pending = @ \ {j}] EXCEPT !.last = n]
                         ELSE [sched EXCEPT !.pending = @ \ {j}]
      BY <1>1, <2>0, <2>1, AssignFacts
    <2>8. jobs[j].status \in {"pending", "assigned"}
      <3>1. j \in Jobs /\ jobs[j] \in Job
        BY <2>0 DEF SchedulerState
      <3>2. Updated(jobs[j], AssignTo(n)) # jobs[j]
        BY <1>1, <2>0, <2>2, <3>1
      <3> QED BY <2>2, <3>1, <3>2, AssignedFacts
    <2>3. sched'.last = n
      BY <2>0, <2>2, <2>8 DEF SchedulerState
    <2>4. Eligible \in SUBSET Nat /\ sched.last \in Nat
      <3>1. (Nodes \subseteq Nat) /\ (sched.last \in Nodes \cup {0}) /\ (sched.online \subseteq Nodes)
        BY <2>0, JobSystemAssumption DEF SchedulerState
      <3>2. Eligible \in SUBSET Nat
        BY <3>1 DEF Eligible
      <3>3. CASE sched.last = 0
        BY <3>2, <3>3
      <3>4. CASE sched.last \in Nodes
        BY <3>1, <3>2, <3>4
      <3> QED BY <3>1, <3>3, <3>4
    <2>5. n = sched.last => Eligible = {sched.last}
      BY <2>2, <2>4, SelectFacts
    <2>6. Cardinality({sched.last}) = 1
      BY FS_Singleton
    <2>7. n # sched.last
      BY <1>1, <2>5, <2>6
    <2> QED BY <2>3, <2>7
  <1>2. JobSystemInv /\ [Next]_vars =>
          [sched.pc = "assign" /\ jobs' # jobs /\ Cardinality(Eligible) > 1 =>
             sched'.last # sched.last]_sched
    BY <1>1
  <1> QED BY <1>2, Invariant, PTL DEF Spec, SpreadsLoad

\* Whatever a PATCH, a claim or a report did to a job since the tick listed it,
\* the tick's assignment spares a job that runs or has ended.
THEOREM StaleTickHolds == Spec => StaleTickSpares
  <1>1. ASSUME JobSystemInv, [Next]_vars, sched.pc = "assign", sched' # sched,
               NEW j \in sched.pending, jobs[j].status \in {"running"} \cup Terminal
        PROVE  jobs'[j] = jobs[j]
    <2>0. TypeOK /\ jobs \in [Jobs -> Job] /\ j \in Jobs
      BY <1>1 DEF JobSystemInv, TypeOK, SchedulerState
    <2>1. SchedAssign \/ UNCHANGED jobs
      BY <1>1, SchedulerOwnsSched
         DEF Scheduler, SchedTimeouts, SchedListNodes, SchedRecoverNode,
             SchedRecoverDone, SchedListJobs, SchedDone
    <2>2. CASE SchedAssign
      <3> DEFINE n == Select(Eligible, sched.last)
      <3>1. PICK i \in sched.pending :
               \/ UNCHANGED jobs
               \/ n \in Nodes /\ jobs' = [jobs EXCEPT ![i] = Updated(jobs[i], AssignTo(n))]
        BY <2>0, <2>2, AssignFacts
      <3> HIDE DEF n
      <3>2. n \in Nodes => Updated(jobs[j], AssignTo(n)) = jobs[j]
        BY <1>1, <2>0, AssignedFacts DEF Terminal
      <3> QED BY <2>0, <3>1, <3>2
    <2> QED BY <2>1, <2>2
  <1>2. JobSystemInv /\ [Next]_vars =>
          [sched.pc = "assign" =>
             \A j \in sched.pending :
                 jobs[j].status \in {"running"} \cup Terminal => jobs'[j] = jobs[j]]_sched
    BY <1>1
  <1> QED BY <1>2, Invariant, PTL DEF Spec, StaleTickSpares

-----------------------------------------------------------------------------
(* The whole system implements the promise of JobLifecycle.                *)

Lifecycle == INSTANCE JobLifecycle WITH
    phase <- [j \in Jobs |-> jobs[j].status],
    runs  <- issued,
    limit <- [j \in Jobs |-> jobs[j].maxRetries]

\* Seen from one job, every step of the system but a PATCH is a move of the
\* lifecycle or leaves it alone.
LEMMA JobStepIsMove ==
    ASSUME TypeOK, TypeOK', Budgets, Patches = {}, NEW j \in Jobs, JobStepOf(j)
    PROVE  Lifecycle!Move(j) \/ Lifecycle!Stay(j)
  <1>0. /\ jobs[j] \in Job /\ issued[j] \in Nat /\ WithinBudget(jobs[j], issued[j])
        /\ jobs[j].maxRetries \in Nat /\ jobs[j].attempts \in Nat
        /\ jobs' \in [Jobs -> Job] /\ \A r \in reqs : r.code \in ExitCodes
    BY DEF TypeOK, Budgets, Job, Request
  <1>1. CASE jobs'[j] = jobs[j] /\ issued'[j] = issued[j]
    BY <1>0, <1>1 DEF Lifecycle!Stay, Lifecycle!Keeps
  <1>2. ASSUME NEW r \in RetryLimits, jobs'[j] = Created(r), jobs[j].status = "none",
               issued'[j] = issued[j]
        PROVE  Lifecycle!Submit(j)
    BY <1>2 DEF Created, NoJob, Lifecycle!Submit, Lifecycle!Goes
  <1>3. ASSUME NEW n \in Nodes, jobs'[j] = Updated(jobs[j], AssignTo(n)),
               issued'[j] = issued[j]
        PROVE  Lifecycle!Place(j) \/ Lifecycle!Stay(j)
    BY <1>0, <1>3, AssignedFacts
       DEF Lifecycle!Place, Lifecycle!Stay, Lifecycle!Goes, Lifecycle!Keeps
  <1>4. ASSUME NEW code \in ExitCodes, jobs'[j] = Reported(jobs[j], code),
               jobs[j].status = "running", issued'[j] = issued[j]
        PROVE  Lifecycle!Succeed(j) \/ Lifecycle!Repeat(j) \/ Lifecycle!GiveUp(j)
    BY <1>0, <1>4, ReportedFacts
       DEF TakenBack, Ended, WithinBudget, MayRetry, Lifecycle!Goes, Lifecycle!Keeps,
           Lifecycle!Succeed, Lifecycle!Repeat, Lifecycle!GiveUp
  <1>5. ASSUME jobs'[j] = Recovered(jobs[j]), jobs[j].status \in {"running", "assigned"},
               issued'[j] = issued[j]
        PROVE  Lifecycle!Repeat(j) \/ Lifecycle!GiveUp(j) \/ Lifecycle!Withdraw(j)
    BY <1>0, <1>5, RecoveredFacts
       DEF TakenBack, Ended, WithinBudget, MayRetry, Lifecycle!Goes, Lifecycle!Keeps,
           Lifecycle!Repeat, Lifecycle!GiveUp, Lifecycle!Withdraw
  <1>6. ASSUME jobs'[j] = [jobs[j] EXCEPT !.started = "overdue"], issued'[j] = issued[j]
        PROVE  Lifecycle!Stay(j)
    BY <1>0, <1>6, OverdueFacts DEF Lifecycle!Stay, Lifecycle!Keeps
  <1>7. ASSUME jobs'[j] = Claimed(jobs[j], issued[j] + 1), jobs[j].status = "assigned",
               issued'[j] = issued[j] + 1
        PROVE  Lifecycle!Start(j)
    <2> DEFINE k == issued[j] + 1
    <2>1. k \in Nat /\ jobs'[j] = Claimed(jobs[j], k)
      BY <1>0, <1>7
    <2> HIDE DEF k
    <2>2. /\ Claimed(jobs[j], k).status = "running"
          /\ Claimed(jobs[j], k).maxRetries = jobs[j].maxRetries
      BY <1>0, <2>1, ClaimedFacts
    <2> QED BY <1>0, <1>7, <2>1, <2>2 DEF Lifecycle!Start, Lifecycle!Goes, WithinBudget
  <1> QED BY <1>0, <1>1, <1>2, <1>3, <1>4, <1>5, <1>6, <1>7
          DEF JobStepOf, ResultAccepted, Lifecycle!Move

\* With snapshots that age, requests that are lost or late and agents that crash,
\* the system still keeps the lifecycle's promise: a job ends once, a failed or
\* lost run is repeated at most MaxRetries times, and only the last permitted run
\* can fail it.
\* A PATCH that marks a job RUNNING or SUCCEEDED keeps none of it, so there are
\* none here.
THEOREM SystemImplementsLifecycle ==
    ASSUME Patches = {} PROVE Spec => Lifecycle!Spec
  <1>1. Init => Lifecycle!Init
    BY DEF Init, NoJob, Lifecycle!Init
  <1>2. JobSystemInv /\ JobSystemInv' /\ [Next]_vars => [Lifecycle!Next]_(Lifecycle!vars)
    <2> SUFFICES ASSUME JobSystemInv, JobSystemInv', [Next]_vars, NEW j \in Jobs
                 PROVE  Lifecycle!Move(j) \/ Lifecycle!Stay(j)
      BY DEF Lifecycle!Next
    <2>1. TypeOK /\ TypeOK' /\ Budgets
      BY DEF JobSystemInv
    <2>2. JobStepOf(j)
      BY <2>1, NextIsJobStep
    <2> QED BY <2>1, <2>2, JobStepIsMove
  <1> QED BY <1>1, <1>2, Invariant, PTL DEF Spec, Lifecycle!Spec
=============================================================================
