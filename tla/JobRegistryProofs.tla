------------------------- MODULE JobRegistryProofs -------------------------
(***************************************************************************)
(* Theorems about JobRegistry for any sets of jobs, nodes, exit codes,     *)
(* retry limits and PATCH requests; before them, lemmas about the          *)
(* operations on one job record (module Job).                              *)
(***************************************************************************)
EXTENDS JobRegistry, TLAPS

-----------------------------------------------------------------------------
(* Every operation on a record yields a record.                            *)

\* A newly created job is a job.
LEMMA CreatedType ==
    ASSUME NEW r \in Nat PROVE Created(r) \in Job /\ NoJob \in Job
  BY JobAssumption DEF Created, NoJob, Job, Statuses, StartTimes, NoExec

\* Update keeps the record well formed, the counters and the execution, and
\* never moves a job back to a waiting status.
LEMMA UpdatedFacts ==
    ASSUME NEW j \in Job, NEW p \in UpdateParams, j.status # "none"
    PROVE  LET u == Updated(j, p) IN
           /\ u \in Job
           /\ u.attempts = j.attempts /\ u.maxRetries = j.maxRetries
           /\ u.exec = j.exec /\ u.status # "none"
           /\ u.status \in {"pending", "assigned"} => j.status \in {"pending", "assigned"}
           /\ j.status \in Terminal => /\ u.status = j.status
                                       /\ u.node = j.node
                                       /\ u.result = j.result
  <1>1. p.status \in (Statuses \ {"none"}) \cup {Absent} /\ p.node \in Nodes \cup {NoNode, Absent}
        /\ p.started \in StartTimes /\ p.completed \in BOOLEAN
        /\ p.result \in ExitCodes \cup {NoResult}
    BY DEF UpdateParams
  <1>2. j.status \in Statuses /\ j.node \in Nodes \cup {NoNode} /\ j.exec \in Nat
        /\ j.started \in StartTimes /\ j.completed \in BOOLEAN /\ j.attempts \in Nat
        /\ j.maxRetries \in Nat /\ j.result \in ExitCodes \cup {NoResult}
    BY DEF Job
  <1>3. CASE StatusRejected(j, p)
    BY <1>3 DEF Updated
  <1>4. CASE ~StatusRejected(j, p)
    <2> DEFINE s == NextStatus(j, p)
    <2>1. s \in Statuses \ {"none"}
      BY <1>1, <1>2 DEF NextStatus
    <2>2. s \in {"pending", "assigned"} => j.status \in {"pending", "assigned"}
      BY <1>4, <1>2 DEF StatusRejected, NextStatus, isValidTransition, Statuses
    <2>3. j.status \in Terminal => s = j.status
      BY <1>4 DEF StatusRejected, NextStatus, isValidTransition, Terminal
    <2>4. CASE FieldsRejected(j, p)
      <3>1. Updated(j, p) = [j EXCEPT !.status = s]
        BY <1>4, <2>4 DEF Updated
      <3> QED BY <3>1, <2>1, <2>2, <2>3 DEF Job
    <2>5. CASE ~FieldsRejected(j, p)
      <3>1. Updated(j, p) = [j EXCEPT
                   !.status = s,
                   !.node = IF p.node = Absent THEN @ ELSE p.node,
                   !.started = IF p.started = "nil" THEN @ ELSE p.started,
                   !.completed = @ \/ p.completed,
                   !.result = IF p.result = NoResult THEN @ ELSE p.result]
        BY <1>4, <2>5 DEF Updated
      <3>2. (j.completed \/ p.completed) \in BOOLEAN
        BY <1>1, <1>2
      <3>3. Updated(j, p) \in Job
        BY <3>1, <3>2, <1>1, <2>1, JobAssumption DEF Job
      <3>4. j.status \in Terminal => p.node = Absent /\ p.result = NoResult
        BY <2>5 DEF FieldsRejected, SetsExecutionFields
      <3> QED BY <3>1, <3>3, <3>4, <2>1, <2>2, <2>3 DEF Job
    <2> QED BY <2>4, <2>5
  <1> QED BY <1>3, <1>4

\* Claim keeps the record well formed, counts the attempt and names the
\* execution.
LEMMA ClaimedFacts ==
    ASSUME NEW j \in Job, NEW e \in Nat
    PROVE  LET u == Claimed(j, e) IN
           /\ u \in Job /\ u.status = "running" /\ u.exec = e /\ u.started = "recent"
           /\ u.attempts = j.attempts + 1 /\ u.maxRetries = j.maxRetries
           /\ u.node = j.node /\ u.completed = j.completed /\ u.result = j.result
  <1>1. j.attempts + 1 \in Nat
    BY DEF Job
  <1>2. Claimed(j, e) \in Job
    BY <1>1 DEF Claimed, Job, Statuses, StartTimes
  <1> QED BY <1>2 DEF Claimed, Job

\* u is j, taken back for another execution.
TakenBack(j, u) ==
    /\ u.status = "pending" /\ u.node = NoNode /\ u.exec = NoExec /\ u.started = "nil"
    /\ u.completed = j.completed /\ u.result = j.result

\* u is j, ended with the given status and result.
Ended(j, u, status, code) ==
    /\ u.status = status /\ u.completed /\ u.result = code
    /\ u.node = j.node /\ u.exec = j.exec /\ u.started = j.started

\* Requeueing and finishing keep the record well formed and its counters.
LEMMA EndedFacts ==
    ASSUME NEW j \in Job, NEW s \in Terminal, NEW code \in ExitCodes
    PROVE  /\ Requeued(j) \in Job /\ TakenBack(j, Requeued(j))
           /\ Requeued(j).attempts = j.attempts /\ Requeued(j).maxRetries = j.maxRetries
           /\ Finished(j, s, code) \in Job /\ Ended(j, Finished(j, s, code), s, code)
           /\ Finished(j, s, code).attempts = j.attempts
           /\ Finished(j, s, code).maxRetries = j.maxRetries
  <1>1. Requeued(j) \in Job /\ Finished(j, s, code) \in Job
    BY DEF Requeued, Finished, Job, Statuses, StartTimes, Terminal, NoExec
  <1> QED BY <1>1 DEF Requeued, Finished, Job, TakenBack, Ended

\* A reported job is requeued within its budget or has ended with the
\* reported exit code.
LEMMA ReportedFacts ==
    ASSUME NEW j \in Job, NEW code \in ExitCodes
    PROVE  LET u == Reported(j, code) IN
           /\ u \in Job /\ u.attempts = j.attempts /\ u.maxRetries = j.maxRetries
           /\ \/ TakenBack(j, u) /\ MayRetry(j)
              \/ Ended(j, u, "succeeded", code)
              \/ Ended(j, u, "failed", code) /\ ~MayRetry(j)
  BY EndedFacts DEF Reported, Terminal

\* A recovered job is requeued within its budget or has failed with -1.
LEMMA RecoveredFacts ==
    ASSUME NEW j \in Job
    PROVE  LET u == Recovered(j) IN
           /\ u \in Job /\ u.attempts = j.attempts /\ u.maxRetries = j.maxRetries
           /\ \/ TakenBack(j, u) /\ MayRetry(j)
              \/ Ended(j, u, "failed", -1) /\ ~MayRetry(j)
  BY EndedFacts, JobAssumption DEF Recovered, Terminal

\* The clock changes nothing but the start time.
LEMMA OverdueFacts ==
    ASSUME NEW j \in Job
    PROVE  LET u == [j EXCEPT !.started = "overdue"] IN
           /\ u \in Job /\ u.started = "overdue"
           /\ u.status = j.status /\ u.node = j.node /\ u.exec = j.exec
           /\ u.attempts = j.attempts /\ u.maxRetries = j.maxRetries
           /\ u.completed = j.completed /\ u.result = j.result
  BY DEF Job, StartTimes

\* The parameters of an assignment are parameters of Update.
LEMMA AssignToType ==
    ASSUME NEW n \in Nodes PROVE AssignTo(n) \in UpdateParams
  BY JobAssumption DEF AssignTo, UpdateParams, Statuses, StartTimes

\* Assigning a pending job sets its status and node and nothing else.
LEMMA AssignedFacts ==
    ASSUME NEW r \in Job, NEW n \in Nodes, r.status = "pending"
    PROVE  LET u == Updated(r, AssignTo(n)) IN
           /\ UpdateAccepted(r, AssignTo(n))
           /\ u \in Job /\ u.status = "assigned" /\ u.node = n
           /\ u.exec = r.exec /\ u.started = r.started /\ u.completed = r.completed
           /\ u.attempts = r.attempts /\ u.maxRetries = r.maxRetries
           /\ u.result = r.result
  <1> DEFINE p == AssignTo(n)
  <1>1. /\ p.status = "assigned" /\ p.node = n /\ p.started = "nil"
        /\ p.completed = FALSE /\ p.result = NoResult
    BY DEF AssignTo
  <1>2. "assigned" # Absent /\ n # Absent
    BY JobAssumption DEF Statuses
  <1>3. ~StatusRejected(r, p)
    BY <1>1 DEF StatusRejected, isValidTransition
  <1>4. NextStatus(r, p) = "assigned"
    BY <1>1, <1>2 DEF NextStatus
  <1>5. ~FieldsRejected(r, p)
    BY <1>4 DEF FieldsRejected, Terminal
  <1>6. (r.completed \/ FALSE) = r.completed /\ p \in UpdateParams
    BY AssignToType DEF Job
  <1>7. Updated(r, p) = [r EXCEPT !.status = "assigned", !.node = n, !.started = r.started,
                                  !.completed = (r.completed \/ FALSE), !.result = r.result]
    BY <1>1, <1>2, <1>3, <1>4, <1>5 DEF Updated
  <1>8. Updated(r, p) \in Job
    BY <1>6, UpdatedFacts
  <1>9. UpdateAccepted(r, p)
    BY <1>3, <1>5 DEF UpdateAccepted
  <1> HIDE DEF p
  <1>10. QED
    BY <1>6, <1>7, <1>8, <1>9 DEF Job, p

-----------------------------------------------------------------------------
(* The retry budget.                                                       *)

\* Every operation keeps a job within its budget: Claim uses one execution up,
\* and a job is only requeued while its budget lasts.
LEMMA BudgetKept ==
    ASSUME NEW r \in Job, NEW k \in Nat, WithinBudget(r, k)
    PROVE  /\ r.status = "none" => \A m \in Nat : WithinBudget(Created(m), k)
           /\ r.status # "none" => \A p \in UpdateParams : WithinBudget(Updated(r, p), k)
           /\ r.status = "assigned" => WithinBudget(Claimed(r, k + 1), k + 1)
           /\ \A code \in ExitCodes : WithinBudget(Reported(r, code), k)
           /\ WithinBudget(Recovered(r), k)
           /\ WithinBudget([r EXCEPT !.started = "overdue"], k)
  <1>0. r.attempts \in Nat /\ r.maxRetries \in Nat
    BY DEF Job
  <1>1. ASSUME r.status = "none", NEW m \in Nat PROVE WithinBudget(Created(m), k)
    BY <1>1 DEF WithinBudget, Created, NoJob
  <1>2. ASSUME r.status # "none", NEW p \in UpdateParams PROVE WithinBudget(Updated(r, p), k)
    BY <1>2, UpdatedFacts DEF WithinBudget
  <1>3. ASSUME r.status = "assigned" PROVE WithinBudget(Claimed(r, k + 1), k + 1)
    <2> DEFINE e == k + 1
               u == Claimed(r, e)
    <2>1. e \in Nat
      OBVIOUS
    <2> HIDE DEF e
    <2>2. u.status = "running" /\ u.attempts = r.attempts + 1 /\ u.maxRetries = r.maxRetries
      BY <2>1, ClaimedFacts
    <2> HIDE DEF u
    <2>3. WithinBudget(u, k + 1)
      BY <1>0, <1>3, <2>2 DEF WithinBudget
    <2> QED BY <2>3 DEF u, e
  <1>4. ASSUME NEW code \in ExitCodes PROVE WithinBudget(Reported(r, code), k)
    BY <1>0, ReportedFacts DEF WithinBudget, MayRetry, TakenBack, Ended
  <1>5. WithinBudget(Recovered(r), k)
    BY <1>0, RecoveredFacts DEF WithinBudget, MayRetry, TakenBack, Ended
  <1>6. WithinBudget([r EXCEPT !.started = "overdue"], k)
    BY OverdueFacts DEF WithinBudget
  <1> QED BY <1>1, <1>2, <1>3, <1>4, <1>5, <1>6

-----------------------------------------------------------------------------
(* Type correctness, with PATCH.                                           *)

\* Events the registry writes are events.
LEMMA EventType ==
    ASSUME NEW type \in EventTypes, NEW old \in Job, NEW new \in Job,
           NEW n \in Nodes \cup {NoNode}, NEW e \in Nat
    PROVE  /\ Event(type, old, new, n, e) \in JobEvent
           /\ Event(type, old, new, n, e).from = old.status
           /\ Event(type, old, new, n, e).to = new.status
           /\ Event(type, old, new, n, e).type = type
  BY DEF Event, JobEvent, Job

\* A step of the registry with the invariant TypeOK keeps it.
LEMMA TypeStep == TypeOK /\ [Next]_vars => TypeOK'
  <1> SUFFICES ASSUME TypeOK, [Next]_vars PROVE TypeOK'
    OBVIOUS
  <1> USE DEF TypeOK
  <1>1. ASSUME NEW j \in Jobs, NEW r \in RetryLimits, Create(j, r) PROVE TypeOK'
    <2>1. Created(r) \in Job
      BY CreatedType, RegistryAssumption
    <2>2. Event("CREATED", jobs[j], Created(r), NoNode, NoExec) \in JobEvent
      <3>1. jobs[j] \in Job /\ NoExec \in Nat /\ NoNode \in Nodes \cup {NoNode}
        BY DEF NoExec
      <3>2. "CREATED" \in EventTypes
        BY DEF EventTypes
      <3> QED BY <2>1, <3>1, <3>2, EventType
    <2> QED BY <1>1, <2>1, <2>2 DEF Create, LogFor
  <1>2. ASSUME NEW j \in Jobs, NEW p \in UpdateParams, Update(j, p) PROVE TypeOK'
    <2> DEFINE new == Updated(jobs[j], p)
    <2>1. new \in Job
      BY <1>2, UpdatedFacts DEF Update
    <2>2. Event("ASSIGNED", jobs[j], new, new.node, NoExec) \in JobEvent
      <3>1. new.node \in Nodes \cup {NoNode} /\ jobs[j] \in Job /\ NoExec \in Nat
        BY <2>1 DEF Job, NoExec
      <3>2. "ASSIGNED" \in EventTypes
        BY DEF EventTypes
      <3> QED BY <2>1, <3>1, <3>2, EventType
    <2> QED BY <1>2, <2>1, <2>2 DEF Update, LogFor
  <1>3. ASSUME NEW j \in Jobs, NEW n \in Nodes, Claim(j, n) PROVE TypeOK'
    <2> DEFINE e == issued[j] + 1
    <2>0. e \in Nat /\ jobs[j] \in Job
      OBVIOUS
    <2>1. e \in Nat /\ Claimed(jobs[j], e) \in Job
      BY <2>0, ClaimedFacts
    <2>2. Event("CLAIMED", jobs[j], Claimed(jobs[j], e), n, e) \in JobEvent
      BY <2>1, EventType DEF EventTypes
    <2> QED BY <1>3, <2>1, <2>2 DEF Claim, LogFor
  <1>4. ASSUME NEW j \in Jobs, NEW n \in Nodes, NEW code \in ExitCodes,
               NEW e \in 1..issued[j], ReportResult(j, n, e, code) PROVE TypeOK'
    <2> DEFINE new == Reported(jobs[j], code)
    <2>1. new \in Job
      BY ReportedFacts
    <2>2. Event(ReportType(new), jobs[j], new, n, e) \in JobEvent
      BY <2>1, EventType DEF EventTypes, ReportType
    <2> QED BY <1>4, <2>1, <2>2 DEF ReportResult, LogFor
  <1>5. ASSUME NEW S \in SUBSET Jobs, RecoverAll(S) PROVE TypeOK'
    <2>1. ASSUME NEW j \in Jobs
          PROVE  /\ Recovered(jobs[j]) \in Job
                 /\ Event(RecoverType(Recovered(jobs[j])), jobs[j], Recovered(jobs[j]),
                          jobs[j].node, jobs[j].exec) \in JobEvent
      <3>1. Recovered(jobs[j]) \in Job
        BY RecoveredFacts
      <3>2. jobs[j].node \in Nodes \cup {NoNode} /\ jobs[j].exec \in Nat
        BY DEF Job
      <3> QED BY <3>1, <3>2, EventType DEF EventTypes, RecoverType
    <2> QED BY <1>5, <2>1 DEF RecoverAll
  <1>6. ASSUME NEW j \in Jobs, ExecutionOverdue(j) PROVE TypeOK'
    BY <1>6, ZenonT(40) DEF ExecutionOverdue, Job, StartTimes
  <1>7. CASE UNCHANGED vars
    BY <1>7 DEF vars
  <1> QED BY <1>1, <1>2, <1>3, <1>4, <1>5, <1>6, <1>7, AssignToType, RegistryAssumption
          DEF Next, CoreNext, PatchNext, Assign, RecoverExecutionTimeouts, RecoverNodeJobs

\* Jobs, events and counters of the registry are always well formed, also
\* when clients PATCH jobs.
THEOREM TypeCorrect == Spec => []TypeOK
  <1>1. Init => TypeOK
    BY CreatedType, JobAssumption DEF Init, TypeOK, NoJob, Job, Statuses, StartTimes, NoExec
  <1> QED BY <1>1, TypeStep, PTL DEF Spec

-----------------------------------------------------------------------------
(* The retry budget, with PATCH.                                           *)

\* A step of the registry keeps every job within its budget.
LEMMA BudgetStep == TypeOK /\ RetryBudget /\ [Next]_vars => RetryBudget'
  <1> SUFFICES ASSUME TypeOK, RetryBudget, [Next]_vars, NEW j \in Jobs
               PROVE  WithinBudget(jobs'[j], issued'[j])
    BY DEF RetryBudget
  <1> USE DEF TypeOK
  <1>0. jobs[j] \in Job /\ issued[j] \in Nat /\ WithinBudget(jobs[j], issued[j])
    BY DEF RetryBudget
  <1>1. ASSUME NEW i \in Jobs, NEW r \in RetryLimits, Create(i, r)
        PROVE  WithinBudget(jobs'[j], issued'[j])
    BY <1>0, <1>1, BudgetKept, RegistryAssumption DEF Create
  <1>2. ASSUME NEW i \in Jobs, NEW p \in UpdateParams, Update(i, p)
        PROVE  WithinBudget(jobs'[j], issued'[j])
    BY <1>0, <1>2, BudgetKept DEF Update
  <1>3. ASSUME NEW i \in Jobs, NEW n \in Nodes, Claim(i, n)
        PROVE  WithinBudget(jobs'[j], issued'[j])
    BY <1>0, <1>3, BudgetKept DEF Claim, ClaimAllowed
  <1>4. ASSUME NEW i \in Jobs, NEW n \in Nodes, NEW code \in ExitCodes,
               NEW e \in 1..issued[i], ReportResult(i, n, e, code)
        PROVE  WithinBudget(jobs'[j], issued'[j])
    BY <1>0, <1>4, BudgetKept DEF ReportResult
  <1>5. ASSUME NEW S \in SUBSET Jobs, RecoverAll(S)
        PROVE  WithinBudget(jobs'[j], issued'[j])
    BY <1>0, <1>5, BudgetKept DEF RecoverAll
  <1>6. ASSUME NEW i \in Jobs, ExecutionOverdue(i)
        PROVE  WithinBudget(jobs'[j], issued'[j])
    BY <1>0, <1>6, BudgetKept DEF ExecutionOverdue
  <1>7. CASE UNCHANGED vars
    BY <1>0, <1>7 DEF vars
  <1> QED BY <1>1, <1>2, <1>3, <1>4, <1>5, <1>6, <1>7, AssignToType, RegistryAssumption
          DEF Next, CoreNext, PatchNext, Assign, RecoverExecutionTimeouts, RecoverNodeJobs

\* No job is ever handed out more than MaxRetries + 1 times, with any
\* number of nodes, agents, lost executions and PATCH requests.
THEOREM BudgetHolds == Spec => []RetryBudget
  <1>1. Init => RetryBudget
    BY DEF Init, RetryBudget, WithinBudget, NoJob
  <1> QED BY <1>1, BudgetStep, TypeCorrect, PTL DEF Spec

-----------------------------------------------------------------------------
(* Action properties, with PATCH.                                          *)

\* What one step of the registry can do to one job's record.
StepOf(j) ==
    \/ jobs'[j] = jobs[j]
    \/ jobs[j].status = "none" /\ \E r \in RetryLimits : jobs'[j] = Created(r)
    \/ jobs[j].status # "none" /\ \E p \in UpdateParams : jobs'[j] = Updated(jobs[j], p)
    \/ jobs[j].status = "assigned" /\ jobs'[j] = Claimed(jobs[j], issued[j] + 1)
    \/ jobs[j].status = "running" /\ \E code \in ExitCodes : jobs'[j] = Reported(jobs[j], code)
    \/ jobs[j].status \in {"running", "assigned"} /\ jobs'[j] = Recovered(jobs[j])
    \/ jobs'[j] = [jobs[j] EXCEPT !.started = "overdue"]

\* Every step of the registry, seen from one job, is an operation on its
\* record that the record's status permits, or leaves it alone.
LEMMA StepIsStepOf ==
    ASSUME TypeOK, [Next]_vars, NEW j \in Jobs PROVE StepOf(j)
  <1> USE DEF TypeOK
  <1>1. ASSUME NEW i \in Jobs, NEW r \in RetryLimits, Create(i, r) PROVE StepOf(j)
    BY <1>1 DEF Create, StepOf
  <1>2. ASSUME NEW i \in Jobs, NEW p \in UpdateParams, Update(i, p) PROVE StepOf(j)
    BY <1>2 DEF Update, StepOf
  <1>3. ASSUME NEW i \in Jobs, NEW n \in Nodes, Claim(i, n) PROVE StepOf(j)
    BY <1>3 DEF Claim, ClaimAllowed, StepOf
  <1>4. ASSUME NEW i \in Jobs, NEW n \in Nodes, NEW code \in ExitCodes,
               NEW e \in 1..issued[i], ReportResult(i, n, e, code)
        PROVE  StepOf(j)
    BY <1>4 DEF ReportResult, ResultAccepted, StepOf
  <1>5. ASSUME NEW S \in SUBSET Jobs, RecoverAll(S),
               \A i \in S : jobs[i].status \in {"running", "assigned"}
        PROVE  StepOf(j)
    BY <1>5 DEF RecoverAll, StepOf
  <1>6. ASSUME NEW i \in Jobs, ExecutionOverdue(i) PROVE StepOf(j)
    BY <1>6 DEF ExecutionOverdue, StepOf
  <1>7. CASE UNCHANGED vars
    BY <1>7 DEF vars, StepOf
  <1>8. RecoverExecutionTimeouts => StepOf(j)
    BY <1>5 DEF RecoverExecutionTimeouts, TimedOut
  <1>9. ASSUME NEW n \in Nodes, RecoverNodeJobs(n) PROVE StepOf(j)
    BY <1>5, <1>9 DEF RecoverNodeJobs, HeldBy
  <1> QED BY <1>1, <1>2, <1>3, <1>4, <1>6, <1>7, <1>8, <1>9, AssignToType, RegistryAssumption
          DEF Next, CoreNext, PatchNext, Assign

\* The outcome of a job that has ended never changes, with any interleaving
\* of reports, recoveries and PATCH requests.
THEOREM FrozenHolds == Spec => TerminalFrozen
  <1>1. ASSUME TypeOK, [Next]_vars, NEW j \in Jobs, jobs[j].status \in Terminal
        PROVE  /\ jobs'[j].status = jobs[j].status
               /\ jobs'[j].exec = jobs[j].exec
               /\ jobs'[j].node = jobs[j].node
               /\ jobs'[j].result = jobs[j].result
    <2>1. StepOf(j) /\ jobs[j] \in Job
      BY <1>1, StepIsStepOf DEF TypeOK
    <2>2. jobs[j].status \notin {"none", "assigned", "running"}
      BY <1>1 DEF Terminal
    <2>3. ASSUME NEW p \in UpdateParams, jobs'[j] = Updated(jobs[j], p)
          PROVE  /\ jobs'[j].status = jobs[j].status
                 /\ jobs'[j].exec = jobs[j].exec
                 /\ jobs'[j].node = jobs[j].node
                 /\ jobs'[j].result = jobs[j].result
      BY <1>1, <2>1, <2>2, <2>3, UpdatedFacts
    <2>4. CASE jobs'[j] = [jobs[j] EXCEPT !.started = "overdue"]
      BY <2>1, <2>4 DEF Job
    <2> QED BY <2>1, <2>2, <2>3, <2>4 DEF StepOf
  <1>2. TypeOK /\ [Next]_vars =>
          [\A j \in Jobs : jobs[j].status \in Terminal =>
             /\ jobs'[j].status = jobs[j].status
             /\ jobs'[j].exec = jobs[j].exec
             /\ jobs'[j].node = jobs[j].node
             /\ jobs'[j].result = jobs[j].result]_vars
    BY <1>1
  <1> QED BY <1>2, TypeCorrect, PTL DEF Spec, TerminalFrozen

\* An ExecutionID that was taken from a job never becomes its current one
\* again: fencing by ExecutionID is sound for any number of attempts.
THEOREM FencingHolds == Spec => ExecutionsNeverReturn
  <1>1. ASSUME TypeOK, [Next]_vars, NEW j \in Jobs, jobs'[j].exec # jobs[j].exec
        PROVE  jobs'[j].exec = NoExec \/ jobs'[j].exec > issued[j]
    <2>1. StepOf(j) /\ jobs[j] \in Job /\ issued[j] \in Nat
      BY <1>1, StepIsStepOf DEF TypeOK
    <2>2. ASSUME NEW r \in RetryLimits, jobs'[j] = Created(r) PROVE jobs'[j].exec = NoExec
      BY <2>2 DEF Created, NoJob
    <2>3. ASSUME NEW p \in UpdateParams, jobs'[j] = Updated(jobs[j], p), jobs[j].status # "none"
          PROVE  jobs'[j].exec = jobs[j].exec
      BY <2>1, <2>3, UpdatedFacts
    <2>4. CASE jobs'[j] = Claimed(jobs[j], issued[j] + 1)
      BY <2>1, <2>4 DEF Claimed, Job
    <2>5. ASSUME NEW code \in ExitCodes, jobs'[j] = Reported(jobs[j], code)
          PROVE  jobs'[j].exec \in {NoExec, jobs[j].exec}
      BY <2>1, <2>5, ReportedFacts DEF TakenBack, Ended
    <2>6. CASE jobs'[j] = Recovered(jobs[j])
      BY <1>1, <2>1, <2>6, RecoveredFacts DEF TakenBack, Ended
    <2>7. CASE jobs'[j] = [jobs[j] EXCEPT !.started = "overdue"]
      BY <1>1, <2>1, <2>7 DEF Job
    <2> QED BY <1>1, <2>1, <2>2, <2>3, <2>4, <2>5, <2>6, <2>7 DEF StepOf
  <1>2. TypeOK /\ [Next]_vars =>
          [\A j \in Jobs : jobs'[j].exec # jobs[j].exec =>
             jobs'[j].exec = NoExec \/ jobs'[j].exec > issued[j]]_vars
    BY <1>1
  <1> QED BY <1>2, TypeCorrect, PTL DEF Spec, ExecutionsNeverReturn

-----------------------------------------------------------------------------
(* The registry as scheduler and agents use it, without PATCH.             *)

\* The step leaves job j alone.
Untouched(j) == jobs'[j] = jobs[j] /\ events'[j] = events[j] /\ issued'[j] = issued[j]

\* The step adds one event to the log of job j, the first one for its creation.
Logs(j) ==
    \E type \in EventTypes, n \in Nodes \cup {NoNode}, e \in Nat :
        /\ jobs[j].status = "none" => type = "CREATED"
        /\ events'[j] = Append(events[j], Event(type, jobs[j], jobs'[j], n, e))

\* What one step can do to the record of job j when it logs.
Operates(j) ==
    \/ /\ jobs[j].status = "none" /\ issued'[j] = issued[j]
       /\ \E r \in RetryLimits : jobs'[j] = Created(r)
    \/ /\ jobs[j].status = "pending" /\ issued'[j] = issued[j]
       /\ \E n \in Nodes : jobs'[j] = Updated(jobs[j], AssignTo(n))
    \/ /\ jobs[j].status = "assigned" /\ issued'[j] = issued[j] + 1
       /\ jobs'[j] = Claimed(jobs[j], issued[j] + 1)
    \/ /\ jobs[j].status = "running" /\ issued'[j] = issued[j]
       /\ \E code \in ExitCodes : jobs'[j] = Reported(jobs[j], code)
    \/ /\ jobs[j].status \in {"running", "assigned"} /\ issued'[j] = issued[j]
       /\ jobs'[j] = Recovered(jobs[j])

\* The execution of job j becomes overdue.
Ages(j) ==
    /\ jobs[j].started = "recent" /\ jobs'[j] = [jobs[j] EXCEPT !.started = "overdue"]
    /\ events'[j] = events[j] /\ issued'[j] = issued[j]

CoreOf(j) == Untouched(j) \/ Ages(j) \/ (Operates(j) /\ Logs(j))

\* A step without PATCH is, seen from one job, nothing, the clock, or one
\* operation its status permits together with the event of that operation.
LEMMA CoreStepOf ==
    ASSUME TypeOK, [CoreNext]_vars, NEW j \in Jobs PROVE CoreOf(j)
  <1> USE DEF TypeOK
  <1>0. jobs[j] \in Job /\ issued[j] \in Nat
    OBVIOUS
  <1>1. ASSUME NEW i \in Jobs, NEW r \in RetryLimits, Create(i, r) PROVE CoreOf(j)
    <2>1. CASE i # j
      BY <1>1, <2>1 DEF Create, LogFor, CoreOf, Untouched
    <2>2. CASE i = j
      <3>1. Operates(j)
        BY <1>1, <2>2 DEF Create, Operates
      <3>2. events'[j] = Append(events[j], Event("CREATED", jobs[j], jobs'[j], NoNode, NoExec))
        BY <1>1, <2>2 DEF Create, LogFor
      <3>3. Logs(j)
        BY <3>2 DEF Logs, EventTypes, NoExec
      <3> QED BY <3>1, <3>3 DEF CoreOf
    <2> QED BY <2>1, <2>2
  <1>2. ASSUME NEW i \in Jobs, NEW n \in Nodes, Assign(i, n) PROVE CoreOf(j)
    <2>1. CASE i # j
      BY <1>2, <2>1 DEF Assign, Update, LogFor, CoreOf, Untouched
    <2>2. CASE i = j
      <3>1. Operates(j) /\ jobs'[j] = Updated(jobs[j], AssignTo(n)) /\ jobs[j].status = "pending"
        BY <1>2, <2>2 DEF Assign, Update, Operates
      <3>2. UpdateAccepted(jobs[j], AssignTo(n)) /\ jobs'[j].status = "assigned" /\ jobs'[j].node = n
        BY <3>1, <1>0, AssignedFacts
      <3>3. UpdateLogs(jobs[j], jobs'[j], AssignTo(n))
        BY <3>1, <3>2 DEF UpdateLogs
      <3>4. events'[j] = Append(events[j], Event("ASSIGNED", jobs[j], jobs'[j], n, NoExec))
        BY <1>2, <2>2, <3>1, <3>2, <3>3 DEF Assign, Update, LogFor
      <3>5. Logs(j)
        BY <3>1, <3>4 DEF Logs, EventTypes, NoExec
      <3> QED BY <3>1, <3>5 DEF CoreOf
    <2> QED BY <2>1, <2>2
  <1>3. ASSUME NEW i \in Jobs, NEW n \in Nodes, Claim(i, n) PROVE CoreOf(j)
    <2>1. CASE i # j
      BY <1>3, <2>1 DEF Claim, LogFor, CoreOf, Untouched
    <2>2. CASE i = j
      <3>1. Operates(j) /\ jobs[j].status = "assigned"
        BY <1>3, <2>2 DEF Claim, ClaimAllowed, Operates
      <3>2. events'[j] = Append(events[j], Event("CLAIMED", jobs[j], jobs'[j], n, issued[j] + 1))
        BY <1>3, <2>2 DEF Claim, LogFor
      <3>3. Logs(j)
        BY <3>1, <3>2, <1>0 DEF Logs, EventTypes
      <3> QED BY <3>1, <3>3 DEF CoreOf
    <2> QED BY <2>1, <2>2
  <1>4. ASSUME NEW i \in Jobs, NEW n \in Nodes, NEW code \in ExitCodes,
               NEW e \in 1..issued[i], ReportResult(i, n, e, code)
        PROVE  CoreOf(j)
    <2>1. CASE i # j
      BY <1>4, <2>1 DEF ReportResult, LogFor, CoreOf, Untouched
    <2>2. CASE i = j
      <3>1. Operates(j) /\ jobs[j].status = "running"
        BY <1>4, <2>2 DEF ReportResult, ResultAccepted, Operates
      <3>2. events'[j] = Append(events[j], Event(ReportType(jobs'[j]), jobs[j], jobs'[j], n, e))
        BY <1>4, <2>2 DEF ReportResult, LogFor
      <3>3. ReportType(jobs'[j]) \in EventTypes /\ e \in Nat
        BY <1>0, <2>2 DEF ReportType, EventTypes
      <3>4. Logs(j)
        BY <3>1, <3>2, <3>3 DEF Logs
      <3> QED BY <3>1, <3>4 DEF CoreOf
    <2> QED BY <2>1, <2>2
  <1>5. ASSUME NEW S \in SUBSET Jobs, RecoverAll(S),
               \A i \in S : jobs[i].status \in {"running", "assigned"}
        PROVE  CoreOf(j)
    <2>1. CASE j \notin S
      BY <1>5, <2>1 DEF RecoverAll, CoreOf, Untouched
    <2>2. CASE j \in S
      <3>1. Operates(j) /\ jobs[j].status # "none"
        BY <1>5, <2>2 DEF RecoverAll, Operates
      <3>2. events'[j] = Append(events[j], Event(RecoverType(jobs'[j]), jobs[j], jobs'[j],
                                                 jobs[j].node, jobs[j].exec))
        BY <1>5, <2>2 DEF RecoverAll
      <3>3. /\ RecoverType(jobs'[j]) \in EventTypes
            /\ jobs[j].node \in Nodes \cup {NoNode} /\ jobs[j].exec \in Nat
        BY <1>0 DEF RecoverType, EventTypes, Job
      <3>4. Logs(j)
        BY <3>1, <3>2, <3>3 DEF Logs
      <3> QED BY <3>1, <3>4 DEF CoreOf
    <2> QED BY <2>1, <2>2
  <1>6. ASSUME NEW i \in Jobs, ExecutionOverdue(i) PROVE CoreOf(j)
    BY <1>6 DEF ExecutionOverdue, CoreOf, Untouched, Ages
  <1>7. CASE UNCHANGED vars
    BY <1>7 DEF vars, CoreOf, Untouched
  <1>8. RecoverExecutionTimeouts => CoreOf(j)
    BY <1>5 DEF RecoverExecutionTimeouts, TimedOut
  <1>9. ASSUME NEW n \in Nodes, RecoverNodeJobs(n) PROVE CoreOf(j)
    BY <1>5, <1>9 DEF RecoverNodeJobs, HeldBy
  <1> QED BY <1>1, <1>2, <1>3, <1>4, <1>6, <1>7, <1>8, <1>9 DEF CoreNext

\* Without PATCH the registry still is the registry.
LEMMA CoreIsSpec == CoreSpec => []TypeOK /\ []RetryBudget
  <1>1. [CoreNext]_vars => [Next]_vars
    BY DEF Next
  <1>2. CoreSpec => Spec
    BY <1>1, PTL DEF CoreSpec, Spec
  <1> QED BY <1>2, TypeCorrect, BudgetHolds, PTL

\* An operation keeps the fields of the record in step with its status.
LEMMA FieldsStep ==
    ASSUME TypeOK, ExecutionFieldsMatchStatus, [CoreNext]_vars, NEW j \in Jobs
    PROVE  FieldsMatch(jobs'[j], issued'[j])
  <1>0. jobs[j] \in Job /\ issued[j] \in Nat /\ FieldsMatch(jobs[j], issued[j])
    BY DEF TypeOK, ExecutionFieldsMatchStatus
  <1>1. CASE Untouched(j)
    BY <1>0, <1>1 DEF Untouched
  <1>2. CASE Ages(j)
    BY <1>0, <1>2, OverdueFacts DEF Ages, FieldsMatch
  <1>3. ASSUME NEW r \in RetryLimits, jobs'[j] = Created(r)
        PROVE  FieldsMatch(jobs'[j], issued'[j])
    BY <1>3 DEF Created, NoJob, FieldsMatch, Terminal
  <1>4. ASSUME NEW n \in Nodes, jobs'[j] = Updated(jobs[j], AssignTo(n)),
               jobs[j].status = "pending"
        PROVE  FieldsMatch(jobs'[j], issued'[j])
    BY <1>0, <1>4, AssignedFacts DEF FieldsMatch, Terminal
  <1>5. ASSUME jobs[j].status = "assigned", issued'[j] = issued[j] + 1,
               jobs'[j] = Claimed(jobs[j], issued[j] + 1)
        PROVE  FieldsMatch(jobs'[j], issued'[j])
    <2> DEFINE k == issued[j] + 1
    <2>1. k \in Nat /\ k # 0 /\ jobs'[j] = Claimed(jobs[j], k) /\ issued'[j] = k
      BY <1>0, <1>5
    <2> HIDE DEF k
    <2>2. /\ jobs'[j].status = "running" /\ jobs'[j].exec = k /\ jobs'[j].started = "recent"
          /\ jobs'[j].node = jobs[j].node /\ jobs'[j].completed = jobs[j].completed
          /\ jobs'[j].result = jobs[j].result
      BY <1>0, <2>1, ClaimedFacts
    <2>3. jobs[j].node \in Nodes /\ ~jobs[j].completed /\ jobs[j].result = NoResult
      BY <1>0, <1>5 DEF FieldsMatch, Terminal
    <2> QED BY <2>1, <2>2, <2>3 DEF FieldsMatch, Terminal, NoExec
  <1>6. ASSUME NEW code \in ExitCodes, jobs'[j] = Reported(jobs[j], code),
               jobs[j].status = "running"
        PROVE  FieldsMatch(jobs'[j], issued'[j])
    BY <1>0, <1>6, ReportedFacts, JobAssumption
       DEF FieldsMatch, Terminal, TakenBack, Ended
  <1>7. ASSUME jobs'[j] = Recovered(jobs[j]), jobs[j].status \in {"running", "assigned"}
        PROVE  FieldsMatch(jobs'[j], issued'[j])
    BY <1>0, <1>7, RecoveredFacts, JobAssumption
       DEF FieldsMatch, Terminal, TakenBack, Ended
  <1> QED BY <1>1, <1>2, <1>3, <1>4, <1>5, <1>6, <1>7, CoreStepOf DEF CoreOf, Operates

\* A waiting job carries nothing of an earlier execution, a running one can
\* be fenced and can time out, and a job is completed exactly when terminal.
THEOREM FieldsHold == CoreSpec => []ExecutionFieldsMatchStatus
  <1>1. Init => ExecutionFieldsMatchStatus
    BY DEF Init, ExecutionFieldsMatchStatus, FieldsMatch, NoJob, Terminal
  <1>2. TypeOK /\ ExecutionFieldsMatchStatus /\ [CoreNext]_vars => ExecutionFieldsMatchStatus'
    BY FieldsStep DEF ExecutionFieldsMatchStatus
  <1> QED BY <1>1, <1>2, CoreIsSpec, PTL DEF CoreSpec

\* Every operation that logs is a transition to another status.
LEMMA OperationMoves ==
    ASSUME NEW j \in Jobs, jobs[j] \in Job, issued[j] \in Nat, Operates(j)
    PROVE  jobs'[j].status # jobs[j].status /\ jobs'[j].status # "none"
  <1>1. ASSUME NEW r \in RetryLimits, jobs'[j] = Created(r), jobs[j].status = "none"
        PROVE  jobs'[j].status # jobs[j].status /\ jobs'[j].status # "none"
    BY <1>1 DEF Created, NoJob
  <1>2. ASSUME NEW n \in Nodes, jobs'[j] = Updated(jobs[j], AssignTo(n)),
               jobs[j].status = "pending"
        PROVE  jobs'[j].status # jobs[j].status /\ jobs'[j].status # "none"
    BY <1>2, AssignedFacts
  <1>3. ASSUME jobs'[j] = Claimed(jobs[j], issued[j] + 1), jobs[j].status = "assigned"
        PROVE  jobs'[j].status # jobs[j].status /\ jobs'[j].status # "none"
    <2> DEFINE k == issued[j] + 1
    <2>1. k \in Nat /\ jobs'[j] = Claimed(jobs[j], k)
      BY <1>3
    <2> HIDE DEF k
    <2> QED BY <1>3, <2>1, ClaimedFacts
  <1>4. ASSUME NEW code \in ExitCodes, jobs'[j] = Reported(jobs[j], code),
               jobs[j].status = "running"
        PROVE  jobs'[j].status # jobs[j].status /\ jobs'[j].status # "none"
    BY <1>4, ReportedFacts DEF TakenBack, Ended
  <1>5. ASSUME jobs'[j] = Recovered(jobs[j]), jobs[j].status \in {"running", "assigned"}
        PROVE  jobs'[j].status # jobs[j].status /\ jobs'[j].status # "none"
    BY <1>5, RecoveredFacts DEF TakenBack, Ended
  <1> QED BY <1>1, <1>2, <1>3, <1>4, <1>5 DEF Operates

\* Appending a transition that continues from the current status keeps a log
\* complete.
LEMMA LogGrows ==
    ASSUME NEW log \in Seq(JobEvent), NEW s, NEW e \in JobEvent,
           LogAccounts(log, s), e.from = s, e.to # s, e.to # "none",
           s = "none" => e.type = "CREATED"
    PROVE  LogAccounts(Append(log, e), e.to)
  <1> DEFINE new == Append(log, e)
  <1>1. /\ Len(new) = Len(log) + 1 /\ Len(log) \in Nat /\ new # <<>>
        /\ \A k \in 1..Len(log) : new[k] = log[k]
        /\ new[Len(log) + 1] = e
        /\ log = <<>> <=> Len(log) = 0
    OBVIOUS
  <1> HIDE DEF new
  <1>2. new[1].type = "CREATED" /\ new[Len(new)].to = e.to
    <2>1. CASE log = <<>>
      BY <1>1, <2>1 DEF LogAccounts
    <2>2. CASE log # <<>>
      <3>1. 1 \in 1..Len(log)
        BY <1>1, <2>2
      <3> QED BY <1>1, <2>2, <3>1 DEF LogAccounts
    <2> QED BY <2>1, <2>2
  <1>3. ASSUME NEW k \in 1..Len(new) PROVE new[k].from # new[k].to
    <2>1. CASE k \in 1..Len(log)
      BY <1>1, <2>1 DEF LogAccounts
    <2>2. CASE k = Len(log) + 1
      BY <1>1, <2>2
    <2> QED BY <1>1, <2>1, <2>2
  <1>4. ASSUME NEW k \in 1..(Len(new) - 1) PROVE new[k].to = new[k + 1].from
    <2>1. CASE k = Len(log)
      BY <1>1, <2>1 DEF LogAccounts
    <2>2. CASE k # Len(log)
      <3>1. k \in 1..(Len(log) - 1) /\ k \in 1..Len(log) /\ k + 1 \in 1..Len(log)
        BY <1>1, <2>2
      <3> QED BY <1>1, <3>1 DEF LogAccounts
    <2> QED BY <2>1, <2>2
  <1> QED BY <1>1, <1>2, <1>3, <1>4 DEF LogAccounts, new

\* The event log is a complete account of every job's life, for any number of
\* attempts, timeouts and lost nodes.
THEOREM LogHolds == CoreSpec => []EventLogComplete
  <1>1. Init => EventLogComplete
    BY DEF Init, EventLogComplete, LogAccounts, NoJob
  <1>2. ASSUME TypeOK, TypeOK', EventLogComplete, [CoreNext]_vars, NEW j \in Jobs
        PROVE  LogAccounts(events'[j], jobs'[j].status)
    <2>0. /\ jobs[j] \in Job /\ jobs'[j] \in Job /\ issued[j] \in Nat
          /\ events[j] \in Seq(JobEvent) /\ LogAccounts(events[j], jobs[j].status)
      BY <1>2 DEF TypeOK, EventLogComplete
    <2>1. CASE Untouched(j)
      BY <2>0, <2>1 DEF Untouched
    <2>2. CASE Ages(j)
      BY <2>0, <2>2, OverdueFacts DEF Ages
    <2>3. CASE Operates(j) /\ Logs(j)
      <3>1. jobs'[j].status # jobs[j].status /\ jobs'[j].status # "none"
        BY <2>0, <2>3, OperationMoves
      <3>2. PICK type \in EventTypes, n \in Nodes \cup {NoNode}, e \in Nat :
              /\ jobs[j].status = "none" => type = "CREATED"
              /\ events'[j] = Append(events[j], Event(type, jobs[j], jobs'[j], n, e))
        BY <2>3 DEF Logs
      <3> DEFINE ev == Event(type, jobs[j], jobs'[j], n, e)
      <3>3. ev \in JobEvent /\ ev.from = jobs[j].status /\ ev.to = jobs'[j].status /\ ev.type = type
        <4> DEFINE old == jobs[j]
                   new == jobs'[j]
        <4>1. old \in Job /\ new \in Job
          BY <2>0
        <4> HIDE DEF old, new
        <4>2. /\ Event(type, old, new, n, e) \in JobEvent
              /\ Event(type, old, new, n, e).from = old.status
              /\ Event(type, old, new, n, e).to = new.status
              /\ Event(type, old, new, n, e).type = type
          BY <4>1, EventType
        <4> QED BY <4>2 DEF old, new
      <3> HIDE DEF ev
      <3>4. LogAccounts(Append(events[j], ev), ev.to)
        BY <2>0, <3>1, <3>2, <3>3, LogGrows
      <3> QED BY <3>2, <3>3, <3>4 DEF ev
    <2> QED BY <1>2, <2>1, <2>2, <2>3, CoreStepOf DEF CoreOf
  <1>3. TypeOK /\ TypeOK' /\ EventLogComplete /\ [CoreNext]_vars => EventLogComplete'
    BY <1>2 DEF EventLogComplete
  <1> QED BY <1>1, <1>3, CoreIsSpec, PTL DEF CoreSpec

-----------------------------------------------------------------------------
(* The registry implements the promise of JobLifecycle.                    *)

\* Every operation of the registry is the move of the lifecycle it stands
\* for; the budget decides between repeating and giving up.
LEMMA OperationIsMove ==
    ASSUME TypeOK, RetryBudget, NEW j \in Jobs, Operates(j),
           jobs' \in [Jobs -> Job]
    PROVE  Lifecycle!Move(j)
  <1>0. jobs[j] \in Job /\ issued[j] \in Nat /\ WithinBudget(jobs[j], issued[j])
        /\ jobs[j].maxRetries \in Nat /\ jobs[j].attempts \in Nat
    BY DEF TypeOK, RetryBudget, Job
  <1>1. ASSUME NEW r \in RetryLimits, jobs'[j] = Created(r), jobs[j].status = "none",
               issued'[j] = issued[j]
        PROVE  Lifecycle!Submit(j)
    BY <1>1 DEF Created, NoJob, Lifecycle!Submit, Lifecycle!Goes
  <1>2. ASSUME NEW n \in Nodes, jobs'[j] = Updated(jobs[j], AssignTo(n)),
               jobs[j].status = "pending", issued'[j] = issued[j]
        PROVE  Lifecycle!Place(j)
    BY <1>0, <1>2, AssignedFacts DEF Lifecycle!Place, Lifecycle!Goes, Lifecycle!Keeps
  <1>3. ASSUME jobs'[j] = Claimed(jobs[j], issued[j] + 1), jobs[j].status = "assigned",
               issued'[j] = issued[j] + 1
        PROVE  Lifecycle!Start(j)
    <2> DEFINE k == issued[j] + 1
    <2>1. k \in Nat /\ jobs'[j] = Claimed(jobs[j], k)
      BY <1>0, <1>3
    <2> HIDE DEF k
    <2>2. jobs'[j].status = "running" /\ jobs'[j].maxRetries = jobs[j].maxRetries
      <3>1. jobs[j] \in Job
        BY <1>0
      <3>2. /\ Claimed(jobs[j], k).status = "running"
            /\ Claimed(jobs[j], k).maxRetries = jobs[j].maxRetries
        BY <2>1, <3>1, ClaimedFacts
      <3> QED BY <2>1, <3>2
    <2> QED BY <1>0, <1>3, <2>2 DEF Lifecycle!Start, Lifecycle!Goes, WithinBudget
  <1>4. ASSUME NEW code \in ExitCodes, jobs'[j] = Reported(jobs[j], code),
               jobs[j].status = "running", issued'[j] = issued[j]
        PROVE  Lifecycle!Succeed(j) \/ Lifecycle!Repeat(j) \/ Lifecycle!GiveUp(j)
    BY <1>0, <1>4, ReportedFacts
       DEF TakenBack, Ended, WithinBudget, MayRetry, Lifecycle!Goes, Lifecycle!Keeps,
           Lifecycle!Succeed, Lifecycle!Repeat, Lifecycle!GiveUp
  <1>5. ASSUME jobs'[j] = Recovered(jobs[j]), jobs[j].status \in {"running", "assigned"},
               issued'[j] = issued[j]
        PROVE  Lifecycle!Repeat(j) \/ Lifecycle!GiveUp(j) \/ Lifecycle!Withdraw(j)
    BY <1>0, <1>5, RecoveredFacts
       DEF TakenBack, Ended, WithinBudget, MayRetry, Lifecycle!Goes, Lifecycle!Keeps,
           Lifecycle!Repeat, Lifecycle!GiveUp, Lifecycle!Withdraw
  <1> QED BY <1>1, <1>2, <1>3, <1>4, <1>5 DEF Operates, Lifecycle!Move

\* Scheduler, agents and clients together keep the lifecycle's promise: a job
\* ends once, a failed or lost run is repeated at most MaxRetries times, and
\* only the last permitted run can fail it.
THEOREM ImplementsLifecycle == CoreSpec => LifecycleSpec
  <1>1. Init => Lifecycle!Init
    BY DEF Init, NoJob, Lifecycle!Init
  <1>2. ASSUME TypeOK, TypeOK', RetryBudget, [CoreNext]_vars, NEW j \in Jobs
        PROVE  Lifecycle!Move(j) \/ Lifecycle!Stay(j)
    <2>0. jobs[j] \in Job /\ jobs' \in [Jobs -> Job] /\ jobs'[j] \in Job
      BY <1>2 DEF TypeOK
    <2>1. CASE Untouched(j)
      BY <2>0, <2>1 DEF Untouched, Lifecycle!Stay, Lifecycle!Keeps
    <2>2. CASE Ages(j)
      <3>1. /\ jobs'[j].status = jobs[j].status /\ jobs'[j].maxRetries = jobs[j].maxRetries
            /\ issued'[j] = issued[j]
        BY <2>0, <2>2, OverdueFacts DEF Ages
      <3> QED BY <3>1 DEF Lifecycle!Stay, Lifecycle!Keeps
    <2>3. CASE Operates(j) /\ Logs(j)
      BY <1>2, <2>0, <2>3, OperationIsMove
    <2> QED BY <1>2, <2>1, <2>2, <2>3, CoreStepOf DEF CoreOf
  <1>3. TypeOK /\ TypeOK' /\ RetryBudget /\ [CoreNext]_vars => [Lifecycle!Next]_(Lifecycle!vars)
    BY <1>2 DEF Lifecycle!Next
  <1> QED BY <1>1, <1>3, CoreIsSpec, PTL DEF CoreSpec, LifecycleSpec, Lifecycle!Spec
=============================================================================
