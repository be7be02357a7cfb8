---------------------------- MODULE JobRegistry ----------------------------
(***************************************************************************)
(* The control plane's job registry (internal/job/registry.go): the map of *)
(* jobs, the per-job event log and the generator of ExecutionIDs.  Every   *)
(* operation runs under r.mu, so each is one action; their callers (HTTP   *)
(* handlers, scheduler, agents) are arbitrary here, and an operation the   *)
(* registry refuses changes nothing unless the action says otherwise.      *)
(***************************************************************************)
EXTENDS Job, Sequences

CONSTANTS Jobs,         \* job identifiers
          RetryLimits,  \* the MaxRetries values clients ask for
          Patches       \* UpdateParams that PATCH /jobs/{id} may carry

ASSUME RegistryAssumption ==
    /\ RetryLimits \subseteq Nat   \* api/job.go refuses negative values
    /\ Patches \subseteq UpdateParams

VARIABLES jobs,    \* Registry.jobs
          events,  \* Registry.events
          issued   \* how many ExecutionIDs were generated for each job

vars == <<jobs, events, issued>>

EventTypes == {"CREATED", "ASSIGNED", "CLAIMED", "SUCCEEDED", "FAILED",
               "RECOVERED", "RETRIED"}

JobEvent == [type: EventTypes, from: Statuses, to: Statuses,
             node: Nodes \cup {NoNode}, exec: Nat, attempts: Nat]

\* appendEvent, as a function of the record before and after the operation.
\* Recoveries and reports log the node and execution the job is losing.
Event(type, old, new, n, e) ==
    [type |-> type, from |-> old.status, to |-> new.status,
     node |-> n, exec |-> e, attempts |-> new.attempts]

LogFor(j, e) == [events EXCEPT ![j] = Append(@, e)]

Init ==
    /\ jobs = [j \in Jobs |-> NoJob]
    /\ events = [j \in Jobs |-> <<>>]
    /\ issued = [j \in Jobs |-> 0]

Create(j, maxRetries) ==
    /\ jobs[j].status = "none"
    /\ LET new == Created(maxRetries)
       IN  /\ jobs' = [jobs EXCEPT ![j] = new]
           /\ events' = LogFor(j, Event("CREATED", jobs[j], new, NoNode, NoExec))
    /\ UNCHANGED issued

\* Mutant of UpdateLogs: no event for an assignment.
UpdateLogsNothing(old, new, p) == FALSE

\* The only event Update writes is the one of a transition into ASSIGNED.
UpdateLogs(old, new, p) ==
    UpdateAccepted(old, p) /\ old.status # "assigned" /\ new.status = "assigned"

Update(j, p) ==
    /\ jobs[j].status # "none"
    /\ LET new == Updated(jobs[j], p)
       IN  /\ jobs' = [jobs EXCEPT ![j] = new]
           /\ events' = IF UpdateLogs(jobs[j], new, p)
                        THEN LogFor(j, Event("ASSIGNED", jobs[j], new, new.node, NoExec))
                        ELSE events
    /\ UNCHANGED issued

\* The scheduler calls Update for jobs it has seen PENDING.  Without PATCH the
\* job still is; with PATCH, the call for a job that was moved on meanwhile is one
\* of PatchNext's, which may carry the same parameters.
Assign(j, n) == jobs[j].status = "pending" /\ Update(j, AssignTo(n))

Claim(j, n) ==
    /\ ClaimAllowed(jobs[j], n)
    /\ LET e == issued[j] + 1
           new == Claimed(jobs[j], e)
       IN  /\ jobs' = [jobs EXCEPT ![j] = new]
           /\ issued' = [issued EXCEPT ![j] = e]
           /\ events' = LogFor(j, Event("CLAIMED", jobs[j], new, n, e))

ReportType(new) ==
    CASE new.status = "succeeded" -> "SUCCEEDED"
      [] new.status = "pending"   -> "RETRIED"
      [] OTHER                    -> "FAILED"

\* A repeated or refused report changes nothing.
ReportResult(j, n, e, code) ==
    /\ ResultAccepted(jobs[j], n, e)
    /\ LET new == Reported(jobs[j], code)
       IN  /\ jobs' = [jobs EXCEPT ![j] = new]
           /\ events' = LogFor(j, Event(ReportType(new), jobs[j], new, n, e))
    /\ UNCHANGED issued

\* Mutant of RecoverType: an event type that does not exist.
RecoverTypeTimeout(new) == IF new.status = "pending" THEN "TIMEOUT" ELSE "FAILED"

RecoverType(new) == IF new.status = "pending" THEN "RECOVERED" ELSE "FAILED"

\* The loop both recoveries share: every job of S is requeued or failed, and
\* the event keeps the node and execution that were taken from it.
RecoverAll(S) ==
    /\ S # {}
    /\ jobs' = [j \in Jobs |-> IF j \in S THEN Recovered(jobs[j]) ELSE jobs[j]]
    /\ events' = [j \in Jobs |->
          IF j \in S
          THEN Append(events[j],
                      Event(RecoverType(Recovered(jobs[j])), jobs[j],
                            Recovered(jobs[j]), jobs[j].node, jobs[j].exec))
          ELSE events[j]]
    /\ UNCHANGED issued

RecoverExecutionTimeouts == RecoverAll({j \in Jobs : TimedOut(jobs[j])})

RecoverNodeJobs(n) == RecoverAll({j \in Jobs : HeldBy(jobs[j], n)})

\* Time: ExecutionTimeout (two hours) elapses for a job with a start time.
ExecutionOverdue(j) ==
    /\ jobs[j].started = "recent"
    /\ jobs' = [jobs EXCEPT ![j].started = "overdue"]
    /\ UNCHANGED <<events, issued>>

-----------------------------------------------------------------------------

\* What the scheduler, the agents and the clients do without PATCH.
CoreNext ==
    \/ \E j \in Jobs, r \in RetryLimits : Create(j, r)
    \/ \E j \in Jobs, n \in Nodes : Assign(j, n)
    \/ \E j \in Jobs, n \in Nodes : Claim(j, n)
    \/ \E j \in Jobs, n \in Nodes, code \in ExitCodes :
          \E e \in 1..issued[j] : ReportResult(j, n, e, code)
    \/ RecoverExecutionTimeouts
    \/ \E n \in Nodes : RecoverNodeJobs(n)
    \/ \E j \in Jobs : ExecutionOverdue(j)

\* PATCH /api/v1/jobs/{id} (api/job.go) hands its body to Update unchanged.
PatchNext == \E j \in Jobs, p \in Patches : Update(j, p)

Next == CoreNext \/ PatchNext

CoreSpec == Init /\ [][CoreNext]_vars
Spec == Init /\ [][Next]_vars

-----------------------------------------------------------------------------
(* Properties                                                              *)

TypeOK ==
    /\ jobs \in [Jobs -> Job]
    /\ events \in [Jobs -> Seq(JobEvent)]
    /\ issued \in [Jobs -> Nat]

\* A job is handed out for execution at most MaxRetries + 1 times over its
\* whole life, whatever mixture of failures, timeouts, lost nodes and PATCH
\* requests it goes through, and it can only wait for another execution
\* while its budget lasts (Attempts in Claim, ReportResult and Recover*).
RetryBudget == \A j \in Jobs : WithinBudget(jobs[j], issued[j])

FieldsMatch(r, k) ==
    /\ r.status \in {"none", "pending"} =>
          r.node = NoNode /\ r.exec = NoExec /\ r.started = "nil"
    /\ r.status = "assigned" =>
          r.node \in Nodes /\ r.exec = NoExec /\ r.started = "nil"
    /\ r.status = "running" =>
          r.node \in Nodes /\ r.exec = k /\ r.exec # NoExec /\ r.started # "nil"
    /\ r.completed <=> r.status \in Terminal
    /\ r.result # NoResult <=> r.status \in Terminal

\* Which fields are set in which status: a waiting job carries nothing of an
\* earlier execution, a running one carries the newest ExecutionID and a
\* start time, so that it can be fenced and can time out, and a job is
\* marked completed exactly when it is terminal (Requeued, Claimed, Finished).
ExecutionFieldsMatchStatus == \A j \in Jobs : FieldsMatch(jobs[j], issued[j])

LogAccounts(log, status) ==
    /\ status = "none" <=> log = <<>>
    /\ log # <<>> => log[1].type = "CREATED" /\ log[Len(log)].to = status
    /\ \A k \in 1..Len(log) : log[k].from # log[k].to
    /\ \A k \in 1..(Len(log) - 1) : log[k].to = log[k + 1].from

\* The event log is a complete account of the job's status: it starts with
\* its creation, each event continues from where the one before it ended,
\* each is a transition, and the last one ends in the current status
\* (appendEvent's callers).
EventLogComplete == \A j \in Jobs : LogAccounts(events[j], jobs[j].status)

\* A terminal job keeps its outcome: no report, recovery or PATCH changes the
\* status, execution, node or result once it has succeeded or failed.
TerminalFrozen ==
    [][\A j \in Jobs : jobs[j].status \in Terminal =>
          /\ jobs'[j].status = jobs[j].status
          /\ jobs'[j].exec = jobs[j].exec
          /\ jobs'[j].node = jobs[j].node
          /\ jobs'[j].result = jobs[j].result]_vars

\* Fencing: once an ExecutionID is taken from a job it never becomes current
\* again; a job's execution changes only by losing it or by a new one.
ExecutionsNeverReturn ==
    [][\A j \in Jobs : jobs'[j].exec # jobs[j].exec =>
          jobs'[j].exec = NoExec \/ jobs'[j].exec > issued[j]]_vars

-----------------------------------------------------------------------------
(* Refinement                                                              *)

Lifecycle == INSTANCE JobLifecycle WITH
    phase <- [j \in Jobs |-> jobs[j].status],
    runs  <- issued,
    limit <- [j \in Jobs |-> jobs[j].maxRetries]

\* The registry, driven by any mixture of scheduler, agents and clients,
\* implements the promise of JobLifecycle (Create, Update as the scheduler
\* calls it, Claim, ReportResult and both recoveries).
LifecycleSpec == Lifecycle!Spec

-----------------------------------------------------------------------------
(* What the documentation says of PATCH, and the code does not do        *)

\* Every status change is recorded: docs/ARCHITECTURE.md, "Every legitimate
\* state transition automatically produces a chronological `JobEvent`".
TransitionsLogged ==
    [][\A j \in Jobs : jobs'[j].status # jobs[j].status =>
          events'[j] # events[j]]_vars

\* Only Claim starts a job: docs/ARCHITECTURE.md, "They must hit `POST
\* /claim`", which generates the ExecutionID that fences its result.
RunningHasExecution ==
    \A j \in Jobs : jobs[j].status = "running" => jobs[j].exec # NoExec

\* The PATCH endpoint cannot bypass domain invariants: a request Update
\* refuses leaves the job alone.
RefusedUpdateChangesNothing ==
    \A j \in Jobs, p \in Patches :
        jobs[j].status # "none" /\ ~UpdateAccepted(jobs[j], p) =>
            Updated(jobs[j], p) = jobs[j]
=============================================================================
