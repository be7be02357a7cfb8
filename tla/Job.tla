-------------------------------- MODULE Job --------------------------------
(***************************************************************************)
(* One job record of the control plane and what each operation of          *)
(* internal/job/registry.go does to it: the record-level bodies of Update, *)
(* Claim, ReportResult, RecoverExecutionTimeouts and RecoverNodeJobs.      *)
(* JobRegistry adds the map, the event log and the source of ExecutionIDs; *)
(* JobSystem adds the scheduler, the HTTP handlers and the agents.         *)
(*                                                                         *)
(* Names, commands, output and wall-clock values are abstracted.  A start  *)
(* time is "nil", "recent" or "overdue" (at least ExecutionTimeout ago).   *)
(* ExecutionIDs are drawn per job: 0 is the empty string and the k-th      *)
(* identifier generated for the job is k.                                  *)
(***************************************************************************)
EXTENDS Integers

CONSTANTS Nodes,      \* node identifiers
          NoNode,     \* the empty AssignedNodeID
          ExitCodes,  \* exit codes a process or the recovery may produce
          NoResult,   \* a nil *JobResult
          Absent      \* a nil field of UpdateParams

NoExec == 0

\* "none" stands for a job that has not been created.
Statuses == {"none", "pending", "assigned", "running", "succeeded", "failed"}
Terminal == {"succeeded", "failed"}
StartTimes == {"nil", "recent", "overdue"}

ASSUME JobAssumption ==
    /\ NoNode \notin Nodes
    /\ Absent \notin Nodes \cup {NoNode} /\ Absent \notin Statuses
    /\ ExitCodes \subseteq Int /\ {0, -1} \subseteq ExitCodes
    /\ NoResult \notin ExitCodes

Job == [status: Statuses, node: Nodes \cup {NoNode}, exec: Nat,
        started: StartTimes, completed: BOOLEAN, attempts: Nat,
        maxRetries: Nat, result: ExitCodes \cup {NoResult}]

NoJob == [status |-> "none", node |-> NoNode, exec |-> NoExec,
          started |-> "nil", completed |-> FALSE, attempts |-> 0,
          maxRetries |-> 0, result |-> NoResult]

Created(maxRetries) ==
    [NoJob EXCEPT !.status = "pending", !.maxRetries = maxRetries]

-----------------------------------------------------------------------------
(* Update: the scheduler's assignment and the operator's PATCH.            *)

UpdateParams == [status: (Statuses \ {"none"}) \cup {Absent},
                 node: Nodes \cup {NoNode, Absent},
                 started: StartTimes, completed: BOOLEAN,
                 result: ExitCodes \cup {NoResult}]

isValidTransition(current, next) ==
    \/ current = next
    \/ /\ current = "pending"
       /\ next \in {"assigned", "failed"}
    \/ /\ current = "assigned"
       /\ next \in {"running", "failed", "pending"}
    \/ /\ current = "running"
       /\ next \in {"succeeded", "failed", "pending"}

\* Mutant of StatusRejected: transitions are not checked.
StatusRejectedSeldom(j, p) ==
    /\ p.status # Absent
    /\ \/ j.status \in {"running", "assigned"} /\ p.status = "pending"
       \/ j.status \in {"pending", "assigned"} /\ p.status = "failed"

StatusRejected(j, p) ==
    /\ p.status # Absent
    /\ \/ ~isValidTransition(j.status, p.status)
       \/ j.status \in {"running", "assigned"} /\ p.status = "pending"
       \/ j.status \in {"pending", "assigned"} /\ p.status = "failed"

NextStatus(j, p) == IF p.status = Absent THEN j.status ELSE p.status

SetsExecutionFields(p) ==
    p.node # Absent \/ p.started # "nil" \/ p.result # NoResult

FieldsRejected(j, p) ==
    /\ SetsExecutionFields(p)
    /\ \/ j.status \in {"running"} \cup Terminal
       \/ j.status = "pending" /\ NextStatus(j, p) = "pending"

UpdateAccepted(j, p) == ~StatusRejected(j, p) /\ ~FieldsRejected(j, p)

\* The new status is stored before the execution fields are checked, so a
\* request rejected for its fields has already changed the status.
Updated(j, p) ==
    IF StatusRejected(j, p) THEN j
    ELSE IF FieldsRejected(j, p) THEN [j EXCEPT !.status = NextStatus(j, p)]
    ELSE [j EXCEPT !.status = NextStatus(j, p),
                   !.node = IF p.node = Absent THEN @ ELSE p.node,
                   !.started = IF p.started = "nil" THEN @ ELSE p.started,
                   !.completed = @ \/ p.completed,
                   !.result = IF p.result = NoResult THEN @ ELSE p.result]

\* The parameters with which the scheduler assigns a job to node n.
AssignTo(n) == [status |-> "assigned", node |-> n, started |-> "nil",
                completed |-> FALSE, result |-> NoResult]

-----------------------------------------------------------------------------
(* Claim, ReportResult and the two recoveries.                             *)

\* Mutant of ClaimAllowed: any node may claim an assigned job.
ClaimAllowedByAny(j, n) == j.status = "assigned"

ClaimAllowed(j, n) == j.status = "assigned" /\ j.node = n

\* Mutant of Claimed: every execution of the job gets the same ExecutionID.
ClaimedSameExec(j, e) ==
    [j EXCEPT !.status = "running", !.attempts = @ + 1,
              !.started = "recent", !.exec = 1]

Claimed(j, e) ==
    [j EXCEPT !.status = "running", !.attempts = @ + 1,
              !.started = "recent", !.exec = e]

\* What ReportResult answers: the report is applied, it repeats a result
\* that is already recorded (answered 200), or it is refused (answered 409).
HoldsExecution(j, n, e) == j.node = n /\ j.exec = e

\* Mutant of ResultAccepted: fencing by node only, not by ExecutionID.
ResultAcceptedUnfenced(j, n, e) == j.status = "running" /\ j.node = n

\* Mutant of ResultAccepted: no check that the job is still running.
ResultAcceptedAnytime(j, n, e) == HoldsExecution(j, n, e)

ResultAccepted(j, n, e) == j.status = "running" /\ HoldsExecution(j, n, e)

ResultRepeated(j, n, e, code) ==
    /\ j.status \in Terminal
    /\ HoldsExecution(j, n, e)
    /\ j.result # NoResult => j.result = code

\* Mutant of MayRetry: one retry too many.
MayRetryOffByOne(j) == j.attempts <= j.maxRetries + 1

MayRetry(j) == j.attempts <= j.maxRetries

\* Mutant of Requeued: the revoked ExecutionID is kept.
RequeuedKeepingExec(j) ==
    [j EXCEPT !.status = "pending", !.node = NoNode, !.started = "nil"]

Requeued(j) == [j EXCEPT !.status = "pending", !.node = NoNode,
                         !.started = "nil", !.exec = NoExec]

Finished(j, status, code) ==
    [j EXCEPT !.status = status, !.completed = TRUE, !.result = code]

Reported(j, code) ==
    IF code = 0 THEN Finished(j, "succeeded", code)
    ELSE IF MayRetry(j) THEN Requeued(j)
    ELSE Finished(j, "failed", code)

TimedOut(j) == j.status = "running" /\ j.started = "overdue"

\* Mutant of HeldBy: assigned jobs are left on the lost node.
HeldByRunningOnly(j, n) == j.status = "running" /\ j.node = n

HeldBy(j, n) == j.status \in {"running", "assigned"} /\ j.node = n

Recovered(j) == IF MayRetry(j) THEN Requeued(j) ELSE Finished(j, "failed", -1)

-----------------------------------------------------------------------------

\* The budget of a job r for which k ExecutionIDs were generated.
WithinBudget(r, k) ==
    /\ k = r.attempts
    /\ r.status = "none" => k = 0
    /\ k <= r.maxRetries + 1
    /\ r.status \in {"pending", "assigned"} => k <= r.maxRetries
=============================================================================
