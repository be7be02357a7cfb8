---------------------------- MODULE JobLifecycle ----------------------------
(***************************************************************************)
(* What the job subsystem promises to the user who submits a job, without  *)
(* nodes, ExecutionIDs, start times or event logs: a job waits, is placed, *)
(* runs, and ends once; a failed or lost run is repeated at most MaxRetries *)
(* times; only the last permitted run can fail the job.  Several jobs may  *)
(* move in one step, because a recovery sweep treats them together.        *)
(* JobRegistry (without PATCH) and JobSystem implement this module.        *)
(***************************************************************************)
EXTENDS Integers

CONSTANTS Jobs, RetryLimits

VARIABLES phase,  \* where each job is
          runs,   \* how often it was started
          limit   \* its MaxRetries

vars == <<phase, runs, limit>>

Init ==
    /\ phase = [j \in Jobs |-> "none"]
    /\ runs = [j \in Jobs |-> 0]
    /\ limit = [j \in Jobs |-> 0]

Goes(j, from, to) == phase[j] = from /\ phase'[j] = to

Keeps(j) == runs'[j] = runs[j] /\ limit'[j] = limit[j]

Submit(j) ==
    /\ Goes(j, "none", "pending")
    /\ limit'[j] \in RetryLimits
    /\ runs'[j] = runs[j]

Place(j) == Goes(j, "pending", "assigned") /\ Keeps(j)

Start(j) ==
    /\ Goes(j, "assigned", "running")
    /\ runs[j] <= limit[j]
    /\ runs'[j] = runs[j] + 1
    /\ limit'[j] = limit[j]

Succeed(j) == Goes(j, "running", "succeeded") /\ Keeps(j)

\* A run that failed or was lost, with budget left.
Repeat(j) == Goes(j, "running", "pending") /\ runs[j] <= limit[j] /\ Keeps(j)

\* A placement that never started is taken back; it costs no budget.
Withdraw(j) == Goes(j, "assigned", "pending") /\ Keeps(j)

GiveUp(j) == Goes(j, "running", "failed") /\ runs[j] = limit[j] + 1 /\ Keeps(j)

Stay(j) == phase'[j] = phase[j] /\ Keeps(j)

Move(j) == \/ Submit(j) \/ Place(j) \/ Start(j) \/ Succeed(j)
           \/ Repeat(j) \/ Withdraw(j) \/ GiveUp(j)

Next == \A j \in Jobs : Move(j) \/ Stay(j)

Spec == Init /\ [][Next]_vars
=============================================================================
