----------------------------- MODULE JobSystem -----------------------------
(***************************************************************************)
(* Batch jobs end to end: the job registry, the node registry, the job     *)
(* scheduler (internal/scheduler/scheduler.go), the HTTP handlers of       *)
(* internal/api/job.go and one agent per node (cmd/runstack/agent.go and   *)
(* executor.go).                                                           *)
(*                                                                         *)
(* The scheduler's tick holds only s.mu; the registries have their own     *)
(* locks, so a tick is a sequence of steps that other requests interleave  *)
(* with.  Requests of agents can fail before or after the control plane    *)
(* processed them, and can be processed after the agent has given up on    *)
(* them; agents crash and come back; clients PATCH jobs at any time.       *)
(* faults counts all of this, up to MaxFaults.  The event log is left to   *)
(* JobRegistry.                                                            *)
(***************************************************************************)
EXTENDS Job, FiniteSetsExt

CONSTANTS Jobs,           \* job ids: numbers in order of creation (CreatedAt)
          RetryLimits,    \* MaxRetries values clients ask for
          AgentCodes,     \* exit codes commands produce
          Patches,        \* bodies of PATCH requests
          Overcommitted,  \* nodes whose instances leave no capacity for jobs
          MaxTries,       \* attempts to report a result (5 in the code)
          MaxFaults       \* bound on crashes, lost heartbeats, broken requests
                          \* and PATCHes that change a job

ASSUME JobSystemAssumption ==
    /\ Jobs \subseteq Nat /\ Nodes \subseteq Nat \ {0}  \* node ids are ordered
    /\ RetryLimits \subseteq Nat /\ AgentCodes \subseteq ExitCodes
    /\ Patches \subseteq UpdateParams
    /\ MaxTries \in Nat \ {0} /\ MaxFaults \in Nat

VARIABLES jobs, issued,   \* as in JobRegistry
          nodes,          \* as in NodeRegistry
          sched,          \* the scheduler's position in its tick and its snapshots
          agents,         \* the job loop of each node's agent
          reqs,           \* requests the control plane has not answered
          faults,
          exits,          \* history: which process of which execution ended how
          patched         \* history: jobs that a PATCH changed

vars == <<jobs, issued, nodes, sched, agents, reqs, faults, exits, patched>>

NR == INSTANCE NodeRegistry

registryVars == <<jobs, issued>>

-----------------------------------------------------------------------------
(* State                                                                   *)

\* nodesOnline, expired and pending are the copies one tick works on; last is
\* lastAssignedNodeID (0 is "").
SchedulerState == [pc: {"timeouts", "nodes", "recover", "jobs", "assign"},
                   online: SUBSET Nodes, expired: SUBSET Nodes,
                   pending: SUBSET Jobs, last: Nodes \cup {0}]

\* An agent is down, or between two polls, or waits for an answer to a claim,
\* or runs a command, or waits for an answer to a report.
Agent == [pc: {"down", "idle", "claiming", "executing", "reporting", "waiting"},
          job: Jobs \cup {0}, exec: Nat, code: ExitCodes, tries: Nat]

IdleAgent == [pc |-> "idle", job |-> 0, exec |-> 0, code |-> 0, tries |-> 0]
DownAgent == [IdleAgent EXCEPT !.pc = "down"]

\* live: the agent still waits for the answer.  checked: the claim handler has
\* looked up the node and is about to call Registry.Claim.
Request == [kind: {"claim", "result"}, node: Nodes, job: Jobs, exec: Nat,
            code: ExitCodes, live: BOOLEAN, checked: BOOLEAN]

TypeOK ==
    /\ jobs \in [Jobs -> Job] /\ issued \in [Jobs -> Nat]
    /\ NR!NodeTypeOK
    /\ sched \in SchedulerState
    /\ agents \in [Nodes -> Agent]
    /\ reqs \subseteq Request
    /\ faults \in 0..MaxFaults
    /\ exits \subseteq Jobs \X Nat \X Nodes \X ExitCodes
    /\ patched \subseteq Jobs

Init ==
    /\ jobs = [j \in Jobs |-> NoJob]
    /\ issued = [j \in Jobs |-> 0]
    /\ NR!NodeInit
    /\ sched = [pc |-> "timeouts", online |-> {}, expired |-> {},
                pending |-> {}, last |-> 0]
    /\ agents = [n \in Nodes |-> DownAgent]
    /\ reqs = {} /\ faults = 0 /\ exits = {} /\ patched = {}

-----------------------------------------------------------------------------
(* Clients                                                                 *)

\* POST /jobs.  Ids follow CreatedAt, so jobs are created in order.
CreateJob(j, r) ==
    /\ jobs[j].status = "none"
    /\ \A i \in Jobs : i < j => jobs[i].status # "none"
    /\ jobs' = [jobs EXCEPT ![j] = Created(r)]
    /\ UNCHANGED <<issued, nodes, sched, agents, reqs, faults, exits, patched>>

\* PATCH /jobs/{id}, JobHandler.Update: the body goes to Registry.Update, at any
\* time, between the steps of a tick too.
PatchJob(j, p) ==
    /\ jobs[j].status # "none" /\ faults < MaxFaults
    /\ jobs' = [jobs EXCEPT ![j] = Updated(@, p)]
    /\ jobs' # jobs /\ patched' = patched \cup {j}
    /\ faults' = faults + 1
    /\ UNCHANGED <<issued, nodes, sched, agents, reqs, exits>>

-----------------------------------------------------------------------------
(* The scheduler's tick                                                    *)

RecoverJobs(S) ==
    jobs' = [j \in Jobs |-> IF j \in S THEN Recovered(jobs[j]) ELSE jobs[j]]

SchedTimeouts ==
    /\ sched.pc = "timeouts"
    /\ RecoverJobs({j \in Jobs : TimedOut(jobs[j])})
    /\ sched' = [sched EXCEPT !.pc = "nodes"]
    /\ UNCHANGED <<issued, nodes, agents, reqs, faults, exits, patched>>

SchedListNodes ==
    /\ sched.pc = "nodes"
    /\ sched' = [sched EXCEPT
          !.pc = "recover",
          !.online = {n \in Nodes : NR!Online(n)},
          !.expired = {n \in Nodes : nodes[n].status = "offline" /\ nodes[n].since = "expired"}]
    /\ UNCHANGED <<jobs, issued, nodes, agents, reqs, faults, exits, patched>>

SchedRecoverNode(n) ==
    /\ sched.pc = "recover" /\ n \in sched.expired
    /\ RecoverJobs({j \in Jobs : HeldBy(jobs[j], n)})
    /\ sched' = [sched EXCEPT !.expired = @ \ {n}]
    /\ UNCHANGED <<issued, nodes, agents, reqs, faults, exits, patched>>

\* With no node online the tick ends here.
SchedRecoverDone ==
    /\ sched.pc = "recover" /\ sched.expired = {}
    /\ sched' = [sched EXCEPT !.pc = IF sched.online = {} THEN "timeouts" ELSE "jobs"]
    /\ UNCHANGED <<jobs, issued, nodes, agents, reqs, faults, exits, patched>>

SchedListJobs ==
    /\ sched.pc = "jobs"
    /\ sched' = [sched EXCEPT !.pc = "assign",
                              !.pending = {j \in Jobs : jobs[j].status = "pending"}]
    /\ UNCHANGED <<jobs, issued, nodes, agents, reqs, faults, exits, patched>>

\* Create drops the requested CPU and memory, so every job asks for zero and
\* only nodes with negative available capacity are not eligible.
Eligible == sched.online \ Overcommitted

\* Mutant of Select: the node last used is eligible again at once.
SelectNotAfter(S, last) ==
    LET later == {n \in S : n >= last}
    IN  IF later = {} THEN Min(S) ELSE Min(later)

\* Round robin: the first eligible node after the last one used, else the first.
Select(S, last) ==
    LET later == {n \in S : n > last}
    IN  IF later = {} THEN Min(S) ELSE Min(later)

\* A job of the list may have been moved on by a PATCH since: Update decides.
SchedAssign ==
    /\ sched.pc = "assign" /\ sched.pending # {}
    /\ LET j == Min(sched.pending)
           rest == [sched EXCEPT !.pending = @ \ {j}]
       IN  IF Eligible = {}
           THEN sched' = rest /\ UNCHANGED jobs
           ELSE LET p == AssignTo(Select(Eligible, sched.last))
                IN  /\ jobs' = [jobs EXCEPT ![j] = Updated(@, p)]
                    /\ sched' = IF UpdateAccepted(jobs[j], p)
                                THEN [rest EXCEPT !.last = p.node] ELSE rest
    /\ UNCHANGED <<issued, nodes, agents, reqs, faults, exits, patched>>

SchedDone ==
    /\ sched.pc = "assign" /\ sched.pending = {}
    /\ sched' = [sched EXCEPT !.pc = "timeouts", !.online = {}]
    /\ UNCHANGED <<jobs, issued, nodes, agents, reqs, faults, exits, patched>>

Scheduler ==
    \/ SchedTimeouts \/ SchedListNodes
    \/ \E n \in Nodes : SchedRecoverNode(n)
    \/ SchedRecoverDone \/ SchedListJobs \/ SchedAssign \/ SchedDone

-----------------------------------------------------------------------------
(* Agents                                                                  *)

ClaimRequest(n, j) == [kind |-> "claim", node |-> n, job |-> j, exec |-> 0,
                       code |-> 0, live |-> TRUE, checked |-> FALSE]

ResultRequest(n) == [kind |-> "result", node |-> n, job |-> agents[n].job,
                     exec |-> agents[n].exec, code |-> agents[n].code,
                     live |-> TRUE, checked |-> FALSE]

\* The connection of n's outstanding request is gone; the request may still
\* be processed.
Orphaned(n) == {IF r.node = n THEN [r EXCEPT !.live = FALSE] ELSE r : r \in reqs}

\* runAgent registers until it succeeds, then starts the loops.
AgentStart(n) ==
    /\ agents[n].pc = "down"
    /\ NR!Register(n)
    /\ agents' = [agents EXCEPT ![n] = IdleAgent]
    /\ UNCHANGED <<jobs, issued, sched, reqs, faults, exits, patched>>

\* fetchAssignedJobs lists the node's assigned jobs; the loop takes the first
\* of the answer (a Go map has no order) and sends its claim.
Poll(n, j) ==
    /\ agents[n].pc = "idle"
    /\ jobs[j].status = "assigned" /\ jobs[j].node = n
    /\ reqs' = reqs \cup {ClaimRequest(n, j)}
    /\ agents' = [agents EXCEPT ![n] = [IdleAgent EXCEPT !.pc = "claiming", !.job = j]]
    /\ UNCHANGED <<jobs, issued, nodes, sched, faults, exits, patched>>

\* The command ends by itself with one of the exit codes.
ProcessExits(n, code) ==
    /\ agents[n].pc = "executing"
    /\ agents' = [agents EXCEPT ![n].pc = "waiting", ![n].code = code]
    /\ exits' = exits \cup {<<agents[n].job, agents[n].exec, n, code>>}
    /\ UNCHANGED <<jobs, issued, nodes, sched, reqs, faults, patched>>

\* One iteration of reportResultWithRetry.
SendResult(n) ==
    /\ agents[n].pc = "waiting" /\ agents[n].tries < MaxTries
    /\ reqs' = reqs \cup {ResultRequest(n)}
    /\ agents' = [agents EXCEPT ![n].pc = "reporting", ![n].tries = @ + 1]
    /\ UNCHANGED <<jobs, issued, nodes, sched, faults, exits, patched>>

GiveUpReporting(n) ==
    /\ agents[n].pc = "waiting" /\ agents[n].tries = MaxTries
    /\ agents' = [agents EXCEPT ![n] = IdleAgent]
    /\ UNCHANGED <<jobs, issued, nodes, sched, reqs, faults, exits, patched>>

\* The agent process dies, with its command and its connections.
Crash(n) ==
    /\ agents[n].pc # "down" /\ faults < MaxFaults
    /\ agents' = [agents EXCEPT ![n] = DownAgent]
    /\ reqs' = Orphaned(n)
    /\ faults' = faults + 1
    /\ UNCHANGED <<jobs, issued, nodes, sched, exits, patched>>

\* Mutant of RequestFails: the retry loop runs the command again.
RequestFailsReexecutes(n) ==
    /\ agents[n].pc \in {"claiming", "reporting"} /\ faults < MaxFaults
    /\ agents' = [agents EXCEPT ![n] = IF @.pc = "claiming" THEN IdleAgent
                                       ELSE [@ EXCEPT !.pc = "executing"]]
    /\ reqs' = Orphaned(n)
    /\ faults' = faults + 1
    /\ UNCHANGED <<jobs, issued, nodes, sched, exits, patched>>

\* A request fails on the agent's side: a claim is given up, a report will be
\* repeated.  Whether the control plane sees the request stays open.
RequestFails(n) ==
    /\ agents[n].pc \in {"claiming", "reporting"} /\ faults < MaxFaults
    /\ agents' = [agents EXCEPT ![n] = IF @.pc = "claiming" THEN IdleAgent
                                       ELSE [@ EXCEPT !.pc = "waiting"]]
    /\ reqs' = Orphaned(n)
    /\ faults' = faults + 1
    /\ UNCHANGED <<jobs, issued, nodes, sched, exits, patched>>

-----------------------------------------------------------------------------
(* Handlers                                                                *)

\* What the sender of r does with the answer, if it still waits for it.
Answer(r, state) ==
    agents' = IF r.live THEN [agents EXCEPT ![r.node] = state] ELSE agents

MayClaim(r) == NR!Online(r.node)

\* JobHandler.Claim, first part: NodeRegistry.Get.
ClaimHandlerCheck(r) ==
    /\ r.kind = "claim" /\ ~r.checked
    /\ IF MayClaim(r)
       THEN reqs' = (reqs \ {r}) \cup {[r EXCEPT !.checked = TRUE]} /\ UNCHANGED agents
       ELSE reqs' = reqs \ {r} /\ Answer(r, IdleAgent)
    /\ UNCHANGED <<jobs, issued, nodes, sched, faults, exits, patched>>

\* Second part: Registry.Claim; the answer carries the new ExecutionID.
ClaimHandlerApply(r) ==
    /\ r.kind = "claim" /\ r.checked
    /\ reqs' = reqs \ {r}
    /\ LET e == issued[r.job] + 1
       IN  IF ClaimAllowed(jobs[r.job], r.node)
           THEN /\ jobs' = [jobs EXCEPT ![r.job] = Claimed(@, e)]
                /\ issued' = [issued EXCEPT ![r.job] = e]
                /\ Answer(r, [IdleAgent EXCEPT !.pc = "executing", !.job = r.job, !.exec = e])
           ELSE Answer(r, IdleAgent) /\ UNCHANGED <<jobs, issued>>
    /\ UNCHANGED <<nodes, sched, faults, exits, patched>>

\* JobHandler.ReportResult.  Nodes are never deleted, so the node is found;
\* 200 and 409 both end the agent's retries.
ResultHandler(r) ==
    /\ r.kind = "result"
    /\ reqs' = reqs \ {r}
    /\ jobs' = IF ResultAccepted(jobs[r.job], r.node, r.exec)
               THEN [jobs EXCEPT ![r.job] = Reported(@, r.code)] ELSE jobs
    /\ Answer(r, IdleAgent)
    /\ UNCHANGED <<issued, nodes, sched, faults, exits, patched>>

Handlers(r) == ClaimHandlerCheck(r) \/ ClaimHandlerApply(r) \/ ResultHandler(r)

\* A request nobody waits for may be lost with its connection.
RequestLost(r) ==
    /\ ~r.live
    /\ reqs' = reqs \ {r}
    /\ UNCHANGED <<jobs, issued, nodes, sched, agents, faults, exits, patched>>

-----------------------------------------------------------------------------
(* Liveness of nodes and the clock                                         *)

otherThanNodes == <<jobs, issued, sched, agents, reqs, exits, patched>>

\* The heartbeat goroutine runs beside the job loop, also during a command.
HeartbeatArrives(n) ==
    /\ agents[n].pc # "down"
    /\ nodes[n] # NR!Fresh
    /\ NR!Heartbeat(n)
    /\ UNCHANGED <<otherThanNodes, faults>>

DetectOffline == NR!MarkOfflineNodes /\ UNCHANGED <<otherThanNodes, faults>>

\* The heartbeats of a dead agent stop; those of a live one can get lost.
HeartbeatMissed(n) ==
    /\ NR!HeartbeatStale(n)
    /\ \/ agents[n].pc = "down" /\ UNCHANGED faults
       \/ agents[n].pc # "down" /\ faults < MaxFaults /\ faults' = faults + 1
    /\ UNCHANGED otherThanNodes

GraceExpires(n) == NR!GraceExpires(n) /\ UNCHANGED <<otherThanNodes, faults>>

\* ExecutionTimeout elapses; allowed for every running job, since a command
\* may take longer than two hours.
ExecutionOverdue(j) ==
    /\ jobs[j].started = "recent"
    /\ jobs' = [jobs EXCEPT ![j].started = "overdue"]
    /\ UNCHANGED <<issued, nodes, sched, agents, reqs, faults, exits, patched>>

AgentStep(n) ==
    \/ \E j \in Jobs : Poll(n, j)
    \/ \E code \in AgentCodes : ProcessExits(n, code)
    \/ SendResult(n) \/ GiveUpReporting(n)

Next ==
    \/ \E j \in Jobs, r \in RetryLimits : CreateJob(j, r)
    \/ \E j \in Jobs, p \in Patches : PatchJob(j, p)
    \/ Scheduler
    \/ \E n \in Nodes : AgentStart(n)
    \/ \E n \in Nodes : AgentStep(n)
    \/ \E n \in Nodes : Crash(n)
    \/ \E n \in Nodes : RequestFails(n)
    \/ \E r \in reqs : Handlers(r)
    \/ \E r \in reqs : RequestLost(r)
    \/ \E n \in Nodes : HeartbeatArrives(n)
    \/ DetectOffline
    \/ \E n \in Nodes : HeartbeatMissed(n)
    \/ \E n \in Nodes : GraceExpires(n)
    \/ \E j \in Jobs : ExecutionOverdue(j)

Spec == Init /\ [][Next]_vars

\* The loops of control plane and agents keep running, clocks advance, and
\* commands end.  Nothing is assumed about starting agents, about faults, or
\* about which requests nobody waits for are processed.
Fairness ==
    /\ WF_vars(Scheduler) /\ WF_vars(DetectOffline)
    /\ \A n \in Nodes :
          /\ WF_vars(AgentStep(n))
          /\ WF_vars(\E r \in reqs : r.node = n /\ r.live /\ Handlers(r))
          /\ WF_vars(HeartbeatArrives(n))
          /\ WF_vars(agents[n].pc = "down" /\ HeartbeatMissed(n))
          /\ WF_vars(GraceExpires(n))
    /\ \A j \in Jobs : WF_vars(ExecutionOverdue(j))

FairSpec == Spec /\ Fairness

-----------------------------------------------------------------------------
(* Properties                                                              *)

\* The recorded outcome of a job is the outcome of a command that really ran
\* under the recorded execution on the recorded node, or the -1 of a
\* recovery that used up the budget; in particular a job succeeds only if
\* its current execution exited 0 (ReportResult's fencing, the agent's loop).
\* A job that a PATCH touched is excepted: PATCH can record any outcome.
ResultIntegrity ==
    \A j \in Jobs \ patched : jobs[j].status \in Terminal =>
        \/ <<j, jobs[j].exec, jobs[j].node, jobs[j].result>> \in exits
        \/ jobs[j].status = "failed" /\ jobs[j].result = -1

\* An ExecutionID names one run: two agents never work under the same one,
\* and it never ends twice, although claims and reports are lost, repeated
\* and processed late (Claim's fresh ExecutionID, the agent's claim answer).
Works(n, j, e) ==
    agents[n].pc \in {"executing", "waiting", "reporting"}
    /\ agents[n].job = j /\ agents[n].exec = e

OneRunPerExecution ==
    /\ \A n, m \in Nodes, j \in Jobs : \A e \in 1..issued[j] :
          Works(n, j, e) /\ Works(m, j, e) => n = m
    /\ \A x, y \in exits : x[1] = y[1] /\ x[2] = y[2] => x = y
    /\ \A n \in Nodes, x \in exits :
          agents[n].pc = "executing" => ~(x[1] = agents[n].job /\ x[2] = agents[n].exec)

\* The control plane and the agents agree on who runs a job: an agent working
\* under a job's current ExecutionID is on the node the job is assigned to
\* (JobHandler.Claim, with the job recovered and re-assigned meanwhile).
HolderIsAssigned ==
    \A n \in Nodes, j \in Jobs :
        jobs[j].status = "running" /\ Works(n, j, jobs[j].exec) => jobs[j].node = n

\* The tick assigns from a list that can be out of date: a PATCH may have moved a
\* job of it on, and an agent may have claimed the job, or ended it, before its
\* turn comes.  The assignment then leaves that execution or outcome alone
\* (isValidTransition in Registry.Update; SchedulePendingJobs ignores its error).
StaleTickSpares ==
    [][sched.pc = "assign" =>
         \A j \in sched.pending :
             jobs[j].status \in {"running"} \cup Terminal => jobs'[j] = jobs[j]]_sched

\* The cursor spreads jobs: whenever more than one node is eligible, two
\* consecutive assignments, also of different ticks, go to different nodes
\* (lastAssignedNodeID and the wrap-around of the selection).
SpreadsLoad ==
    [][sched.pc = "assign" /\ jobs' # jobs /\ Cardinality(Eligible) > 1 =>
          sched'.last # sched.last]_sched

\* At most MaxRetries + 1 commands are ever run for a job, whatever is lost,
\* late or repeated (Claim counts, and an agent runs only what it claimed).
BudgetRespected ==
    \A j \in Jobs :
        /\ issued[j] <= jobs[j].maxRetries + 1
        /\ Cardinality({x \in exits : x[1] = j}) <= jobs[j].maxRetries + 1

\* A node that is heard from has no OfflineSince left over, so its jobs are
\* not recovered as lost (Register, Heartbeat and MarkOfflineNodes racing).
OfflineSinceMatches == NR!OfflineSinceMatches

\* As long as some agent is up, every submitted job ends: lost claims, lost
\* reports, crashes and silent nodes are all recovered from (scheduler,
\* timeouts, retries of reportResultWithRetry, re-assignment).
EveryJobEnds ==
    <>[](\E n \in Nodes \ Overcommitted : agents[n].pc # "down") =>
        \A j \in Jobs : jobs[j].status = "pending" ~> jobs[j].status \in Terminal

\* Refuted: MEMORY.md says of the scheduler "is serialized via `s.mu` (entire
\* tick is atomic)"; then a job is only assigned to a node that is online.
AssignedToOnlineNode ==
    [][\A j \in Jobs :
          jobs[j].status = "pending" /\ jobs'[j].status = "assigned" =>
              NR!Online(jobs'[j].node)]_vars
=============================================================================
