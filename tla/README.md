# Verification of Runstack

Runstack is a small control plane with agents. Clients submit batch *jobs* and
deploy *applications*; agents on worker nodes run job commands and the containers
of application instances, and report back over HTTP. This directory holds TLA+
models of its core, the TLC configurations that check them, and theorems checked
by TLAPS. Paths below are relative to the repository root.

## 1. The system

Everything runs in one control-plane process plus one agent process per node.
State is in memory: each registry is a map behind its own mutex, and nothing spans
two registry calls. Four kinds of activity interleave:

* HTTP handlers (one goroutine per request), which call one or more registries;
* the control-plane loop (`cmd/runstack/cp.go`), which runs the job scheduler,
  the instance reconciler, the instance scheduler and the routing reconciler one
  after the other on every tick, working on *copies* that `List` returns;
* the offline detector, a loop of its own;
* the agents: a heartbeat loop, a job loop, an instance executor loop, and one
  goroutine per probe of an instance.

### Inventory

| Component | State | Operations | Hard because | Correct when |
|---|---|---|---|---|
| Job registry (`internal/job`) | jobs, event log | Create, Update (PATCH and scheduler), Claim, ReportResult, RecoverNodeJobs, RecoverExecutionTimeouts | late, repeated and lost claims and reports; PATCH reaches any status | an outcome is final, an execution is fenced, the retry budget bounds the runs, the log explains the status |
| Node registry (`internal/node/registry.go`) | nodes with LastSeen, OfflineSince | Register, Heartbeat, MarkOfflineNodes | heartbeats race the sweep | OfflineSince agrees with the status |
| Job scheduler (`internal/scheduler/scheduler.go`) | round-robin cursor | SchedulePendingJobs | snapshots grow stale during a tick, by PATCH too | a stale list harms no job that runs or is over, load is spread, every job ends |
| Agent job loop (`cmd/runstack/agent.go`, `executor.go`) | the job it runs | register, heartbeat, poll, claim, run, report with retries | crashes and lost answers at any point | a result is reported for the run that produced it |
| Instance registry (`internal/instance`) | instances | Create, UpdateState, Claim, ReportStatus, MarkUnknown, MarkDraining | written by reconciler, scheduler, agents and probers | terminal records are frozen, one claim per instance |
| Instance reconciler (`internal/scheduler/instance_reconciler.go`) | none (records only) | recover orphans, evaluate health, scale | acts on copies | replicas are kept, never exceeded in service unless degraded |
| Instance scheduler and capacity (`instance_scheduler.go`, `node_capacity.go`) | round-robin cursor | SchedulePendingInstances, CalculateAll | one capacity computation for a whole tick, on lists of different moments | no node overcommitted, what fits is placed, what does not is said to be blocked |
| Rollout controller (`internal/scheduler/rollout_controller.go`) | rollout status | rolling and immediate targets | two limits at once, other limits with every deployment, deploys and rollbacks in the middle of a tick | surge and availability bounds, progress |
| Instance executor (`internal/executor`, `internal/node/port_allocator.go`, `internal/runtime/docker`) | activeSpecs, activePorts, probers, allocated ports | claim, start, monitor, stop, probe, syncPorts | restarts lose the memory, docker and requests fail | containers of ended instances stop |
| AppService, deployment and application registries, Apply | application record, deployments | CreateApp, DeployApp, UpdateApp, RollbackApp, Apply | several registry calls per request | one active deployment, immutable snapshots, idempotent apply |
| Secrets (`internal/application/secret.go`) | values with UpdatedAt | Set, Delete, Resolve at claim time | an update must reach a deployment whose spec did not change | a deploy after an update takes effect |
| Services, domains, ingresses (`internal/route/registry.go`, `internal/ingress`) and their handlers, Apply's part of them | three maps | Create, Update, Delete; Apply's find, create, replace, prune | several registry calls per request, hosts change hands between them | no ingress across applications, apply configures its manifest and nothing else |
| Routing reconciler and proxy table (`routing_reconciler.go`, `proxy_impl.go`) | the routing table | Reconcile, UpdateRoutes | five lists under five locks, draining in another component | one rule per host and path, true of the round, convergence; drained before stopped |
| Certificates, authentication, logs, CLI, PostgreSQL repositories | | | | not modelled, see section 8 |

## 2. Modules

| Module | Models | State and actions |
|---|---|---|
| `Job` | one job record | `Created`, `Updated`, `Claimed`, `Finished`, `Requeued`, `Reported`, `Recovered` are what the registry's operations do to a record; `UpdateAccepted`, `ClaimAllowed`, `ResultAccepted` are their conditions |
| `JobRegistry` | the job registry with its log | `jobs`, `events`, `issued` (how many ExecutionIDs were generated); one action per operation. `CoreNext` is the registry as scheduler and agents use it, `Next` adds PATCH with any request in `Patches` |
| `JobLifecycle` | abstract: what a user is promised | `phase`, `runs`, `limit`; `JobRegistry` and `JobSystem` implement it |
| `NodeRegistry` | the node registry | used by `INSTANCE` from both system modules |
| `JobSystem` | batch jobs end to end | composes job registry, node registry, scheduler, handlers (PATCH with any request in `Patches` included) and agents; `sched` is the scheduler's place in its tick with its snapshots, `reqs` the requests under way; `exits` is a history of processes that ended, `patched` of jobs a client has changed |
| `Instance` | one instance record, the deployment's crash counter | as `Job` |
| `InstanceSystem` | instances end to end | `loop` is the control-plane loop with the decisions it still has to apply, `memory`, `allocated` and `agents` the executor, `containers` docker |
| `RolloutTargets` | `computeRollingTarget`'s arithmetic | operators only, for the active deployment's own replicas and limits |
| `Rollout` | rolling updates: ticks, deploys, rollbacks and what happens to instances | `tick` holds what a tick has read and decided; its steps are the computation of the targets, the second list with the creations for one deployment after the other (the active one first), and each marking or stopping of an instance; `revived` is a history of instances that a late report took back from STOPPING |
| `Apps` | AppService, a secret, and the deployment part of Apply | one step per registry call, several clients; `Compared` is the part of a spec that `specsMatch` looks at; `secret` and `outdated` say whether the secret exists and which deployments are older than its UpdatedAt; `overlapped` is a history variable |
| `Scheduling` | the instance scheduler with the capacity calculator | `loop` is the tick with its copies (`nodes`, `caps`, `todo`), `blocked` the deployments with a BlockedReason; reconciler, agents and nodes take any step the instance registry lets them take |
| `NetRegistries` | service, domain and ingress registries | state and calls, extended by the next two; `RegistryCall` is what clients may do: proved of `Networking`, used by `Routing` |
| `Networking` | the handlers of services, domains and ingresses, and the networking part of Apply | one step per registry call, several clients; `reqs[c].alone` is a history of overlaps |
| `Routing` | the routing reconciler and the proxy's table | `loop` is the round with its copies, `table` the proxy's rules, `owners` a history of who owned which host during the round; clients make any sequence of the calls in `RegistryCall`, also those that create an ingress of a domain or service deleted since it was checked: it may still be in the round's copies |
| `MC*` | TLC instances | constants, the log bound, symmetry of clients |
| `JobRegistryProofs`, `JobSystemProofs`, `InstanceSystemProofs`, `AppsProofs`, `RolloutProofs`, `SchedulingProofs`, `NetworkingProofs`, `RoutingProofs` | theorems | section 6 |

How the code is abstracted:

* *Ids.* A random ExecutionID is the number of the claim that made it; uniqueness of
  random ids is assumed. Deployment ids are random, so `Rollout` gives a new
  deployment any free id.
* *Time.* A time is what the code compares it with: a start time is `nil`, recent or
  overdue, `DrainingSince` is `nil`, recent or elapsed, a heartbeat is fresh or missed.
  The step from one to the next may happen at any moment, so every relative speed of
  the timeouts is explored.
* *Locks.* A registry call is one step; a handler or tick that makes several calls is
  as many steps. `JobHandler.Claim` (node online? then claim) and
  `InstanceHandler.ReportStatus` (read, then apply) are two each. Two exceptions: the two Gets of
  `IngressHandler.Create` are one step, because ids are not reused and no call changes the
  application of a domain or service, and `ComputeTargets` (below).
* *Network.* A request is processed once, or is lost, or is processed after its sender
  gave up. Failing requests, crashes, missed heartbeats of living agents and failing
  docker commands together are bounded by `MaxFaults`.
* *Docker.* A container is absent, created (a start that failed half way), running or
  exited. `errorsIsNotFound` takes exit status 1 for "no such container", whatever
  caused it, and `NotFound` models exactly that.
* *Resources.* Cores and megabytes are small natural numbers. Jobs consume nothing, because
  `Registry.Create` of jobs drops the resources of a request.
* *Hosts.* A domain name is written in one of several `Spellings` and `Normalize` maps them
  to what the registry stores. An endpoint stands for its instance.
* *Rolling updates.* Each deployment has its own replicas, MaxSurge and MaxUnavailable, those of
  its SpecSnapshot. All deployments of `Rollout` use the RollingUpdate strategy
  (`InstanceSystem` has the immediate one), and the drain timeout is positive. The three lists
  of `ComputeTargets` and its writes of the rollout status are one step. What comes between them
  can change the status that is reported, which only `RolloutCompletes` reads, and a breaker that
  opens there can be seen by a tick with the counts from before: such a tick drains nothing and
  replaces what ended, as a tick does after which an instance ends (`DegradedCreates`).
  Scheduler, agents and nodes are folded into what can happen to an instance.
* *Payloads.* Names, commands, output, environment and images are left out or are
  members of small sets (`Specs`).

## 3. Runs

`tlc -workers 2 -config X.cfg M`; `PROJECT.json` lists cfg and module of each run.

| Run | Question | Answer |
|---|---|---|
| `registry_core` | two jobs, two nodes, every order of registry operations without PATCH | types, fields per status, a complete log; implements `JobLifecycle` |
| `registry_patch` | one job and one node, when clients PATCH any field combination at any time | budget, frozen outcome and fencing survive PATCH |
| `job_system_faults` | one job, two agents, two faults or PATCH requests anywhere | the recorded outcome of a job that no client has PATCHed is the outcome of a process that ran under the recorded execution on the recorded node; an execution runs once; no more processes than the budget allows; OfflineSince is right; a tick whose pending list has become stale leaves jobs that run or are over alone; consecutive assignments go to different nodes |
| `job_system_liveness` | does every job end? | yes, as long as some agent stays up, through a crash, lost claim or lost report |
| `scheduling` | three instances, two deployments, two nodes of different size, one outage | no node is overcommitted, a blocked deployment is not reported as fitting, a pending instance does not wait for ever beside a node with room |
| `instance_faults` | two instances, one fault, one supersession | claimed once, an unclaimed instance is given up only after the unknown timeout, in service at most `Replicas` unless degraded |
| `instance_fencing` | one instance, both probers beside the loop, a fault, a supersession | the container of an ended instance stops, a superseded deployment ends with no container, and no late report or stale decision revives an instance that is over |
| `rollout` | updates between versions with different replicas and limits, rollbacks, a failure, late reports, crash breaker, between any two steps of a tick | each tick ends within the surge of the deployment it found active; while one version replaces another the minimum serves at every step; a tick that finds the deployment degraded takes nothing out of service; convergence |
| `apps` | two clients deploy, update, roll back, apply, while a secret is set and deleted | snapshots are immutable under any overlap; one at a time, one active deployment, deploys that bring every compared field and the current secret into effect, idempotent apply |
| `networking` | two clients change domains, services, ingresses and apply manifests of two applications | no ingress across applications and no apply that touches another application under any overlap; alone, an apply leaves the manifest's domains and no other, each with an ingress (of which path and port is not said) |
| `routing` | five registry calls and an instance's life beside routing rounds | at most one rule per host and path, hosts go only to applications that owned them during the round, no traffic to an instance told to stop after draining, the table converges |
| `rollback_draining` | violation | section 5 |

Every property of a passing run is broken by a mutant of the code's definition,
defined next to the original (comments "Mutant of ...").

### Bounds, and why they are enough

* *Registry*: without PATCH two jobs are enough for sweeps that treat several jobs together,
  two nodes for a job that changes hands, retry limits 0 and 1 for both sides of every budget
  test. With PATCH, where any combination of fields may be sent, there is one job and one node:
  what is checked there is about each job alone, and jobs do not interact.
  A job assigned and recovered without a claim grows its log for ever, so `MaxEvents = 7`
  bounds it: a job with one retry can go through both of its runs. This is why these
  configurations switch the deadlock check off. The theorems of section 6 have no bound.
* *JobSystem*: one job with two nodes contains every hand-over; two faults combine, for
  example, a lost claim answer with a crash, or a PATCH with either. A client assigns the job
  itself, says that it runs, or that it has succeeded, with and without a node (`MCPatches`):
  these leave the tick's list stale in each way that matters. `MaxTries = 2` (5 in the code) has a first and
  a last try. `Overcommitted = {}`: capacity is not what these runs are about.
* *InstanceSystem*: one node, because instances never move: a lost one is replaced. Two
  instances with `Replicas = 1` hold an old instance and its replacement. `CrashLimit = 2`
  separates one crash from a crash loop. `MaxDeploys = 1` is a supersession, 2 (in
  `rollback_draining`) also a rollback; its second instance id is there for the replacement
  that the reconciler could create. The fencing run has one instance, with both probers:
  what is shown concerns one container, and the probers multiply the states.
* *Rollout*: two deployments with different numbers, one with two replicas, no surge and one
  unavailable, the other with one replica, a surge of one and none unavailable: the two extremes
  of the validation's deadlock rule, an update in one direction lowers the replicas and in the
  other raises them. Three instances exceed the bound of either by one, so `TickEndsWithinSurge`
  can fail; three deploys are deploy, deploy, roll back. One fault is an instance that ends, stops
  being ready or is revived; `CrashLimit = 1` lets one crash open the breaker. Larger numbers are
  the theorems' part.
* *Apps*: two clients, three deployments, specs of which two differ only in a probe, four requests: enough for deploy, second deploy,
  rollback and a further request. The bound on requests ends behaviours, so the deadlock
  check is off there too. Clients are interchangeable (symmetry); no liveness is checked
  with it.
* *Scheduling*: instances of deployment A fit only on the larger node and B's on both, and
  B's is listed between those of A: two instances compete for a node within one tick, a
  tick places one and blocks another of the same deployment, and the cursor wraps.
* *Networking*: one host, two applications, two ports and paths, four requests: a domain, a
  service and an ingress made by hand, or a previous apply, and an apply on top, overlapping
  with what another client deletes or takes over. More hosts would only be more rounds of
  Apply's loop; `NetworkingSpelling` has two spellings.
* *Routing*: five registry calls give a host two owners with an ingress of the second, or
  two rules of one host, or a replaced ingress. One instance is enough: properties are about
  pairs of a rule and an instance.

One type invariant is part of a run (`registry_core`) and proved; those of the other modules
(`TypeOK` of each) were checked with the same constants and hold.

## 4. Fairness

* `JobSystem!FairSpec`: the control-plane loop, the detector and a running agent's steps are
  goroutines that keep running; a request that is not lost is answered; a running agent's
  heartbeats arrive; a dead agent's stop; clocks advance. Nothing is assumed of an agent
  being started again: `EveryJobEnds` has "some agent is up from some point on" as its
  premise.
* `InstanceSystem!FairSpec`: the same, and a dead agent is started again (a container cannot
  be stopped by an agent that never returns). `ProbedSpec` adds that probers eventually
  report what they see; only the configurations of section 5 use it, so that no
  counterexample there comes from a prober that never runs.
* `Scheduling!Spec` and `Routing!Spec`: only the control-plane loop is fair. Nodes, agents,
  the instance reconciler and clients may stop at any time.
* `Rollout!FairSpec`: the loop's steps happen, some instance that can become ready or stop
  does, the drain timeout passes. Fairness is of the set of instances and not of each: those
  that wait are finitely many. Deploys, rollbacks and faults are never forced.

Faults have no fairness and are bounded, so "eventually" means after the last fault.

## 5. Divergences between documents and code

One is a run and a finding in `PROJECT.json`:

* `rollback_draining`: nothing clears `Draining`. After a rollback the target's surviving
  instances count as capacity, so none is created, and they are never routed to
  (docs/MILESTONE_8E_DESIGN.md:80). `RollbackServes` says that if some deployment is, from some
  point on, active and not degraded, then again and again an instance is routable. The
  counterexample is a loop in which the deployment is active, one instance drains, and an
  instance id is free for the replacement that is never made. It is Draining alone: with a
  `Routable` that does not look at Draining the property holds with the same constants
  (15,506 states).

The configurations below each check one further statement and TLC answers with a
counterexample. They are kept so that a change of the code or the document can be tested
against them; none of the passing runs depends on them. Where a cfg serves several statements,
they are refuted one at a time: leave one uncommented.

| cfg (module) | Statement | What the code does |
|---|---|---|
| `PatchDivergences` (`MCJobRegistry`): `RefusedUpdateChangesNothing` | PATCH cannot bypass domain invariants (docs/ARCHITECTURE.md:128) | Update writes the new status into the record before the checks that can still refuse the request: a refused PATCH has changed the job |
| `PatchDivergences`: `TransitionsLogged` | every transition produces an event (docs/ARCHITECTURE.md:98) | Update logs only a transition into ASSIGNED |
| `PatchDivergences`: `RunningHasExecution` | agents must hit POST /claim (docs/ARCHITECTURE.md:106) | PATCH moves ASSIGNED to RUNNING without an ExecutionID or start time, hence without timeout |
| `TickAtomicity` (`MCJobSystem`) | the entire tick is atomic (MEMORY.md:94) | the detector does not take `s.mu`; a job is assigned to a node that just went offline, and recovered later |
| `LateReport` (`MCInstanceSystem`) | STOPPING goes to STOPPED or CRASHED (internal/instance/registry.go:157) | ReportStatus looks only at the reported status: a late RUNNING undoes STOPPING |
| `InstanceDivergences` (`MCInstanceSystem`): `StoppingEnds` | in STOPPING the agent invokes Stop() (docs/MILESTONE_8B_DESIGN.md:27) | an unclaimed instance that is STOPPING is looked at by nobody |
| `CrashCount` (`MCInstanceSystem`) | one increment per crash (docs/MILESTONE_8C_DESIGN.md:35) | two reports, or a report and the reconciler, count one crash twice |
| `DegradedCreates` (`MCInstanceSystem`) | no replacement while degraded (docs/MILESTONE_8C_DESIGN.md:40) | targets computed before the breaker opened are still carried out; and the target of a degraded deployment is the number of its viable instances, so one that ends between the two counts of a tick is replaced (if one that ended was draining, by an instance in service: hence the condition in `NeverOverProvisions`) |
| `PortsAfterRestart` (`MCInstanceSystem`) | the allocator map is explicit (docs/MILESTONE_8E_DESIGN.md:24) | a restart rebuilds it from records that may lack a running container's port |
| `InstanceDivergences`: `RunningBecomesHealthy` | HEALTHY at once without a readiness probe (docs/MILESTONE_8I_DESIGN.md:27) | that report is sent once and its error ignored |
| `RolloutDivergences` (`MCRollout`): `Available` | never below Desired - MaxUnavailable (docs/MILESTONE_8D_DESIGN.md:52) | after a rollback draining instances count as ready |
| `RolloutThreeVersions` (`MCRollout`) | never below Desired - MaxUnavailable (docs/MILESTONE_8D_DESIGN.md:52) | without any rollback too: a third version is deployed before the second has come up, the old total is handed out in the order of deployment ids, and an instance that still starts is kept in place of one that serves |
| `RolloutSurgeStuck` (`MCRollout`) | COMPLETED when all desired instances are healthy (docs/MILESTONE_8D_DESIGN.md:38) | up to MaxSurge old instances stay and keep the rollout from COMPLETED; proved for all parameters by `SurgeKeepsOldInstances` |
| `RolloutDivergences`: `TotalWithinSurge` | at most desired + surge in total (docs/MILESTONE_8D_DESIGN.md:24) | instances being stopped are not counted |
| `AppsOverlaps` (`MCApps`): `ExactlyOneActive` | exactly one ACTIVE deployment (docs/MILESTONE_7B_DESIGN.md:13) | overlapping deploys supersede the same predecessor |
| `AppsOverlaps`: `OneDeploymentPerManifest` | apply is strictly idempotent (docs/MILESTONE_8M_DESIGN.md:48) | overlapping applies both create a deployment |
| `AppsApplyDivergences` (`MCApps`): `AppliedReplicasAreTarget` | replicas update the scaling target (docs/MILESTONE_8M_DESIGN.md:52) | the snapshot of an applied manifest has Replicas 0 |
| `AppsApplyDivergences`: `DeployIsExact` | if the specs differ a new version is created (docs/MILESTONE_8F_DESIGN.md:33) | `specsMatch` compares neither probes nor resources: a deploy that changes only these returns the old deployment |
| `AppsApplyDivergences`: `ApplyTakesEffect` | a new hash triggers a rollout (docs/MILESTONE_8M_DESIGN.md:51) | a manifest's probe fails validation in the last call and the error is dropped |
| `NetworkingPaths` (`MCNetworking`) | domains and service update the networking registries immediately (docs/MILESTONE_8M_DESIGN.md:52) | Apply takes any ingress of a domain for the one of `/`, and leaves `/` unmapped |
| `NetworkingSpelling` (`MCNetworking`) | apply is strictly idempotent (docs/MILESTONE_8M_DESIGN.md:48) | the prune compares names as the manifest spells them: the second apply of `Example.com` deletes the domain |

The passing runs state the neighbouring properties that do hold: `TickKeepsAvailable` for
forward updates from one version to another, `RolloutConverges` up to the surge, `OneActiveDeployment`,
`DeployTakesEffect` (of the fields that are compared), `ApplyIdempotent` and `ApplyConfigures`
for requests that do not overlap (the last one for a manifest that spells its names as the registry does; the row of
`NetworkingSpelling` is why).

## 6. Proofs

`tlapm M.tla` for each module `M` whose name ends in `Proofs`.

`JobRegistryProofs` is about `JobRegistry!Spec`, PATCH included, for any sets of jobs and
nodes, retry limits and PATCH requests. Assumptions: `JobAssumption` (the special values
differ from nodes and exit codes; 0 and -1 are exit codes) and `RegistryAssumption`
(retry limits are natural numbers, which `internal/api/job.go` enforces). The lemmas about single
records come first; `JobSystemProofs`, whose specification is another one, repeats those it needs.

* `TypeCorrect`: `Spec => []TypeOK`. One lemma per record operation says that it returns a job.
* `BudgetHolds`: `Spec => []RetryBudget`. That `issued <= maxRetries + 1` is not inductive:
  a waiting job with its budget used up could be claimed again. `WithinBudget` adds that the
  counter equals the job's attempts, and that a job that can still be claimed has attempts
  left. The facts about `Updated` show that PATCH never brings a job back to a waiting
  status.
* `FrozenHolds`, `FencingHolds`: the action properties `TerminalFrozen` and
  `ExecutionsNeverReturn`. Lemma `StepIsStepOf` reduces a step of the registry, sweeps
  over many jobs included, to what it does to one record.
* `FieldsHold`, `LogHolds`: `CoreSpec => []ExecutionFieldsMatchStatus` and
  `CoreSpec => []EventLogComplete`. A log is complete after a step because the step appends the
  transition from the status the job had (`LogGrows`); a sweep appends at most one event per
  job. Both are about the registry without PATCH: section 5 shows that PATCH breaks them.
* `ImplementsLifecycle`: `CoreSpec => LifecycleSpec`, the refinement of `JobLifecycle`. Each step
  of the registry on a job is one abstract step of that job or none; a sweep over several jobs
  is an abstract step of all of them, which `JobLifecycle!Next` allows. The proof rests on
  `TypeOK` and on `RetryBudget`, which decides between repeating a run and giving up.

`JobSystemProofs` is about `JobSystem!Spec`, for any jobs, nodes, exit codes, PATCH requests,
numbers of attempts to report and numbers of faults. Assumptions: `JobAssumption`, `JobSystemAssumption`
(ids are numbers, so that they have the order the scheduler sorts by). All theorems share
`JobSystemInv`, which adds to the checked invariants what is under way: the ExecutionIDs that
agents hold were issued (`WorkIsIssued`), every report an agent or an orphaned request carries
is the exit of a command (`ReportsAreExits`), every job is within its budget, and a job that
waits has no ExecutionID (`WaitingHasNoExec`). What PATCH does to a record is one lemma
(`UpdatedFacts`): it never brings a job back to a waiting status, and it leaves the ExecutionID,
the attempts and the node of a running job alone.

* `IntegrityHolds`, `OneRunHolds`, `HolderHolds`: `ResultIntegrity`, `OneRunPerExecution`,
  `HolderIsAssigned`. `ResultIntegrity` alone is not inductive, since the report that will be
  recorded may be on its way for long; the ExecutionID it carries is what ties it to a process.
* `BudgetHolds`: `BudgetRespected`, with one process per issued ExecutionID, from `Budgets`
  and `OneRunPerExecution`.
* `StaleTickHolds`: the action property `StaleTickSpares`. The tick's copy does become stale,
  since a PATCH can assign a job of it, which an agent then claims; Registry.Update refuses the
  assignment that the tick still makes, except of a job that is ASSIGNED, which is assigned anew.
* `OfflineHolds`, `SpreadHolds`: `OfflineSinceMatches`, and the action property `SpreadsLoad`,
  from the lemma that round robin picks the last node again only if it is the only one.
* `SystemImplementsLifecycle`: `Spec => Lifecycle!Spec` if `Patches = {}`, the refinement of
  `JobLifecycle` by the whole system; with PATCH a job can succeed without a run. Handlers, scheduler, detector and agents read and write in different steps; the
  lemma `JobStepIsMove` shows that each step, whoever takes it, moves each job as the abstract
  module allows or not at all. What a step may rely on comes from `JobSystemInv`.

`InstanceSystemProofs` is about `InstanceSystem!Spec`, for any finite set of instances, any
nodes, ports, probes, replicas and crash limit, and any number of faults and deploys.
Assumptions: `InstanceAssumption` (the empty NodeID is no node, 0 is no port) and
`InstanceSystemAssumption`. All theorems share `InstanceInv`, which adds to `TypeOK` and
`NeverOverProvisions` three things that hold between the steps of different goroutines:

* `RecordsOK`: an instance is placed, claimed and running in this order, and only an instance
  that drains is ever STOPPING;
* `LoopOK`: what a decision can still rely on when it is carried out, although the record it was
  taken on has changed since. An assignment finds its instance still PENDING, because nothing
  else touches one that has no node; a stop finds it draining, because nothing ends draining;
  a loss finds the timeout still passed or the instance claimed;
* `AgentsOK`: executors, probers and requests under way are only about instances that were
  claimed, and no agent reports STOPPING.

`Evolves` says what may become of one record, a lemma per registry operation shows it
(`DecisionFacts`, `AssignedFacts`, `ClaimedFacts`, `ReportFacts`, `TimeFacts`), and `NextKeeps`
combines them: every step lets the records evolve or creates new ones.

* `ClaimedOnceHolds`: `Spec => []ClaimedOnce`. On its own it is not inductive: that an instance
  which went back to UNKNOWN cannot be claimed again needs its execution to be the issued one.
* `OverProvisionsHolds`: `Spec => []NeverOverProvisions`. No operation takes an instance out of
  STOPPING or a terminal status back into service, unless it is draining, so only a scale-up
  adds to what is in service, and that counts first; the target it uses is 0 or `Replicas`
  unless the breaker has opened. Without the condition the invariant fails, and the run with two
  instances had not shown it. A scripted behaviour of `InstanceSystem` with four instances does:
  an instance is draining when a rollback makes its deployment active again, a late report puts
  it back to RUNNING, the breaker opens, the target is computed from a count that includes it,
  and it ends before the second count (`internal/scheduler/rollout_controller.go:108`,
  `internal/scheduler/instance_reconciler.go:63`).
* `FrozenHolds`, `LossHolds`: the action properties `TerminalFrozen` and `LossTakesTimeout`,
  which follow from `Evolves`.

`AppsProofs` is about `Apps!Spec`, for any number of clients, requests, deployments and specs.
Assumption: `AppsAssumption`. The inductive `AppsInv` has two parts: what holds whatever
overlaps (`RegistriesInv`: a request only knows deployments that exist and made or chose the one
it works on), and, as long as nothing has overlapped, what the only request under way can rely
on at each of its calls (`OneAtATime`).

* `OneActiveHolds`, `IdempotentHolds`: `OneActiveDeployment` and `ApplyIdempotent`. Neither is
  inductive: between creating, switching and superseding there are two active deployments or
  none, so `StatusOK` says which ones at each call.
* `SnapshotsHold`: the action property `SnapshotsImmutable`, overlaps included.
* `DeployHolds`: the action property `DeployTakesEffect`: what is compared, the replicas and the
  secret for a deploy, the whole spec for an update. `AloneOK` carries from the comparison to the
  end of the request that a deployment just made has the spec and is not outdated.

`RolloutProofs` is about the arithmetic of a tick, and about `Rollout!Spec`, for any finite set
of instances, any deployments and numbers of deploys and faults, and any replicas, surge and
unavailable of each deployment (`StrategyAssumption`: natural numbers that pass the deadlock rule of
`ValidateAppSpec`; `RolloutAssumption`).

* `PlanWithinSurge`: the targets stay within Replicas + MaxSurge, never shrink the active
  deployment and never grow an old one.
* `PlanKeepsAvailable`: the old instances that serve may all stay, or enough of them for
  Replicas - MaxUnavailable.
* `SurgeKeepsOldInstances`: with a full active deployment up to MaxSurge old instances are a
  fixed point, so COMPLETED is not reached.
* `NoSurgeRetiresOld`: without surge every old instance is retired.
* `Invariant`: `Spec => []RolloutInv`. The tick's numbers come from one list, each deployment is
  compared with them on a later one, and what is to be drained is drained later still. The
  invariant says what survives this. `PopulationOK`: no deployment ever has more viable instances
  than its own Replicas, plus one for each late report that revived one. `PlanOK`: the targets
  together are within the surge; the sum over the old deployments is a chain of partial sums in
  the order of ids. `KeptOK`: a deployment already converged keeps no more than its target,
  counting as gone what is still to be drained. `AvailabilityOK`: what serves and will be kept of
  the active and one older version is enough.
* `SurgeHolds`: `Spec => []TickEndsWithinSurge`, from `PlanOK` and `KeptOK` once the tick is over.
  A scale-down keeps those that come last in the order of removal; lemmas about that order
  (`LeastNat`, `Foremost`, `FewSurvive`) bound how many stay, with well-foundedness of the natural
  numbers in place of induction.
* `SparesHolds`: the action property `DegradedSpares`. Of a degraded tick's targets, each is at
  least what its deployment has in service until the tick ends: only draining instances can come
  back, and they are the first to be taken.
* `AvailabilityHolds`: `Spec => []TickKeepsAvailable`. A scale-down takes the instances that do
  not serve before those that do (`FewOfTheLast`, `ServingLast`). For several older versions the
  proof did not go through, and TLC then refuted that form with three deployments
  (`RolloutThreeVersions`); `PlainUpdate` is the case in which the code keeps the promise.

`SchedulingProofs` is about `Scheduling!Spec`, for any instances, nodes, resources, capacities,
requests and number of outages. Assumption: `SchedulingAssumption` (ids are numbers, capacities
and requests natural numbers).

* `SchedulingInvariant`: `Spec => []SchedulingInv`. From the computation of the capacity to
  the end of the tick the scheduler's copy is never more than what is free: agents and the
  reconciler only free room meanwhile, and each placement takes from the copy what it takes from
  the node. What is still to be placed is PENDING, and what found no node fits nowhere, since
  the copy only shrinks. TLC found it to hold with the constants of `Scheduling.cfg` (64,392
  states) before it was proved.
* `NodesNeverOvercommitted`: `Spec => []NeverOvercommitted`, a bound on a sum over the
  instances of a node. That the sum grows by one term when an instance is added
  (`LoadIsAdditive`) is proved without an induction theorem: a finite set on which it failed
  would have a smallest one (`SmallestSet`, from `LeastNat`), and that cannot exist.
* `PlacingHidesNoReason`: the action property `ReasonNotHidden`. A placement clears its
  deployment's reason; but all instances of a deployment ask for the same, so while one that
  was left over fits nowhere, a later one of the same deployment cannot be placed.

`NetworkingProofs` is about `Networking!Spec`, for any numbers of clients, applications, host
names, paths, ports and requests. Assumptions: `NetAssumption` (normalising yields a name,
"/" is a path, 0 is no port, "none" is no application) and `NetworkingAssumption`.

* `WithinApplication`: `Spec => []IngressWithinApplication`. The property is not inductive:
  between the comparison of the applications and the creation of the ingress other requests
  delete and create. `WithinInv` adds what each request has found out and still holds
  (`Held`): the domain and the service at its position belong to its application, unless
  deleted by then. This is kept because ids are not reused and no call changes the application
  of a record (`KeepsDomains`, `KeepsServices`; the module's first lemmas prove them call by
  call). So the check may be stale about existence, never about ownership.
* `StaysWithinHolds`: the action property `ApplyStaysWithin`. `StaysInv` adds to `WithinInv`
  what an apply took from its lists (`Listed`): the domains listed before the prune, and the one
  being pruned, are its application's as long as they live, and the ingress it is about to
  delete is one of the domain it holds. No call of any other request makes a listed record
  another application's (`NextKeepsRecords`), so a prune of a stale list can miss a host but
  cannot hit a foreign one. `StaysInv` is no run of its own; TLC found it to hold with the
  constants of `Networking.cfg` (1,704,981 states) before it was proved.
* `ConfiguresHolds`: the action property `ApplyConfigures`. What an apply's three loops have
  achieved so far is `Accounted`: each domain of the application is still in the list made
  before the loops, or is mapped, or is being mapped; each mapped name has its domain and that
  domain an ingress; what is being pruned is not in the manifest. The last step finds nothing
  left to map and nothing to prune, and since names are unique (`NamesUnique`) what remains is
  the manifest. `Accounted` is only claimed of a request that is alone, so `ConfiguresInv` also
  says that alone means what it says: as soon as a second request arrives, neither is
  (`AloneMeansAlone`). One lemma per call (`ListingAccounts` to `PrunedAccounts`) shows that it
  is kept. The proof needs a manifest with normalized names; without, the property fails, which
  one spelling in the run had hidden. TLC found `ConfiguresInv` to hold with the
  constants of `Networking.cfg` (1,704,981 states) and with three spellings.
* `CallsHold`: `Spec => OnlyRegistryCalls`: whatever overlaps, requests change the registries
  only by `RegistryCall`. This is what joins the two modules: `Routing` runs its rounds beside
  any sequence of these calls, so its theorems hold for the handlers and for apply. The
  invariant `CallsInv` adds that a request which creates an ingress has chosen a service
  (`Chosen`); uniqueness of names and paths is checked in the call itself, and that domain and
  service were of one application comes from `WithinInv`.
* `NetworkingTypes`: `Spec => []TypeOK`, from the first invariant: that an apply only calls
  Create with an application, a name and a port of its own needs `Held`.

`RoutingProofs` is about `Routing!Spec`, for any instances, applications, names, paths, ports
and number of registry calls. Assumptions: `NetAssumption` and `RoutingAssumption`. The
theorems share the inductive invariant `RoutingInv`, which relates the registries to the
round's copies.

* `OneRuleHolds`: `Spec => []OneRulePerPath`. Live domains have different names, also in
  the copy, and live ingresses of a domain have different paths, so two rules for one host and
  path come from one ingress.
* `RoutesTrue`: the action property `RoutesWereTrue`. The owners of hosts in the copy of the
  domains are among those that owned them since the services were listed, so joining old
  services with newer domains by application cannot send a host elsewhere.
* `DrainThenStop`: the action property `DrainedBeforeStop`. Between rounds no draining instance
  is in the table: the copy was made after the reconciler marked it, and an instance only
  begins to drain when a new round begins.
* `RoutingTypes`: `Spec => []TypeOK`.

Only model-checked: liveness (`EveryJobEnds`, `FencedContainersStop`, `SupersededStops`,
`RolloutConverges`, `PendingIsPlaced`, `TableConverges`), which is out of the prover's reach, like
ENABLED. The library's induction theorems are out of its reach too, because they take an operator
as parameter; where a proof needed induction over the natural numbers or over finite sets, the
smallest counterexample took its place (`LeastNat`, `SmallestSet`). Every invariant and action
property of a passing run is stated by a theorem.

## 7. Hazards

`PROJECT.json` lists the places in the code that tests hardly reach, with the property that
guards each. They come in six groups: late or repeated messages between agents and control
plane; decisions taken on copies; restarts of agents; requests made of several registry
calls; capacity and routing computed from lists of different moments; and the arithmetic of
budgets and rollouts. Some are known and have no property:

* after an agent's restart the probers of running instances are not started again
  (`internal/executor/instance_executor.go:228`; `memory` models it, no document promises
  otherwise);
* a secret that cannot be resolved crashes each claimed instance without counting a crash, so
  the breaker never opens (`internal/api/instance.go:75`);
* the rollout status is written back from copies by rollout controller and instance scheduler
  (`internal/scheduler/rollout_controller.go:187`), so that the PENDING of a rollback in
  between can be overwritten; the next tick computes it again;
* the proxy takes the first rule whose path is a prefix of the request's, in the order of a Go
  map (`internal/route/proxy_impl.go:151`): with `/` and `/api` of one host the order decides
  which serves `/api`, and it may change with every routing round;
* a reconciler's "lost" can hit an instance that was claimed since it was listed
  (`internal/scheduler/instance_reconciler.go:190`): it is given up and its container stopped;
* the goroutine of an earlier certificate request overwrites the status of a later one
  (`internal/ingress/tls.go:126`).

## 8. Not modelled

* Authentication: stateless token checks; the models start behind them.
* Certificates and the TLS flag of a domain: issuing and caching is the autocert library's,
  and the status that Runstack keeps beside it is only displayed.
* Forwarding of a request by the proxy: prefix match and the order of the rules, load balancing, redirects. The table it
  reads is modelled, an atomic pointer to rules.
* Changing capacity of a node that registers again, and floating-point CPU shares.
* Crash logs: a ring buffer with a single writer under one mutex, read by one handler.
* PostgreSQL repositories and migrations: not wired into the control plane.
* Log streaming, metrics, CLI, configuration, formatting, system information: no other component's
  state depends on them.
* Negative MaxSurge or MaxUnavailable, which the validation lets through and no document
  gives a meaning to.
* The moments between the writes of one `ComputeTargets` to the rollout status (`Rollout` has
  them as one step).

## 9. Plan

Order of work; all of it is done.

1. `Job`, `JobRegistry`, `JobLifecycle`: records, operations, log, refinement, proofs.
2. `NodeRegistry`, `JobSystem`: scheduler, handlers, agents, faults, liveness.
3. `Instance`, `InstanceSystem`: reconciler, executor, docker, probers.
4. `RolloutTargets`, `Rollout`: arithmetic with proofs, sequences of ticks.
5. `Apps`: application service, secrets and apply.
6. `Scheduling`: capacity and placement.
7. `NetRegistries`, `Networking`: the requests that change what is routed.
8. `Routing`: the table computed from lists of different moments.
9. Proofs (section 6): every safety property of the runs, the refinement of `JobLifecycle` by
   the registry and by the job system, and the calls that join `Networking` and `Routing`.
   Left: nothing but liveness, which stays with TLC.
