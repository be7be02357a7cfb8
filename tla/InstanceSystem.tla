--------------------------- MODULE InstanceSystem ---------------------------
(***************************************************************************)
(* Long-running instances end to end: the instance registry, the instance  *)
(* reconciler and scheduler (internal/scheduler), the HTTP handlers of     *)
(* internal/api/instance.go, the InstanceExecutor of every node's agent    *)
(* with its probers and port allocator (internal/executor, internal/node)  *)
(* and the container runtime (internal/runtime/docker).                    *)
(*                                                                         *)
(* There is one application with one deployment of strategy Immediate; an  *)
(* operator may deploy something else (the deployment is superseded) and   *)
(* roll back to it.  The control-plane loop is one goroutine; it works on  *)
(* copies (List) and applies its decisions to the current records, so      *)
(* every decision is a <<operation, instance>> pair in loop.todo that may  *)
(* be stale when it is carried out.  Requests of an agent are processed    *)
(* once, or lost, or processed after the agent gave up on them.            *)
(***************************************************************************)
EXTENDS Instance, Integers, Sequences, FiniteSetsExt

CONSTANTS Instances,     \* instance ids, numbers: ties are broken by id; finite, as memory is
          Replicas,      \* replicas of the deployment's spec
          Probes,        \* the probes of its spec
          MaxFaults,     \* bound on crashes, failures and broken requests
          MaxDeploys     \* bound on deploys and rollbacks

ASSUME InstanceSystemAssumption ==
    /\ Instances \subseteq Nat /\ IsFiniteSet(Instances) /\ Replicas \in Nat
    /\ Probes \subseteq {"readiness", "liveness"}
    /\ MaxFaults \in Nat /\ MaxDeploys \in Nat

VARIABLES insts,        \* the instance registry
          issued,       \* ExecutionIDs generated so far, per instance
          dep,          \* the deployment: its crash counter, whether it is active
          nodes,        \* as in NodeRegistry
          loop,         \* the control-plane loop: position and decisions
          agents,       \* the executor loop of each node's agent
          memory,       \* what the executor remembers of an instance
          allocated,    \* PortAllocator of each node: port -> instance, 0 is free
          containers,   \* the container of each instance
          reqs,         \* requests the control plane has not answered
          deploys, faults

vars == <<insts, issued, dep, nodes, loop, agents, memory, allocated,
          containers, reqs, deploys, faults>>

NR == INSTANCE NodeRegistry

-----------------------------------------------------------------------------
(* State                                                                   *)

Ops == {"unknown", "lost", "unhealthy", "settled", "drain", "stop", "stopping",
        "assign"}

Loop == [pc: {"list", "orphans", "health", "scale", "scaling", "assign"},
         online: SUBSET Nodes, desired: Nat, todo: SUBSET (Ops \X Instances)]

\* A copy of an instance that an agent got from GET /instances.
Copy == [id: Instances, exec: Nat, status: Statuses, health: Healths]

Report == [kind: {"report"}, from: {"loop", "readiness", "liveness", "gone"},
           node: Nodes, id: Instances, exec: Nat, status: Reportable,
           health: Healths, port: PortRange \cup {0},
           seen: Statuses \cup {"unread"}]
Claim == [kind: {"claim"}, from: {"loop", "gone"}, node: Nodes, id: Instances]

\* out: the reports the loop still has to send, in order.
Agent == [pc: {"down", "poll", "claim", "start", "probers", "inspect"},
          todo: SUBSET Copy, cur: Instances \cup {0}, exec: Nat,
          out: Seq(Report)]
DownAgent == [pc |-> "down", todo |-> {}, cur |-> 0, exec |-> 0, out |-> <<>>]

\* spec: activeSpecs has the instance; probing: probers has it.  ready is the
\* readiness goroutine's currentHealth ("" when it does not run), live tells
\* whether the liveness goroutine runs.
Memory == [spec: BOOLEAN, probing: BOOLEAN, ready: Healths, live: BOOLEAN]
NoMemory == [spec |-> FALSE, probing |-> FALSE, ready |-> "", live |-> FALSE]

\* A container is found by its name or ContainerID, both unique to the
\* instance; its port is 0 when docker chose one.  A failed docker run can
\* leave a container that was created and never started.
Container == [state: {"none", "created", "running", "exited"}, node: Nodes \cup {NoNode},
              port: PortRange \cup {0}]
NoContainer == [state |-> "none", node |-> NoNode, port |-> 0]

TypeOK ==
    /\ insts \in [Instances -> Instance] /\ issued \in [Instances -> Nat]
    /\ dep \in [crashes: Nat, degraded: BOOLEAN, active: BOOLEAN]
    /\ NR!NodeTypeOK
    /\ loop \in Loop
    /\ agents \in [Nodes -> Agent]
    /\ memory \in [Instances -> Memory]
    /\ allocated \in [Nodes -> [PortRange -> Instances \cup {0}]]
    /\ containers \in [Instances -> Container]
    /\ \A r \in reqs : r \in Report \/ r \in Claim
    /\ faults \in 0..MaxFaults /\ deploys \in 0..MaxDeploys

Init ==
    /\ insts = [i \in Instances |-> NoInstance]
    /\ issued = [i \in Instances |-> 0]
    /\ dep = [crashes |-> 0, degraded |-> FALSE, active |-> TRUE]
    /\ NR!NodeInit
    /\ loop = [pc |-> "assign", online |-> {}, desired |-> 0, todo |-> {}]
    /\ agents = [n \in Nodes |-> DownAgent]
    /\ memory = [i \in Instances |-> NoMemory]
    /\ allocated = [n \in Nodes |-> [p \in PortRange |-> 0]]
    /\ containers = [i \in Instances |-> NoContainer]
    /\ reqs = {} /\ deploys = 0 /\ faults = 0

cpVars == <<insts, issued, dep, nodes, loop>>
agentVars == <<agents, memory, allocated, containers>>
bounds == <<deploys, faults>>

Fault == faults < MaxFaults /\ faults' = faults + 1

-----------------------------------------------------------------------------
(* The operator                                                            *)

\* Another version is deployed, or the application is rolled back to this one.
Deploy ==
    /\ deploys < MaxDeploys /\ deploys' = deploys + 1
    /\ dep' = [dep EXCEPT !.active = ~@]
    /\ UNCHANGED <<insts, issued, nodes, loop, agentVars, reqs, faults>>

-----------------------------------------------------------------------------
(* The control-plane loop: InstanceReconciler.Reconcile, then              *)
(* InstanceScheduler.SchedulePendingInstances                              *)

Goto(pc, todo) == loop' = [loop EXCEPT !.pc = pc, !.todo = todo]
LoopAt(pc) == loop.pc = pc /\ loop.todo = {}
LoopOnly == UNCHANGED <<insts, issued, dep, nodes, agentVars, reqs, bounds>>

\* recoverOrphanedInstances: the nodes are listed before the instances.
RecoverNodes ==
    /\ LoopAt("assign")
    /\ loop' = [loop EXCEPT !.pc = "list", !.online = {n \in Nodes : NR!Online(n)}]
    /\ LoopOnly

Orphaned(i) ==
    /\ i.node # NoNode /\ i.node \notin loop.online
    /\ i.status \in Viable \ {"UNKNOWN"}

\* Mutant of UnknownTooLong: an instance is given up as soon as it is UNKNOWN.
UnknownTooLongAtOnce(i) == i.status = "UNKNOWN" /\ i.unknown # "nil"

UnknownTooLong(i) == i.status = "UNKNOWN" /\ i.unknown = "expired"

RecoverOrphans ==
    /\ LoopAt("list")
    /\ Goto("orphans", ({"unknown"} \X {i \in Instances : Orphaned(insts[i])})
                  \cup ({"lost"} \X {i \in Instances : UnknownTooLong(insts[i])}))
    /\ LoopOnly

Unhealthy(i) == i.status = "RUNNING" /\ i.health = "UNHEALTHY"
Settled(i) == Ready(i) /\ i.started = "settled"

EvaluateHealth ==
    /\ LoopAt("orphans")
    /\ Goto("health", ({"unhealthy"} \X {i \in Instances : Unhealthy(insts[i])})
                  \cup ({"settled"} \X {i \in Instances : Settled(insts[i])}))
    /\ LoopOnly

ViableInstances == {i \in Instances : insts[i].status \in Viable}

\* Mutant of Target: a superseded deployment keeps its target.
TargetKept == IF dep.degraded THEN Cardinality(ViableInstances) ELSE Replicas

\* computeImmediateTarget: the whole count at once for the active deployment,
\* what there is while it is degraded, none once it is superseded.
Target ==
    IF ~dep.active THEN 0
    ELSE IF dep.degraded THEN Cardinality(ViableInstances) ELSE Replicas

ComputeTargets ==
    /\ LoopAt("health")
    /\ loop' = [loop EXCEPT !.pc = "scale", !.desired = Target]
    /\ LoopOnly

\* The sort order of a scale-down: draining first, then not ready, then by id.
StopsBefore(i, j) ==
    LET a == insts[i] b == insts[j] IN
    IF Draining(a) # Draining(b) THEN Draining(a)
    ELSE IF Ready(a) # Ready(b) THEN ~Ready(a)
    ELSE i > j

Victims(k) ==
    {i \in ViableInstances :
        Cardinality({j \in ViableInstances : StopsBefore(j, i)}) < k}

\* A victim is marked first and stopped by a later tick, DrainTimeout later.
Retire(i) ==
    CASE insts[i].drain = "nil" -> {<<"drain", i>>}
      [] insts[i].drain = "recent" -> {}
      [] insts[i].drain = "elapsed" /\ insts[i].status \in {"ASSIGNED", "PENDING"}
           -> {<<"stop", i>>}
      [] OTHER -> {<<"stopping", i>>}

\* Mutant of Missing: instances that are not ready yet do not count.
MissingReady(desired) == desired - Cardinality({i \in ViableInstances : Ready(insts[i])})

Missing(desired) == desired - Cardinality(ViableInstances)

\* The second List of the tick, the creations, and the choice of what to stop.
\* (Instances bounds how many are ever created.)
Scale ==
    LET missing == Missing(loop.desired)
        unused == {i \in Instances : insts[i].status = "none"} IN
    /\ LoopAt("scale")
    /\ \E new \in SUBSET unused :
          /\ Cardinality(new) = Max({0, Min({missing, Cardinality(unused)})})
          /\ insts' = [i \in Instances |-> IF i \in new THEN Created ELSE insts[i]]
    /\ Goto("scaling", UNION {Retire(i) : i \in Victims(-missing)})
    /\ UNCHANGED <<issued, dep, nodes, agentVars, reqs, bounds>>

SchedulePending ==
    LET online == {n \in Nodes : NR!Online(n)} IN
    /\ LoopAt("scaling")
    /\ loop' = [loop EXCEPT
          !.pc = "assign", !.online = online,
          !.todo = IF online = {} THEN {}
                   ELSE {<<"assign", i>> : i \in {j \in Instances :
                                                insts[j].status = "PENDING"}}]
    /\ LoopOnly

\* Carrying out one decision.  Which online node gets an instance is left open
\* (InstanceScheduler's round robin and its capacity check).
Do(op, i) ==
    /\ <<op, i>> \in loop.todo
    /\ loop' = [loop EXCEPT !.todo = @ \ {<<op, i>>}]
    /\ \/ /\ op = "assign"
          /\ \E n \in loop.online : insts' = [insts EXCEPT ![i] = Assigned(@, n)]
       \/ op = "unknown" /\ insts' = [insts EXCEPT ![i] = MarkUnknown(@)]
       \/ op = "drain" /\ insts' = [insts EXCEPT ![i] = MarkDraining(@)]
       \/ /\ op \in {"lost", "unhealthy"}
          /\ insts' = [insts EXCEPT ![i] = UpdateState(@, "CRASHED")]
       \/ op = "stop" /\ insts' = [insts EXCEPT ![i] = UpdateState(@, "STOPPED")]
       \/ op = "stopping" /\ insts' = [insts EXCEPT ![i] = UpdateState(@, "STOPPING")]
       \/ op = "settled" /\ UNCHANGED insts
    /\ dep' = CASE op = "unhealthy" -> RecordCrash(dep)
                [] op = "settled" -> ResetCrashCounter(dep)
                [] OTHER -> dep
    /\ UNCHANGED <<issued, nodes, agentVars, reqs, bounds>>

-----------------------------------------------------------------------------
(* HTTP handlers                                                           *)

\* The loop of n waits for the answer to its last request.
Waiting(n) == \E r \in reqs : r.node = n /\ r.from = "loop"

Enter(n, pc) == agents' = [agents EXCEPT ![n].pc = pc]

\* Claim: the registry's Claim, then the spec with its secrets.  A secret that
\* cannot be resolved crashes the instance and answers 500.
ClaimHandler(r) ==
    LET i == r.id  ok == ClaimAllowed(insts[i], r.node) IN
    /\ r \in reqs /\ r.kind = "claim" /\ reqs' = reqs \ {r}
    /\ \/ /\ ~ok /\ UNCHANGED <<insts, issued, agents, faults>>
       \/ /\ ok /\ issued' = [issued EXCEPT ![i] = @ + 1]
          /\ insts' = [insts EXCEPT ![i] = Claimed(@, issued[i] + 1)]
          /\ agents' = IF r.from = "gone" THEN agents
                       ELSE [agents EXCEPT ![r.node] = [@ EXCEPT !.pc = "start", !.cur = i,
                                                                 !.exec = issued[i] + 1]]
          /\ UNCHANGED faults
       \/ /\ ok /\ issued' = [issued EXCEPT ![i] = @ + 1]
          /\ insts' = [insts EXCEPT ![i] = UpdateState(Claimed(@, issued[i] + 1), "CRASHED")]
          /\ Fault /\ UNCHANGED agents
    /\ UNCHANGED <<dep, nodes, loop, memory, allocated, containers, deploys>>

\* ReportStatus reads the instance first, to tell a crash from a repetition.
ReportReads(r) ==
    /\ r \in reqs /\ r.kind = "report" /\ r.seen = "unread"
    /\ reqs' = (reqs \ {r}) \cup {[r EXCEPT !.seen = insts[r.id].status]}
    /\ UNCHANGED <<cpVars, agentVars, bounds>>

NewCrash(r) == r.seen # "CRASHED" /\ r.status = "CRASHED"

ReportApplies(r) ==
    LET i == insts[r.id] IN
    /\ r \in reqs /\ r.kind = "report" /\ r.seen # "unread"
    /\ insts' = [insts EXCEPT ![r.id] =
                   AfterReport(i, r.node, r.exec, r.status, r.health, r.port)]
    /\ dep' = IF ReportAnswered(i, r.node, r.exec, r.status, r.health) /\ NewCrash(r)
              THEN RecordCrash(dep) ELSE dep
    /\ reqs' = reqs \ {r}
    /\ UNCHANGED <<issued, nodes, loop, agentVars, bounds>>

\* The request never arrives; or the client's timeout (10s) ends the wait and
\* the request is processed later.
RequestLost(r) ==
    /\ r \in reqs /\ Fault /\ reqs' = reqs \ {r}
    /\ UNCHANGED <<cpVars, agentVars, deploys>>

RequestDelayed(r) ==
    /\ r \in reqs /\ r.from = "loop" /\ Fault
    /\ reqs' = (reqs \ {r}) \cup {[r EXCEPT !.from = "gone"]}
    /\ UNCHANGED <<cpVars, agentVars, deploys>>

-----------------------------------------------------------------------------
(* PortAllocator and the container runtime                                 *)

FreePorts(n) == {p \in PortRange : allocated[n][p] = 0}

\* Allocate takes the lowest free port; with none free the host port stays 0
\* and docker chooses.
PortFor(n) == IF FreePorts(n) = {} THEN 0 ELSE Min(FreePorts(n))

Allocate(alloc, p, i) == [q \in PortRange |-> IF q = p THEN i ELSE alloc[q]]
Release(alloc, i) == [p \in PortRange |-> IF alloc[p] = i THEN 0 ELSE alloc[p]]

\* syncPorts: what the control plane's list says when the executor starts.
Synced(n) ==
    [p \in PortRange |->
       LET S == {i \in Instances : /\ insts[i].node = n /\ insts[i].port = p
                                   /\ insts[i].status \in {"STARTING", "RUNNING", "STOPPING"}}
       IN  IF S = {} THEN 0 ELSE CHOOSE i \in S : TRUE]

PortTaken(n, p) ==
    p # 0 /\ \E j \in Instances : /\ containers[j].state = "running"
                                  /\ containers[j].node = n /\ containers[j].port = p

ContainerExits(i) ==
    /\ containers[i].state = "running" /\ Fault
    /\ containers' = [containers EXCEPT ![i].state = "exited"]
    /\ UNCHANGED <<cpVars, agents, memory, allocated, reqs, deploys>>

-----------------------------------------------------------------------------
(* InstanceExecutor: the loop, pollAndClaim then monitorActive             *)

LoopReport(n, i, e, s, h, p) ==
    [kind |-> "report", from |-> "loop", node |-> n, id |-> i, exec |-> e,
     status |-> s, health |-> h, port |-> p, seen |-> "unread"]

\* At a step of its own, with nothing to send and no answer to wait for.
AgentAt(n, pc) == agents[n].pc = pc /\ agents[n].out = <<>> /\ ~Waiting(n)

Copies(n) ==
    {[id |-> i, exec |-> insts[i].exec, status |-> insts[i].status,
      health |-> insts[i].health] : i \in {j \in Instances : insts[j].node = n}}

\* The agent registers and the executor asks for the ports in use; it starts
\* with none in use if that request fails.
AgentStarts(n) ==
    /\ agents[n].pc = "down" /\ NR!Register(n)
    /\ agents' = [agents EXCEPT ![n].pc = "poll"]
    /\ \/ allocated' = [allocated EXCEPT ![n] = Synced(n)] /\ UNCHANGED faults
       \/ allocated' = [allocated EXCEPT ![n] = [p \in PortRange |-> 0]] /\ Fault
    /\ UNCHANGED <<insts, issued, dep, loop, memory, containers, reqs, deploys>>

\* The agent's process dies; containers go on.  Its last requests may be lost.
AgentCrashes(n) ==
    /\ agents[n].pc # "down" /\ Fault
    /\ agents' = [agents EXCEPT ![n] = DownAgent]
    /\ memory' = [i \in Instances |-> IF insts[i].node = n THEN NoMemory ELSE memory[i]]
    /\ \E lost \in {{}, {r \in reqs : r.node = n}} :
          reqs' = {IF r.node = n THEN [r EXCEPT !.from = "gone"] ELSE r : r \in reqs \ lost}
    /\ UNCHANGED <<cpVars, allocated, containers, deploys>>

SendReport(n) ==
    /\ agents[n].out # <<>> /\ ~Waiting(n)
    /\ reqs' = reqs \cup {Head(agents[n].out)}
    /\ agents' = [agents EXCEPT ![n].out = Tail(@)]
    /\ UNCHANGED <<cpVars, memory, allocated, containers, bounds>>

Poll(n) ==
    /\ AgentAt(n, "poll")
    /\ agents' = [agents EXCEPT ![n].pc = "claim",
          ![n].todo = {c \in Copies(n) : \/ c.status = "ASSIGNED"
                                         \/ c.status = "UNKNOWN" /\ c.exec = 0}]
    /\ UNCHANGED <<cpVars, memory, allocated, containers, reqs, bounds>>

SendClaim(n, c) ==
    /\ AgentAt(n, "claim") /\ c \in agents[n].todo
    /\ agents' = [agents EXCEPT ![n].todo = @ \ {c}]
    /\ reqs' = reqs \cup {[kind |-> "claim", from |-> "loop", node |-> n, id |-> c.id]}
    /\ UNCHANGED <<cpVars, memory, allocated, containers, bounds>>

\* Runtime.Start fails when the port is taken, or for the image's or its
\* command's sake; only without an image there is no container afterwards.
StartFails(n) ==
    LET i == agents[n].cur
        created == [containers EXCEPT ![i] = [state |-> "created", node |-> n, port |-> 0]] IN
    /\ AgentAt(n, "start")
    /\ \/ PortTaken(n, PortFor(n)) /\ containers' = created /\ UNCHANGED faults
       \/ Fault /\ containers' \in {containers, created}
    /\ agents' = [agents EXCEPT ![n].pc = "claim",
          ![n].out = <<LoopReport(n, i, agents[n].exec, "CRASHED", "UNKNOWN", 0)>>]
    /\ allocated' = [allocated EXCEPT ![n] = Release(@, i)]
    /\ memory' = [memory EXCEPT ![i] = [NoMemory EXCEPT !.spec = memory[i].spec]]
    /\ UNCHANGED <<cpVars, reqs, deploys>>

StartContainer(n) ==
    LET i == agents[n].cur  p == PortFor(n) IN
    /\ AgentAt(n, "start") /\ ~PortTaken(n, p)
    /\ containers' = [containers EXCEPT ![i] = [state |-> "running", node |-> n, port |-> p]]
    /\ allocated' = [allocated EXCEPT ![n] = Allocate(@, p, i)]
    /\ memory' = [memory EXCEPT ![i].spec = TRUE]
    /\ agents' = [agents EXCEPT ![n].pc = "probers",
          ![n].out = <<LoopReport(n, i, agents[n].exec, "RUNNING", "UNKNOWN", p)>>]
    /\ UNCHANGED <<cpVars, reqs, bounds>>

\* startProbers of an instance whose copy has health h: what is remembered of
\* it, and the report that makes an instance without readiness probe healthy.
Probing(m) == [m EXCEPT !.probing = TRUE,
                        !.ready = IF "readiness" \in Probes THEN "UNKNOWN" ELSE "",
                        !.live = "liveness" \in Probes]
HealthyReport(n, i, e, h) ==
    IF memory[i].probing \/ "readiness" \in Probes \/ h = "HEALTHY" THEN <<>>
    ELSE <<LoopReport(n, i, e, "RUNNING", "HEALTHY", 0)>>
StartProbers(i) == IF memory[i].probing THEN memory[i] ELSE Probing(memory[i])
StopProbers(i) == [NoMemory EXCEPT !.spec = memory[i].spec]

\* The last act of a claim, on the copy polled before it (health is still "").
ProbersAfterStart(n) ==
    LET i == agents[n].cur IN
    /\ AgentAt(n, "probers")
    /\ memory' = [memory EXCEPT ![i] = StartProbers(i)]
    /\ agents' = [agents EXCEPT ![n].pc = "claim",
                                ![n].out = HealthyReport(n, i, agents[n].exec, "")]
    /\ UNCHANGED <<cpVars, allocated, containers, reqs, bounds>>

\* monitorActive begins: every claimed instance of the node is inspected.
MonitorList(n) ==
    /\ AgentAt(n, "claim") /\ agents[n].todo = {}
    /\ agents' = [agents EXCEPT ![n].pc = "inspect", ![n].cur = 0, ![n].exec = 0,
                                ![n].todo = {c \in Copies(n) : c.exec # 0}]
    /\ UNCHANGED <<cpVars, memory, allocated, containers, reqs, bounds>>

\* Either list request fails: that half of the loop is skipped.
ListFails(n) ==
    /\ Fault
    /\ \/ AgentAt(n, "poll") /\ Enter(n, "claim")
       \/ AgentAt(n, "claim") /\ agents[n].todo = {} /\ Enter(n, "poll")
    /\ UNCHANGED <<cpVars, memory, allocated, containers, reqs, deploys>>

MonitorDone(n) ==
    /\ AgentAt(n, "inspect") /\ agents[n].todo = {} /\ Enter(n, "poll")
    /\ UNCHANGED <<cpVars, memory, allocated, containers, reqs, bounds>>

\* Inspecting one copy: the container is looked up, stopped or removed, and a
\* report may be due.  The copy may be older than the instance's status.  (A
\* claimed instance is never PENDING or ASSIGNED again, so no copy is skipped.)
Inspect(n, c) == AgentAt(n, "inspect") /\ c \in agents[n].todo

Inspected(n, c, out) ==
    agents' = [agents EXCEPT ![n].todo = @ \ {c}, ![n].out = out]

StateReport(n, c, s, h) == LoopReport(n, c.id, c.exec, s, h, 0)

\* Mutant of InspectTerminal: the process of a crashed instance is left alone.
InspectTerminalStopped(n, c) ==
    LET i == c.id IN
    /\ Inspect(n, c) /\ c.status \in Terminal
    /\ containers' = [containers EXCEPT ![i] = IF c.status = "STOPPED" THEN NoContainer ELSE @]
    /\ allocated' = [allocated EXCEPT ![n] = Release(@, i)]
    /\ memory' = [memory EXCEPT ![i] = StopProbers(i)]
    /\ Inspected(n, c, <<>>)
    /\ UNCHANGED <<cpVars, reqs, bounds>>

\* The instance is over: no process may be left.  The container of a crashed
\* instance is kept for its logs.  The errors of docker are ignored.
InspectTerminal(n, c) ==
    LET i == c.id IN
    /\ Inspect(n, c) /\ c.status \in Terminal
    /\ \/ /\ containers' = [containers EXCEPT ![i] =
                IF c.status = "STOPPED" THEN NoContainer
                ELSE IF @.state = "running" THEN [@ EXCEPT !.state = "exited"] ELSE @]
          /\ UNCHANGED faults
       \/ Fault /\ UNCHANGED containers
    /\ allocated' = [allocated EXCEPT ![n] = Release(@, i)]
    /\ memory' = [memory EXCEPT ![i] = StopProbers(i)]
    /\ Inspected(n, c, <<>>)
    /\ UNCHANGED <<cpVars, reqs, deploys>>

Live == {"STARTING", "RUNNING", "STOPPING", "UNKNOWN"}

\* docker inspect finds no container; errorsIsNotFound also says so when the
\* command fails for another reason (exit status 1).
NotFound(i) ==
    \/ containers[i].state = "none" /\ UNCHANGED faults
    \/ containers[i].state # "none" /\ Fault

InspectMissing(n, c) ==
    /\ Inspect(n, c) /\ c.status \in Live /\ NotFound(c.id)
    /\ Inspected(n, c,
          <<StateReport(n, c, IF c.status = "STOPPING" THEN "STOPPED" ELSE "CRASHED", "UNKNOWN")>>)
    /\ UNCHANGED <<cpVars, memory, allocated, containers, reqs, deploys>>

\* Neither running nor exited: nothing is done and nothing reported.
InspectCreated(n, c) ==
    /\ Inspect(n, c) /\ c.status \in Live /\ containers[c.id].state = "created"
    /\ Inspected(n, c, <<>>)
    /\ UNCHANGED <<cpVars, memory, allocated, containers, reqs, bounds>>

\* STOPPED is reported even if docker failed to stop or remove the container.
InspectStopping(n, c) ==
    LET was == containers[c.id].state IN
    /\ Inspect(n, c) /\ c.status = "STOPPING" /\ was \in {"running", "exited"}
    /\ \/ containers' = [containers EXCEPT ![c.id] = NoContainer] /\ UNCHANGED faults
       \/ Fault /\ UNCHANGED containers
    /\ memory' = IF was = "running" THEN [memory EXCEPT ![c.id] = StopProbers(c.id)]
                 ELSE memory
    /\ Inspected(n, c, <<StateReport(n, c, "STOPPED", IF was = "running" THEN "UNKNOWN" ELSE "")>>)
    /\ UNCHANGED <<cpVars, allocated, reqs, deploys>>

\* A container observed again is RUNNING, with the health of the copy.  Its
\* probers can only be started if this process claimed the instance.
InspectRunning(n, c) ==
    LET i == c.id  known == memory[i].spec
        reports == <<StateReport(n, c, "RUNNING", c.health)>> IN
    /\ Inspect(n, c) /\ c.status \in Live \ {"STOPPING"}
    /\ containers[i].state = "running"
    /\ \/ c.status = "RUNNING" /\ UNCHANGED memory /\ Inspected(n, c, <<>>)
       \/ /\ c.status # "RUNNING" /\ known
          /\ memory' = [memory EXCEPT ![i] = StartProbers(i)]
          /\ Inspected(n, c, HealthyReport(n, i, c.exec, c.health) \o reports)
       \/ c.status # "RUNNING" /\ ~known /\ UNCHANGED memory /\ Inspected(n, c, reports)
    /\ UNCHANGED <<cpVars, allocated, containers, reqs, bounds>>

InspectExited(n, c) ==
    /\ Inspect(n, c) /\ c.status \in Live \ {"STOPPING"}
    /\ containers[c.id].state = "exited"
    /\ memory' = [memory EXCEPT ![c.id] = StopProbers(c.id)]
    /\ Inspected(n, c, <<StateReport(n, c, "CRASHED", "")>>)
    /\ UNCHANGED <<cpVars, allocated, containers, reqs, bounds>>

-----------------------------------------------------------------------------
(* Probers: goroutines beside the loop                                     *)

ProbeReport(i, from, s, h) ==
    [kind |-> "report", from |-> from, node |-> insts[i].node, id |-> i,
     exec |-> insts[i].exec, status |-> s, health |-> h, port |-> 0,
     seen |-> "unread"]
ProbeWaiting(i, from) == \E r \in reqs : r.id = i /\ r.from = from

\* The readiness goroutine reports each change once; a container that does not
\* run fails its probes.
ReadinessChanges(i, h) ==
    /\ memory[i].ready \notin {"", h} /\ ~ProbeWaiting(i, "readiness")
    /\ \/ h = "HEALTHY" /\ containers[i].state = "running" /\ UNCHANGED faults
       \/ h = "UNHEALTHY" /\ containers[i].state # "running" /\ UNCHANGED faults
       \/ h = "UNHEALTHY" /\ containers[i].state = "running" /\ Fault
    /\ memory' = [memory EXCEPT ![i].ready = h]
    /\ reqs' = reqs \cup {ProbeReport(i, "readiness", "RUNNING", h)}
    /\ UNCHANGED <<cpVars, agents, allocated, containers, deploys>>

\* The liveness goroutine reports a crash and ends both probers.
LivenessFails(i) ==
    /\ memory[i].live /\ ~ProbeWaiting(i, "liveness")
    /\ \/ containers[i].state # "running" /\ UNCHANGED faults
       \/ containers[i].state = "running" /\ Fault
    /\ memory' = [memory EXCEPT ![i] = StopProbers(i)]
    /\ reqs' = reqs \cup {ProbeReport(i, "liveness", "CRASHED", "UNKNOWN")}
    /\ UNCHANGED <<cpVars, agents, allocated, containers, deploys>>

-----------------------------------------------------------------------------
(* Nodes and time                                                          *)

NodesOnly == UNCHANGED <<insts, issued, dep, loop, agentVars, reqs, deploys>>

HeartbeatArrives(n) ==
    /\ agents[n].pc # "down" /\ nodes[n] # NR!Fresh
    /\ NR!Heartbeat(n) /\ NodesOnly /\ UNCHANGED faults
HeartbeatMissed(n) ==
    /\ NR!HeartbeatStale(n) /\ NodesOnly
    /\ \/ agents[n].pc = "down" /\ UNCHANGED faults
       \/ agents[n].pc # "down" /\ Fault
DetectOffline == NR!MarkOfflineNodes /\ NodesOnly /\ UNCHANGED faults

TimeOnly == UNCHANGED <<issued, dep, nodes, loop, agentVars, reqs, bounds>>
UnknownTimeoutPasses(i) ==
    /\ insts[i].unknown = "recent"
    /\ insts' = [insts EXCEPT ![i].unknown = "expired"] /\ TimeOnly
DrainTimeoutPasses(i) ==
    /\ insts[i].drain = "recent" /\ Stoppable(insts[i])
    /\ insts' = [insts EXCEPT ![i].drain = "elapsed"] /\ TimeOnly
RecoveryWindowPasses(i) ==
    /\ insts[i].started = "recent" /\ Stoppable(insts[i])
    /\ insts' = [insts EXCEPT ![i].started = "settled"] /\ TimeOnly

-----------------------------------------------------------------------------
LoopStep ==
    \/ RecoverNodes \/ RecoverOrphans \/ EvaluateHealth
    \/ ComputeTargets \/ Scale \/ SchedulePending
    \/ \E op \in Ops, i \in Instances : Do(op, i)

HandlerStep(r) == ClaimHandler(r) \/ ReportReads(r) \/ ReportApplies(r)

InspectStep(n, c) ==
    \/ InspectTerminal(n, c) \/ InspectMissing(n, c) \/ InspectStopping(n, c)
    \/ InspectRunning(n, c) \/ InspectExited(n, c) \/ InspectCreated(n, c)

AgentStep(n) ==
    \/ SendReport(n) \/ Poll(n) \/ StartContainer(n) \/ StartFails(n)
    \/ ProbersAfterStart(n) \/ MonitorList(n) \/ MonitorDone(n)
    \/ \E c \in agents[n].todo : SendClaim(n, c) \/ InspectStep(n, c)

Next ==
    \/ Deploy \/ LoopStep \/ DetectOffline
    \/ \E r \in reqs : HandlerStep(r) \/ RequestLost(r) \/ RequestDelayed(r)
    \/ \E n \in Nodes : \/ AgentStarts(n) \/ AgentCrashes(n) \/ AgentStep(n)
                        \/ ListFails(n) \/ HeartbeatArrives(n) \/ HeartbeatMissed(n)
    \/ \E i \in Instances :
          \/ ContainerExits(i) \/ LivenessFails(i)
          \/ \E h \in {"HEALTHY", "UNHEALTHY"} : ReadinessChanges(i, h)
          \/ UnknownTimeoutPasses(i) \/ DrainTimeoutPasses(i) \/ RecoveryWindowPasses(i)

Spec == Init /\ [][Next]_vars

\* Goroutines run, requests that are not lost get an answer, a dead agent is
\* started again, its heartbeats arrive and time passes.
Fairness ==
    /\ WF_vars(LoopStep) /\ WF_vars(DetectOffline)
    /\ \A i \in Instances, f \in {"loop", "readiness", "liveness", "gone"} :
          WF_vars(\E r \in reqs : r.id = i /\ r.from = f /\ HandlerStep(r))
    /\ \A n \in Nodes : /\ WF_vars(AgentStep(n)) /\ WF_vars(AgentStarts(n))
                        /\ WF_vars(HeartbeatArrives(n))
    /\ \A i \in Instances :
          WF_vars(UnknownTimeoutPasses(i)) /\ WF_vars(DrainTimeoutPasses(i))

\* Probes are made and see the truth.
ProbeFairness ==
    \A i \in Instances :
       /\ WF_vars(RecoveryWindowPasses(i)) /\ WF_vars(LivenessFails(i))
       /\ \A h \in {"HEALTHY", "UNHEALTHY"} : WF_vars(ReadinessChanges(i, h))

FairSpec == Spec /\ Fairness
ProbedSpec == FairSpec /\ ProbeFairness

-----------------------------------------------------------------------------
(* Properties                                                              *)

\* An instance is claimed at most once in its life, whatever is lost, delayed
\* or repeated on the way through UNKNOWN: at most one execution, hence one
\* container, ever exists for it (Registry.Claim).
ClaimedOnce == \A i \in Instances : issued[i] <= 1

\* A terminal instance never changes its status, execution or health again,
\* although UpdateState and ReportStatus are called with stale decisions.
TerminalFrozen ==
    [][\A i \in Instances :
         insts[i].status \in Terminal =>
            /\ insts'[i].status = insts[i].status
            /\ insts'[i].exec = insts[i].exec
            /\ insts'[i].health = insts[i].health]_vars

\* The instances in service never outnumber the replicas, although counting
\* and creating are separate steps and old instances can come back
\* (Reconcile, scale up).  Not while degraded: the target is then the number
\* of viable instances, draining ones that came back after a rollback
\* included, and what ends before the second count is replaced.
InService == {i \in ViableInstances : ~Draining(insts[i])}
NeverOverProvisions == ~dep.degraded => Cardinality(InService) <= Replicas

\* An instance is given up as lost only after its unknown timeout, or else it
\* ended on its node's word or the reconciler's judgement of its health: an
\* instance that was never claimed is CRASHED only by that timeout.
LossTakesTimeout ==
    [][\A i \in Instances :
         (insts[i].exec = 0 /\ insts[i].status # "CRASHED" /\ insts'[i].status = "CRASHED")
            => \/ insts'[i].exec # 0
               \/ insts[i].unknown = "expired"]_vars

\* A container whose instance is over does not run forever: the executor
\* fences it (monitorActive), even after crashes and lost requests.
FencedContainersStop ==
    \A i \in Instances :
        (insts[i].status \in Terminal /\ containers[i].state = "running")
            ~> containers[i].state # "running"

\* Once its deployment is superseded for good, no container of it stays.
SupersededStops ==
    <>[](~dep.active) => <>[](\A i \in Instances : containers[i].state # "running")

-----------------------------------------------------------------------------
(* What comments and documents say and the code does not do                *)

\* registry.go, "Allowed Agent transitions: STOPPING -> STOPPED, CRASHED": a
\* report never puts an instance that is being stopped back to RUNNING.
StoppingNotUndone ==
    [][\A i \in Instances :
         insts[i].status = "STOPPING" => insts'[i].status # "RUNNING"]_vars

\* MILESTONE_8B, "STOPPING: ... Agent invokes Stop()": stopping comes to an end.
StoppingEnds ==
    \A i \in Instances : insts[i].status = "STOPPING" ~> insts[i].status # "STOPPING"

\* MILESTONE_8C, increment rules: ConsecutiveCrashes counts crashes, so it is
\* never more than the number of crashed instances.
CrashesCountInstances ==
    dep.crashes <= Cardinality({i \in Instances : insts[i].status = "CRASHED"})

\* MILESTONE_8C, "While Degraded: The Reconciler pauses all replacement
\* provisioning for this specific deployment".
DegradedCreatesNothing ==
    [][dep.degraded => \A i \in Instances :
         insts[i].status = "none" => insts'[i].status = "none"]_vars

\* MILESTONE_8E, "The Node Registry/Agent will maintain an explicit port
\* allocator map (HostPort -> InstanceID)": a running agent never takes the
\* port of a running container for free.
AllocatorKnowsPorts ==
    \A i \in Instances :
        LET c == containers[i] IN
        (c.state = "running" /\ c.port # 0 /\ agents[c.node].pc # "down")
            => allocated[c.node][c.port] = i

\* MILESTONE_8I, "If no ReadinessProbe is configured, an instance transitions
\* from UNKNOWN to HEALTHY immediately upon entering RUNNING".
RunningBecomesHealthy ==
    "readiness" \notin Probes =>
        \A i \in Instances :
            insts[i].status = "RUNNING" ~> (insts[i].status # "RUNNING" \/ Ready(insts[i]))

\* Routable as in RoutingReconciler.Reconcile.
Routable(i) == Ready(i) /\ ~Draining(i)

\* MILESTONE_8E, rollback: "As v1 instances become healthy, they re-enter the
\* Service routing table": a deployment that is active from some time on, and
\* not degraded, is served again and again.
RollbackServes ==
    <>[](dep.active /\ ~dep.degraded) =>
        []<>(\E i \in Instances : Routable(insts[i]))
=============================================================================
