----------------------------- MODULE Scheduling -----------------------------
(***************************************************************************)
(* Placing instances on nodes: InstanceScheduler.SchedulePendingInstances  *)
(* and CapacityCalculator (internal/scheduler/instance_scheduler.go and    *)
(* node_capacity.go).                                                      *)
(*                                                                         *)
(* Nodes, instances and deployments are listed one after the other, each   *)
(* under its registry's lock; the free capacity is computed once per tick  *)
(* and then only kept up to date in a local copy, while agents go on       *)
(* reporting and nodes come and go.  The instance reconciler runs before   *)
(* the scheduler in the same goroutine.  What it and the agents decide is  *)
(* modelled in InstanceSystem; here they take any step that the instance   *)
(* registry lets them take.                                                *)
(*                                                                         *)
(* A node has CPU cores and memory, a deployment asks for some of each:    *)
(* both are functions over Resources.  Jobs are left out: Registry.Create  *)
(* drops the CPU and memory of a job request, so that jobs consume nothing.*)
(***************************************************************************)
EXTENDS Integers, FiniteSetsExt

CONSTANTS Nodes,        \* node ids, ordered
          Instances,    \* instance ids, ordered
          Deployments,
          DeploymentOf, \* the deployment of each instance
          Resources,    \* CPU and memory
          Capacity,     \* what each node has
          Request,      \* what an instance of each deployment asks for
          MaxOutages    \* bound on nodes going offline

ASSUME SchedulingAssumption ==
    /\ Nodes \subseteq Nat \ {0} /\ Instances \subseteq Nat
    /\ DeploymentOf \in [Instances -> Deployments]
    /\ Capacity \in [Nodes -> [Resources -> Nat]]
    /\ Request \in [Deployments -> [Resources -> Nat]]
    /\ MaxOutages \in Nat

VARIABLES insts,    \* status and node of each instance
          online,   \* the nodes the registry has as online
          loop,     \* the control-plane loop: position and copies
          blocked,  \* deployments whose BlockedReason is "insufficient_capacity"
          outages

vars == <<insts, online, loop, blocked, outages>>

Terminal == {"STOPPED", "CRASHED"}
Statuses == {"none", "PENDING", "ASSIGNED", "STARTING", "RUNNING", "UNKNOWN",
             "STOPPING"} \cup Terminal

\* nodes, caps and todo are the copies the tick works on, last is
\* lastAssignedNodeID (0 is "").
Loop == [pc: {"reconcile", "capacity", "pending", "assign"},
         nodes: SUBSET Nodes, caps: [Nodes -> [Resources -> Int]],
         todo: SUBSET Instances, listed: SUBSET Instances, last: Nodes \cup {0}]

TypeOK ==
    /\ insts \in [Instances -> [status: Statuses, node: Nodes \cup {0}]]
    /\ online \subseteq Nodes
    /\ loop \in Loop
    /\ blocked \subseteq Deployments
    /\ outages \in 0..MaxOutages

Init ==
    /\ insts = [i \in Instances |-> [status |-> "none", node |-> 0]]
    /\ online = Nodes
    /\ loop = [pc |-> "reconcile", nodes |-> {}, caps |-> Capacity, todo |-> {},
               listed |-> {}, last |-> 0]
    /\ blocked = {} /\ outages = 0

-----------------------------------------------------------------------------
(* Capacity                                                                *)

\* Mutant of Consuming: an instance nobody has heard of frees its node.
ConsumingKnown(i) ==
    insts[i].status \in {"ASSIGNED", "STARTING", "RUNNING", "STOPPING"}

\* isInstanceConsumingCapacity.
Consuming(i) ==
    insts[i].status \in {"ASSIGNED", "STARTING", "RUNNING", "UNKNOWN", "STOPPING"}

Asks(i) == Request[DeploymentOf[i]]

\* What a set of instances asks for together.
Load(S, r) == MapThenSumSet(LAMBDA i : Asks(i)[r], S)

Used(n, r) == Load({i \in Instances : insts[i].node = n /\ Consuming(i)}, r)

\* CalculateAll, for the nodes of the copy.
Free == [n \in Nodes |-> [r \in Resources |-> Capacity[n][r] - Used(n, r)]]

\* Mutant of Fits: a node that would be full is not eligible.
FitsWithRoom(i, free) == \A r \in Resources : free[r] > Asks(i)[r]

Fits(i, free) == \A r \in Resources : free[r] >= Asks(i)[r]

-----------------------------------------------------------------------------
(* The tick                                                                *)

\* No node online: nothing is scheduled in this tick.
ListNodes ==
    /\ loop.pc = "reconcile" /\ online # {}
    /\ loop' = [loop EXCEPT !.pc = "capacity", !.nodes = online]
    /\ UNCHANGED <<insts, online, blocked, outages>>

CalculateAll ==
    /\ loop.pc = "capacity"
    /\ loop' = [loop EXCEPT !.pc = "pending", !.caps = Free]
    /\ UNCHANGED <<insts, online, blocked, outages>>

ListPending ==
    LET pending == {i \in Instances : insts[i].status = "PENDING"} IN
    /\ loop.pc = "pending"
    /\ loop' = [loop EXCEPT !.pc = "assign", !.todo = pending, !.listed = pending]
    /\ UNCHANGED <<insts, online, blocked, outages>>

Eligible(i) == {n \in loop.nodes : Fits(i, loop.caps[n])}

\* The first eligible node after the last one used, else the first.
Select(S) ==
    LET later == {n \in S : n > loop.last} IN IF later = {} THEN Min(S) ELSE Min(later)

\* Mutant of Deduct: the wrong sign.
DeductCredits(caps, n, i) == [caps EXCEPT ![n] = [r \in Resources |-> @[r] + Asks(i)[r]]]

Deduct(caps, n, i) == [caps EXCEPT ![n] = [r \in Resources |-> @[r] - Asks(i)[r]]]

\* The instances of the copy in order of id.  UpdateState cannot fail: no one
\* else takes an instance out of PENDING.
Assign ==
    LET i == Min(loop.todo)
        rest == [loop EXCEPT !.todo = @ \ {i}]
        n == Select(Eligible(i)) IN
    /\ loop.pc = "assign" /\ loop.todo # {}
    /\ \/ /\ Eligible(i) = {}
          /\ blocked' = blocked \cup {DeploymentOf[i]}
          /\ loop' = rest /\ UNCHANGED insts
       \/ /\ Eligible(i) # {}
          /\ insts' = [insts EXCEPT ![i] = [status |-> "ASSIGNED", node |-> n]]
          /\ blocked' = blocked \ {DeploymentOf[i]}
          /\ loop' = [rest EXCEPT !.last = n, !.caps = Deduct(loop.caps, n, i)]
    /\ UNCHANGED <<online, outages>>

TickDone ==
    /\ loop.pc = "assign" /\ loop.todo = {}
    /\ loop' = [loop EXCEPT !.pc = "reconcile", !.nodes = {}, !.caps = Capacity,
                            !.listed = {}]
    /\ UNCHANGED <<insts, online, blocked, outages>>

Scheduler == ListNodes \/ CalculateAll \/ ListPending \/ Assign \/ TickDone

-----------------------------------------------------------------------------
(* The instance reconciler, before the scheduler in the same goroutine     *)

Becomes(i, s) == insts' = [insts EXCEPT ![i].status = s]

ReconcilerCreates(i) ==
    /\ loop.pc = "reconcile" /\ insts[i].status = "none" /\ Becomes(i, "PENDING")
    /\ UNCHANGED <<online, loop, blocked, outages>>

\* An instance on a lost node is UNKNOWN, then given up; one that is not
\* wanted any more is stopped.
ReconcilerUpdates(i) ==
    LET st == insts[i].status IN
    /\ loop.pc = "reconcile" /\ st \notin Terminal \cup {"none"}
    /\ \/ insts[i].node \notin online \cup {0} /\ st # "UNKNOWN" /\ Becomes(i, "UNKNOWN")
       \/ st = "UNKNOWN" /\ Becomes(i, "CRASHED")
       \/ st \in {"PENDING", "ASSIGNED"} /\ Becomes(i, "STOPPED")
       \/ st \in {"STARTING", "RUNNING", "UNKNOWN"} /\ Becomes(i, "STOPPING")
    /\ UNCHANGED <<online, loop, blocked, outages>>

-----------------------------------------------------------------------------
(* Agents and nodes, at any time                                           *)

\* A claim and the reports of an agent.  A report is accepted in every state
\* that is not terminal: a late RUNNING undoes UNKNOWN and STOPPING.
AgentUpdates(i) ==
    LET st == insts[i].status IN
    /\ \/ st \in {"ASSIGNED", "UNKNOWN"} /\ Becomes(i, "STARTING")
       \/ st \in {"STARTING", "UNKNOWN", "STOPPING"} /\ Becomes(i, "RUNNING")
       \/ st \in {"STARTING", "RUNNING", "UNKNOWN", "STOPPING"}
          /\ \E t \in Terminal : Becomes(i, t)
    /\ UNCHANGED <<online, loop, blocked, outages>>

\* The rollout controller and RollbackApp write the reason too.
ReasonCleared(d) ==
    /\ d \in blocked /\ blocked' = blocked \ {d}
    /\ UNCHANGED <<insts, online, loop, outages>>

NodeLost(n) ==
    /\ n \in online /\ outages < MaxOutages
    /\ online' = online \ {n} /\ outages' = outages + 1
    /\ UNCHANGED <<insts, loop, blocked>>

NodeReturns(n) ==
    /\ n \in Nodes \ online /\ online' = online \cup {n}
    /\ UNCHANGED <<insts, loop, blocked, outages>>

Next ==
    \/ Scheduler
    \/ \E i \in Instances : ReconcilerCreates(i) \/ ReconcilerUpdates(i) \/ AgentUpdates(i)
    \/ \E n \in Nodes : NodeLost(n) \/ NodeReturns(n)
    \/ \E d \in Deployments : ReasonCleared(d)

\* The loop ticks; nothing is assumed of nodes, agents and the reconciler.
Spec == Init /\ [][Next]_vars /\ WF_vars(Scheduler)

-----------------------------------------------------------------------------
(* Properties                                                              *)

\* What the instances placed on a node ask for never exceeds what it has, in
\* any resource: not after several assignments in one tick from one capacity
\* computation, and not when an instance that was given up as UNKNOWN or asked
\* to stop turns out to be running (CalculateAll, the local deduction).
NeverOvercommitted ==
    \A n \in Nodes, r \in Resources :
        Load({i \in Instances : insts[i].node = n /\
                insts[i].status \notin Terminal \cup {"none", "PENDING"}}, r) <= Capacity[n][r]

\* The scheduler never hides that an instance did not fit: placing another one
\* does not clear the reason of a deployment with an instance that this tick
\* has already found no node for (the BlockedReason writes of the two branches
\* and the order of the list).
ReasonNotHidden ==
    [][loop' # loop =>
         \A i \in loop.listed \ loop'.todo :
            (insts'[i].status = "PENDING" /\ DeploymentOf[i] \in blocked)
               => DeploymentOf[i] \in blocked']_vars

\* What makes both inductive.  From the computation of the capacity to the end of
\* the tick the copy is no larger than what is free, since only this loop adds to
\* a node; the instances still to place are PENDING, and those of the list that
\* were left PENDING still fit nowhere, since the copy only shrinks.
SchedulingInv ==
    /\ TypeOK
    /\ IsFiniteSet({i \in Instances : insts[i].status # "none"})
    /\ \A i \in Instances : insts[i].status \in {"none", "PENDING"} => insts[i].node = 0
    /\ \A n \in Nodes, r \in Resources :
          /\ Used(n, r) <= Capacity[n][r]
          /\ loop.pc \in {"pending", "assign"} => loop.caps[n][r] + Used(n, r) <= Capacity[n][r]
    /\ \A i \in loop.todo : loop.pc = "assign" /\ insts[i].status = "PENDING"
    /\ \A i \in loop.listed \ loop.todo :
          loop.pc = "assign" /\ (insts[i].status = "PENDING" => Eligible(i) = {})

FitsNow(i) == \E n \in online : \A r \in Resources : Free[n][r] >= Asks(i)[r]

\* An instance does not wait for ever beside an online node with room for it,
\* wherever the cursor stands (SchedulePendingInstances on every tick).
PendingIsPlaced ==
    \A i \in Instances : []<>~(insts[i].status = "PENDING" /\ FitsNow(i))
=============================================================================
