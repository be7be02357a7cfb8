----------------------- MODULE InstanceSystemProofs ------------------------
(***************************************************************************)
(* Theorems about InstanceSystem for any finite set of instances, any      *)
(* nodes, ports, probes and replicas and any number of faults and deploys. *)
(***************************************************************************)
EXTENDS InstanceSystem, TLAPS, FiniteSetTheorems

-----------------------------------------------------------------------------
(* The inductive invariant.                                                *)

\* An instance is placed, claimed and running in this order; only one that
\* drains is ever told to stop.
RecordOK(r) ==
    /\ r.exec <= 1
    /\ r.status \in {"none", "PENDING"} => r.node = NoNode
    /\ r.status \in {"none", "PENDING", "ASSIGNED"} => r.exec = 0
    /\ r.status = "RUNNING" => r.exec # 0
    /\ r.exec # 0 => r.node # NoNode
    /\ r.status = "STOPPING" => Draining(r)

RecordsOK == \A i \in Instances : insts[i].exec = issued[i] /\ RecordOK(insts[i])

\* What a decision of the loop can still rely on when it is carried out.
DecisionOK(op, r) ==
    /\ r.status # "none"
    /\ op = "assign" => r.status = "PENDING"
    /\ op = "lost" => r.exec # 0 \/ r.unknown = "expired"
    /\ op = "unhealthy" => r.exec # 0
    /\ op \in {"stop", "stopping"} => Draining(r)

LoopOK ==
    /\ \A d \in loop.todo : /\ d[1] = "assign" <=> loop.pc = "assign"
                            /\ DecisionOK(d[1], insts[d[2]])
    /\ loop.pc = "scale" => dep.degraded \/ loop.desired \in {0, Replicas}

\* Agents report only on executions, and never that an instance is stopping.
ReportOK(r) == r.status # "STOPPING" /\ r.exec # 0
RequestOK(r) == r \in Claim \/ (r \in Report /\ ReportOK(r))
Sound(out) == out \in Seq(Report) /\ \A k \in 1..Len(out) : ReportOK(out[k])

\* The executor starts, probes and inspects only what was claimed; is are the
\* instances' records.
AgentOK(a, is) ==
    /\ Sound(a.out)
    /\ a.pc \in {"start", "probers"} =>
          a.cur \in Instances /\ a.exec # 0 /\ is[a.cur].exec # 0
    /\ a.pc = "inspect" => \A c \in a.todo : c.exec # 0 /\ is[c.id].exec # 0

MemoryOK(m, r) == m.live \/ m.ready # "" => r.exec # 0

AgentsOK ==
    /\ \A n \in Nodes : AgentOK(agents[n], insts)
    /\ \A r \in reqs : RequestOK(r)
    /\ \A i \in Instances : MemoryOK(memory[i], insts[i])

InstanceInv == TypeOK /\ RecordsOK /\ LoopOK /\ AgentsOK /\ NeverOverProvisions

-----------------------------------------------------------------------------
(* What the operations do to one record.                                   *)

\* An instance's record may go from a to b: it is never forgotten, claimed at
\* most once, over for good, draining for good, not back in service once it
\* left, and ends without a claim only after the unknown timeout.
Evolves(a, b) ==
    /\ b \in Instance
    /\ a.status # "none" => b.status # "none"
    /\ a.exec # 0 => b.exec = a.exec
    /\ a.status \in Terminal => /\ b.status = a.status /\ b.exec = a.exec
                                /\ b.health = a.health
    /\ Draining(a) => Draining(b)
    /\ b.status \in Viable /\ ~Draining(b) => a.status \in Viable
    /\ a.unknown = "expired" => b.exec # 0 \/ b.unknown = "expired"
    /\ a.exec = 0 /\ a.status # "CRASHED" /\ b.status = "CRASHED"
          => b.exec # 0 \/ a.unknown = "expired"

\* A record that does not change evolves.
LEMMA Stays ==
    ASSUME NEW r \in Instance PROVE Evolves(r, r)
  BY DEF Evolves

\* Carrying out a decision of the reconciler (UpdateState, MarkUnknown,
\* MarkDraining).
LEMMA DecisionFacts ==
    ASSUME NEW r \in Instance, RecordOK(r), NEW op \in Ops \ {"assign", "settled"},
           DecisionOK(op, r), NEW b,
           \/ op = "unknown" /\ b = MarkUnknown(r)
           \/ op = "drain" /\ b = MarkDraining(r)
           \/ op \in {"lost", "unhealthy"} /\ b = UpdateState(r, "CRASHED")
           \/ op = "stop" /\ b = UpdateState(r, "STOPPED")
           \/ op = "stopping" /\ b = UpdateState(r, "STOPPING")
    PROVE  Evolves(r, b) /\ RecordOK(b) /\ b.exec = r.exec
  <1>1. CASE ~Stoppable(r)
    BY <1>1 DEF MarkUnknown, MarkDraining, UpdateState, Evolves
  <1>2. CASE Stoppable(r) /\ op = "unknown"
    BY <1>2, ZenonT(40)
    DEF MarkUnknown, Stoppable, Evolves, RecordOK, Instance, Statuses, Viable, Terminal,
        Draining, UnknownTimes, DecisionOK
  <1>3. CASE Stoppable(r) /\ op = "drain"
    BY <1>3 DEF MarkDraining, Stoppable, Evolves, RecordOK, Instance, Draining, DrainTimes,
                Terminal
  <1>4. ASSUME Stoppable(r), NEW s \in {"CRASHED", "STOPPED", "STOPPING"},
               b = UpdateState(r, s), s = "STOPPING" => Draining(r),
               s = "CRASHED" => op \in {"lost", "unhealthy"}
        PROVE  Evolves(r, b) /\ RecordOK(b) /\ b.exec = r.exec
    BY <1>4 DEF UpdateState, Stoppable, Evolves, RecordOK, Instance, Statuses, Viable, Terminal,
                Draining, DecisionOK
  <1> QED BY <1>1, <1>2, <1>3, <1>4 DEF Ops, DecisionOK

\* The scheduler's assignment of an instance that is still pending.
LEMMA AssignedFacts ==
    ASSUME NEW r \in Instance, RecordOK(r), r.status = "PENDING", NEW n \in Nodes
    PROVE  LET b == Assigned(r, n) IN Evolves(r, b) /\ RecordOK(b) /\ b.exec = r.exec
  BY DEF Assigned, UpdateState, Stoppable, Evolves, RecordOK, Instance, Statuses, Viable,
         Terminal, Draining

\* A claim that is allowed is the first one, also when it ends in a crash.
LEMMA ClaimedFacts ==
    ASSUME NEW r \in Instance, RecordOK(r), NEW n \in Nodes, ClaimAllowed(r, n)
    PROVE  LET b == Claimed(r, 1)  c == UpdateState(Claimed(r, 1), "CRASHED") IN
           /\ r.exec = 0 /\ r.status \notin {"none", "PENDING"}
           /\ Evolves(r, b) /\ RecordOK(b) /\ b.exec = 1
           /\ Evolves(r, c) /\ RecordOK(c) /\ c.exec = 1
  <1> DEFINE b == Claimed(r, 1)
             c == UpdateState(b, "CRASHED")
  <1>1. r.exec = 0 /\ r.status \in {"ASSIGNED", "UNKNOWN"} /\ r.node # NoNode
    BY InstanceAssumption DEF ClaimAllowed, RecordOK
  <1>2. /\ b \in Instance /\ b.status = "STARTING" /\ b.exec = 1 /\ b.drain = r.drain
        /\ b.node = r.node
    BY DEF Claimed, Instance, Statuses, Viable, UnknownTimes
  <1>3. /\ c \in Instance /\ c.status = "CRASHED" /\ c.exec = 1 /\ c.drain = r.drain
        /\ c.node = r.node
    <2>1. c = [b EXCEPT !.status = "CRASHED"]
      BY <1>2 DEF UpdateState, Stoppable, Terminal
    <2> HIDE DEF b, c
    <2> QED BY <1>2, <2>1 DEF Instance, Statuses, Terminal
  <1> HIDE DEF b, c
  <1>4. Evolves(r, b) /\ RecordOK(b)
    BY <1>1, <1>2 DEF Evolves, RecordOK, Draining, Viable, Terminal
  <1>5. Evolves(r, c) /\ RecordOK(c)
    BY <1>1, <1>3 DEF Evolves, RecordOK, Draining, Viable, Terminal
  <1> QED BY <1>1, <1>2, <1>3, <1>4, <1>5 DEF b, c

\* A report is applied to an instance that runs under its execution, and
\* changes no status that is final.
LEMMA ReportFacts ==
    ASSUME NEW r \in Instance, RecordOK(r), NEW q \in Report, ReportOK(q)
    PROVE  LET b == AfterReport(r, q.node, q.exec, q.status, q.health, q.port) IN
           /\ Evolves(r, b) /\ RecordOK(b) /\ b.exec = r.exec
           /\ r.status = "PENDING" => b = r
  <1> DEFINE b == AfterReport(r, q.node, q.exec, q.status, q.health, q.port)
  <1>0. /\ q.node \in Nodes /\ q.exec \in Nat /\ q.health \in Healths
        /\ q.status \in {"RUNNING"} \cup Terminal /\ q.port \in PortRange \cup {0}
        /\ q.exec # 0
    BY DEF Report, ReportOK, Reportable
  <1>1. CASE ReportApplied(r, q.node, q.exec, q.status, q.health)
    <2>1. b = Reported(r, q.status, q.health, q.port)
      BY <1>1 DEF AfterReport
    <2>2. r.node = q.node /\ r.exec = q.exec /\ r.status \notin Terminal
      BY <1>1 DEF ReportApplied, Owns
    <2>3. r.status \notin {"none", "PENDING", "ASSIGNED"}
      BY <1>0, <2>2 DEF RecordOK
    <2> DEFINE h == IF q.health = "" THEN r.health ELSE q.health
               p == IF q.port = 0 THEN r.port ELSE q.port
               t == IF q.status = "RUNNING" /\ r.started = "nil" THEN "recent" ELSE r.started
    <2>4. h \in Healths /\ p \in PortRange \cup {0} /\ t \in StartTimes
      BY <1>0 DEF Instance, StartTimes
    <2>5. b = [r EXCEPT !.status = q.status, !.health = h, !.unknown = "nil", !.port = p,
                        !.started = t]
      BY <2>1, Zenon DEF Reported
    <2> HIDE DEF b, h, p, t
    <2>6. /\ b \in Instance
          /\ b.status = q.status /\ b.exec = r.exec /\ b.drain = r.drain /\ b.node = r.node
      BY <1>0, <2>4, <2>5 DEF Instance, Statuses, Terminal, Viable, UnknownTimes
    <2>7. Evolves(r, b) /\ RecordOK(b) /\ b.exec = r.exec /\ r.status # "PENDING"
      BY <1>0, <2>2, <2>3, <2>6
         DEF Evolves, RecordOK, Viable, Terminal, Draining, Statuses, Instance
    <2> QED BY <2>7 DEF b
  <1>2. CASE ~ReportApplied(r, q.node, q.exec, q.status, q.health)
             /\ ReportRepeated(r, q.node, q.exec, q.status, q.health)
    <2>1. b = [r EXCEPT !.port = IF @ = 0 THEN q.port ELSE @]
      BY <1>2 DEF AfterReport
    <2>2. r.exec # 0
      BY <1>0, <1>2 DEF ReportRepeated, Owns
    <2> QED
      BY <1>0, <2>1, <2>2 DEF Evolves, RecordOK, Instance, Draining
  <1>3. CASE /\ ~ReportApplied(r, q.node, q.exec, q.status, q.health)
             /\ ~ReportRepeated(r, q.node, q.exec, q.status, q.health)
    BY <1>3, Stays DEF AfterReport
  <1> QED BY <1>1, <1>2, <1>3

\* The passing of a timeout.
LEMMA TimeFacts ==
    ASSUME NEW r \in Instance, RecordOK(r), NEW b,
           \/ r.unknown = "recent" /\ b = [r EXCEPT !.unknown = "expired"]
           \/ r.drain = "recent" /\ b = [r EXCEPT !.drain = "elapsed"]
           \/ r.started = "recent" /\ b = [r EXCEPT !.started = "settled"]
    PROVE  Evolves(r, b) /\ RecordOK(b) /\ b.exec = r.exec /\ b.status = r.status
  BY DEF Evolves, RecordOK, Instance, Draining, UnknownTimes, DrainTimes, StartTimes

-----------------------------------------------------------------------------
(* What a step that changes records keeps.                                 *)

\* The records of a step evolve: the invariant's parts about them still hold,
\* and so does what the loop, the agents and the probers know of them.
LEMMA RecordsKept ==
    ASSUME InstanceInv, insts' \in [Instances -> Instance],
           \A i \in Instances : /\ Evolves(insts[i], insts'[i]) /\ RecordOK(insts'[i])
                                /\ insts'[i].exec = issued'[i],
           dep.degraded => dep'.degraded
    PROVE  /\ RecordsOK' /\ NeverOverProvisions'
           /\ \A a \in Agent : AgentOK(a, insts) => AgentOK(a, insts')
           /\ \A i \in Instances : insts[i].exec # 0 => insts'[i].exec # 0
           /\ \A i \in Instances, op \in Ops :
                 DecisionOK(op, insts[i]) /\ (op = "assign" => insts'[i].status = "PENDING")
                    => DecisionOK(op, insts'[i])
  <1>1. RecordsOK'
    BY DEF RecordsOK
  <1>2. NeverOverProvisions'
    <2>1. InService' \subseteq InService
      BY DEF InService, ViableInstances, Evolves
    <2>2. IsFiniteSet(InService) /\ InService \subseteq Instances
      BY InstanceSystemAssumption, FS_Subset DEF InService, ViableInstances
    <2>3. /\ Cardinality(InService) \in Nat /\ Cardinality(InService') \in Nat
          /\ Cardinality(InService') <= Cardinality(InService)
      BY <2>1, <2>2, FS_Subset, FS_CardinalityType
    <2> QED
      BY <2>3, InstanceSystemAssumption DEF InstanceInv, NeverOverProvisions
  <1>3. \A i \in Instances : insts[i].exec # 0 => insts'[i].exec # 0
    BY DEF Evolves
  <1>4. \A a \in Agent : AgentOK(a, insts) => AgentOK(a, insts')
    BY <1>3 DEF AgentOK, Agent, Copy
  <1>5. \A i \in Instances, op \in Ops :
           DecisionOK(op, insts[i]) /\ (op = "assign" => insts'[i].status = "PENDING")
              => DecisionOK(op, insts'[i])
    BY DEF DecisionOK, Evolves
  <1> QED BY <1>1, <1>2, <1>3, <1>4, <1>5

\* One record changes.
LEMMA OneRecord ==
    ASSUME TypeOK, RecordsOK, NEW i \in Instances, NEW b,
           insts' = [insts EXCEPT ![i] = b],
           Evolves(insts[i], b), RecordOK(b), b.exec = issued'[i],
           \A j \in Instances \ {i} : issued'[j] = issued[j]
    PROVE  /\ insts' \in [Instances -> Instance]
           /\ \A j \in Instances : /\ Evolves(insts[j], insts'[j]) /\ RecordOK(insts'[j])
                                   /\ insts'[j].exec = issued'[j]
  <1>1. b \in Instance /\ insts \in [Instances -> Instance]
    BY DEF Evolves, TypeOK
  <1>2. ASSUME NEW j \in Instances, j # i
        PROVE  /\ Evolves(insts[j], insts'[j]) /\ RecordOK(insts'[j])
               /\ insts'[j].exec = issued'[j]
    <2>1. insts'[j] = insts[j] /\ insts[j] \in Instance
      BY <1>1, <1>2
    <2> QED BY <1>2, <2>1, Stays DEF RecordsOK
  <1>3. insts'[i] = b
    BY <1>1
  <1> QED BY <1>1, <1>2, <1>3

\* A step that changes no record, decision or crash counter.
LEMMA AgentsOnly ==
    ASSUME InstanceInv, UNCHANGED <<insts, issued, dep, loop>>,
           nodes' \in [Nodes -> NR!Node], agents' \in [Nodes -> Agent],
           memory' \in [Instances -> Memory],
           allocated' \in [Nodes -> [PortRange -> Instances \cup {0}]],
           containers' \in [Instances -> Container],
           faults' \in 0..MaxFaults, deploys' \in 0..MaxDeploys,
           \A n \in Nodes : AgentOK(agents'[n], insts),
           \A r \in reqs' : RequestOK(r),
           \A i \in Instances : MemoryOK(memory'[i], insts[i])
    PROVE  InstanceInv'
  <1>1. TypeOK'
    BY DEF InstanceInv, TypeOK, NR!NodeTypeOK, RequestOK
  <1>2. RecordsOK' /\ LoopOK' /\ NeverOverProvisions'
    BY DEF InstanceInv, RecordsOK, LoopOK, NeverOverProvisions, InService, ViableInstances
  <1>3. AgentsOK'
    BY DEF AgentsOK
  <1> QED BY <1>1, <1>2, <1>3 DEF InstanceInv

\* A step of one agent: what it does to the loop of its executor, what its
\* requests become and what it remembers.
LEMMA OneAgent ==
    ASSUME InstanceInv, UNCHANGED <<insts, issued, dep, loop>>,
           nodes' \in [Nodes -> NR!Node],
           NEW n \in Nodes, NEW a \in Agent, agents' = [agents EXCEPT ![n] = a],
           AgentOK(a, insts), memory' \in [Instances -> Memory],
           allocated' \in [Nodes -> [PortRange -> Instances \cup {0}]],
           containers' \in [Instances -> Container],
           faults' \in 0..MaxFaults, deploys' \in 0..MaxDeploys,
           \A r \in reqs' : RequestOK(r),
           \A i \in Instances : MemoryOK(memory'[i], insts[i])
    PROVE  InstanceInv'
  <1>1. agents \in [Nodes -> Agent] /\ \A m \in Nodes : AgentOK(agents[m], insts)
    BY DEF InstanceInv, TypeOK, AgentsOK
  <1>2. agents' \in [Nodes -> Agent] /\ \A m \in Nodes : AgentOK(agents'[m], insts)
    BY <1>1
  <1> QED BY <1>2, AgentsOnly

-----------------------------------------------------------------------------
(* The control-plane loop.                                                 *)

\* What a step of the system may do to the record of an instance.
IsCreated(a, b) == a.status = "none" /\ b = Created
RecordSteps == \A i \in Instances : \/ Evolves(insts[i], insts'[i])
                                    \/ IsCreated(insts[i], insts'[i])

\* A step that changes no record.
LEMMA NoRecordSteps ==
    ASSUME InstanceInv, UNCHANGED insts PROVE RecordSteps
  BY Stays DEF InstanceInv, TypeOK, RecordSteps

\* The loop lists, and decides what to do with what it listed.
LEMMA ListingKeeps ==
    ASSUME InstanceInv, RecoverNodes \/ RecoverOrphans \/ EvaluateHealth
                        \/ ComputeTargets \/ SchedulePending
    PROVE  InstanceInv' /\ RecordSteps
  <1>0. LoopOnly /\ insts \in [Instances -> Instance] /\ loop \in Loop
    BY DEF InstanceInv, TypeOK, RecoverNodes, RecoverOrphans, EvaluateHealth, ComputeTargets,
           SchedulePending
  <1>1. SUFFICES loop' \in Loop /\ LoopOK'
    <2>1. TypeOK'
      BY <1>0, <1>1 DEF InstanceInv, TypeOK, NR!NodeTypeOK, LoopOnly, agentVars, bounds
    <2>2. RecordsOK' /\ NeverOverProvisions'
      BY <1>0 DEF InstanceInv, LoopOnly, RecordsOK, NeverOverProvisions, InService,
                  ViableInstances
    <2>3. AgentsOK'
      BY <1>0 DEF InstanceInv, AgentsOK, LoopOnly, agentVars
    <2> QED BY <1>0, <1>1, <2>1, <2>2, <2>3, NoRecordSteps DEF InstanceInv, LoopOnly
  <1>2. CASE RecoverNodes
    BY <1>0, <1>2 DEF RecoverNodes, LoopAt, Loop, LoopOK
  <1>3. CASE RecoverOrphans
    <2>1. loop'.todo \in SUBSET (Ops \X Instances) /\ loop'.pc = "orphans"
      BY <1>0, <1>3 DEF RecoverOrphans, Goto, Loop, Ops
    <2>2. loop' \in Loop
      BY <1>0, <1>3, <2>1 DEF RecoverOrphans, Goto, Loop
    <2>3. ASSUME NEW d \in loop'.todo
          PROVE  d[1] # "assign" /\ DecisionOK(d[1], insts[d[2]])
      <3>1. CASE d \in {"unknown"} \X {i \in Instances : Orphaned(insts[i])}
        BY <3>1 DEF Orphaned, DecisionOK, Viable
      <3>2. CASE d \in {"lost"} \X {i \in Instances : UnknownTooLong(insts[i])}
        BY <3>2 DEF UnknownTooLong, DecisionOK
      <3> QED BY <1>0, <1>3, <3>1, <3>2 DEF RecoverOrphans, Goto, Loop
    <2> QED BY <1>0, <2>1, <2>2, <2>3 DEF LoopOK, LoopOnly
  <1>4. CASE EvaluateHealth
    <2>1. loop'.todo \in SUBSET (Ops \X Instances) /\ loop'.pc = "health"
      BY <1>0, <1>4 DEF EvaluateHealth, Goto, Loop, Ops
    <2>2. loop' \in Loop
      BY <1>0, <1>4, <2>1 DEF EvaluateHealth, Goto, Loop
    <2>3. ASSUME NEW d \in loop'.todo
          PROVE  d[1] # "assign" /\ DecisionOK(d[1], insts[d[2]])
      <3>1. CASE d \in {"unhealthy"} \X {i \in Instances : Unhealthy(insts[i])}
        BY <3>1 DEF Unhealthy, DecisionOK, InstanceInv, RecordsOK, RecordOK
      <3>2. CASE d \in {"settled"} \X {i \in Instances : Settled(insts[i])}
        BY <3>2 DEF Settled, Ready, DecisionOK
      <3> QED BY <1>0, <1>4, <3>1, <3>2 DEF EvaluateHealth, Goto, Loop
    <2> QED BY <1>0, <2>1, <2>2, <2>3 DEF LoopOK, LoopOnly
  <1>5. CASE ComputeTargets
    <2>1. Target \in Nat /\ (dep.degraded \/ Target \in {0, Replicas})
      <3>1. Cardinality(ViableInstances) \in Nat
        BY InstanceSystemAssumption, FS_Subset, FS_CardinalityType DEF ViableInstances
      <3> QED BY <3>1, InstanceSystemAssumption DEF Target
    <2> QED BY <1>0, <1>5, <2>1 DEF ComputeTargets, LoopAt, Loop, LoopOK, LoopOnly
  <1>6. CASE SchedulePending
    <2>1. loop'.todo \in SUBSET (Ops \X Instances) /\ loop'.pc = "assign"
      BY <1>0, <1>6 DEF SchedulePending, Loop, Ops
    <2>2. loop' \in Loop
      BY <1>0, <1>6, <2>1 DEF SchedulePending, Loop
    <2>3. \A d \in loop'.todo : d[1] = "assign" /\ insts[d[2]].status = "PENDING"
      BY <1>0, <1>6 DEF SchedulePending, Loop
    <2> QED BY <1>0, <2>1, <2>2, <2>3 DEF LoopOK, LoopOnly, DecisionOK
  <1> QED BY <1>2, <1>3, <1>4, <1>5, <1>6

\* The crash counter, after a crash or a recovery.
LEMMA CounterFacts ==
    ASSUME TypeOK, dep' \in {dep, RecordCrash(dep), ResetCrashCounter(dep)}
    PROVE  /\ dep' \in [crashes: Nat, degraded: BOOLEAN, active: BOOLEAN]
           /\ dep.degraded => dep'.degraded
  <1>1. dep \in [crashes: Nat, degraded: BOOLEAN, active: BOOLEAN]
    BY DEF TypeOK
  <1>2. CrashLimit \in Nat /\ (dep.crashes + 1 >= CrashLimit) \in BOOLEAN
    BY InstanceAssumption
  <1>3. CASE dep' = RecordCrash(dep)
    <2> DEFINE g == dep.degraded \/ dep.crashes + 1 >= CrashLimit
    <2>1. g \in BOOLEAN /\ (dep.degraded => g)
      BY <1>1
    <2>2. dep' = [dep EXCEPT !.crashes = dep.crashes + 1, !.degraded = g]
      BY <1>3, Zenon DEF RecordCrash
    <2> HIDE DEF g
    <2> DEFINE c == dep.crashes + 1
    <2>3. c \in Nat
      BY <1>1
    <2>4. dep' = [dep EXCEPT !.crashes = c, !.degraded = g]
      BY <2>2
    <2> HIDE DEF c
    <2>5. dep' \in [crashes: Nat, degraded: BOOLEAN, active: BOOLEAN] /\ dep'.degraded = g
      <3>1. dep'.degraded = g
        BY <1>1, <2>4
      <3>2. dep' \in [crashes: Nat, degraded: BOOLEAN, active: BOOLEAN]
        BY <1>1, <2>1, <2>3, <2>4, Zenon
      <3> QED BY <3>1, <3>2
    <2> QED BY <2>1, <2>5
  <1>4. CASE dep' = ResetCrashCounter(dep)
    BY <1>1, <1>4 DEF ResetCrashCounter
  <1> QED BY <1>1, <1>3, <1>4

\* The loop carries out one decision.
LEMMA DoKeeps ==
    ASSUME InstanceInv, NEW op \in Ops, NEW i \in Instances, Do(op, i)
    PROVE  InstanceInv' /\ RecordSteps
  <1> DEFINE r == insts[i]
  <1>0. /\ insts \in [Instances -> Instance] /\ r \in Instance /\ RecordOK(r)
        /\ r.exec = issued[i] /\ loop \in Loop /\ <<op, i>> \in loop.todo
        /\ loop' = [loop EXCEPT !.todo = loop.todo \ {<<op, i>>}]
        /\ UNCHANGED <<issued, nodes, agents, memory, allocated, containers, reqs, deploys,
                       faults>>
    BY DEF Do, InstanceInv, TypeOK, RecordsOK, agentVars, bounds
  <1>1. DecisionOK(op, r) /\ (op = "assign" <=> loop.pc = "assign")
    BY <1>0 DEF InstanceInv, LoopOK
  <1>2. loop.online \subseteq Nodes
    BY <1>0 DEF Loop
  <1>3. PICK b : /\ insts' = [insts EXCEPT ![i] = b]
                 /\ Evolves(r, b) /\ RecordOK(b) /\ b.exec = r.exec
    <2>1. CASE op = "assign"
      <3>1. PICK n \in loop.online : insts' = [insts EXCEPT ![i] = Assigned(r, n)]
        BY <2>1 DEF Do
      <3> QED BY <1>0, <1>1, <1>2, <2>1, <3>1, AssignedFacts DEF DecisionOK
    <2>2. CASE op = "settled"
      BY <1>0, <2>2, Stays DEF Do
    <2>3. CASE op \in Ops \ {"assign", "settled"}
      <3>1. PICK b : /\ insts' = [insts EXCEPT ![i] = b]
                     /\ \/ op = "unknown" /\ b = MarkUnknown(r)
                        \/ op = "drain" /\ b = MarkDraining(r)
                        \/ op \in {"lost", "unhealthy"} /\ b = UpdateState(r, "CRASHED")
                        \/ op = "stop" /\ b = UpdateState(r, "STOPPED")
                        \/ op = "stopping" /\ b = UpdateState(r, "STOPPING")
        BY <2>3 DEF Do
      <3> HIDE DEF r
      <3>2. Evolves(r, b) /\ RecordOK(b) /\ b.exec = r.exec
        BY <1>0, <1>1, <2>3, <3>1, DecisionFacts
      <3> QED BY <3>1, <3>2
    <2> QED BY <2>1, <2>2, <2>3
  <1>4. /\ insts' \in [Instances -> Instance]
        /\ \A j \in Instances : /\ Evolves(insts[j], insts'[j]) /\ RecordOK(insts'[j])
                                /\ insts'[j].exec = issued'[j]
    BY <1>0, <1>3, OneRecord DEF InstanceInv
  <1>5. /\ dep' \in [crashes: Nat, degraded: BOOLEAN, active: BOOLEAN]
        /\ dep.degraded => dep'.degraded
    <2>1. dep' \in {dep, RecordCrash(dep), ResetCrashCounter(dep)}
      BY DEF Do
    <2> QED BY <2>1, CounterFacts DEF InstanceInv
  <1>6. TypeOK'
    BY <1>0, <1>4, <1>5 DEF InstanceInv, TypeOK, NR!NodeTypeOK, Loop
  <1>7. RecordsOK' /\ NeverOverProvisions'
    BY <1>4, <1>5, RecordsKept
  <1>8. AgentsOK'
    <2>1. \A n \in Nodes : AgentOK(agents[n], insts')
      BY <1>4, <1>5, RecordsKept DEF InstanceInv, AgentsOK, TypeOK
    <2>2. \A j \in Instances : MemoryOK(memory[j], insts'[j])
      BY <1>4, <1>5, RecordsKept DEF InstanceInv, AgentsOK, MemoryOK
    <2> QED BY <1>0, <2>1, <2>2 DEF InstanceInv, AgentsOK
  <1>9. LoopOK'
    <2>1. ASSUME NEW d \in loop'.todo
          PROVE  /\ d[1] = "assign" <=> loop.pc = "assign"
                 /\ DecisionOK(d[1], insts'[d[2]])
      <3>1. d \in loop.todo /\ d # <<op, i>> /\ d \in Ops \X Instances
        BY <1>0 DEF Loop
      <3>2. d[1] \in Ops /\ d[2] \in Instances /\ d = <<d[1], d[2]>>
        BY <3>1
      <3>3. /\ d[1] = "assign" <=> loop.pc = "assign"
            /\ DecisionOK(d[1], insts[d[2]])
        BY <3>1 DEF InstanceInv, LoopOK
      <3>4. d[1] = "assign" => insts'[d[2]].status = "PENDING"
        <4>1. ASSUME d[1] = "assign" PROVE insts'[d[2]] = insts[d[2]]
          BY <1>0, <1>1, <1>3, <3>1, <3>2, <3>3, <4>1
        <4> QED BY <3>3, <4>1 DEF DecisionOK
      <3> QED BY <1>4, <1>5, <3>2, <3>3, <3>4, RecordsKept
    <2>2. loop'.pc = "scale" => dep'.degraded \/ loop'.desired \in {0, Replicas}
      BY <1>0, <1>5 DEF InstanceInv, LoopOK, Loop
    <2> QED BY <1>0, <2>1, <2>2 DEF LoopOK, Loop
  <1> QED BY <1>4, <1>6, <1>7, <1>8, <1>9 DEF InstanceInv, RecordSteps

\* The smaller of two numbers.
LEMMA MinOfTwo ==
    ASSUME NEW a \in Int, NEW b \in Int
    PROVE  Min({a, b}) \in {a, b} /\ Min({a, b}) <= a /\ Min({a, b}) <= b
  <1>1. \E x \in {a, b} : \A y \in {a, b} : x <= y
    <2>1. CASE a <= b
      BY <2>1
    <2>2. CASE b <= a
      BY <2>2
    <2> QED BY <2>1, <2>2
  <1> QED BY <1>1 DEF Min

\* The larger of two numbers.
LEMMA MaxOfTwo ==
    ASSUME NEW a \in Int, NEW b \in Int
    PROVE  Max({a, b}) \in {a, b} /\ Max({a, b}) >= a /\ Max({a, b}) >= b
  <1>1. \E x \in {a, b} : \A y \in {a, b} : x >= y
    <2>1. CASE a >= b
      BY <2>1
    <2>2. CASE b >= a
      BY <2>2
    <2> QED BY <2>1, <2>2
  <1> QED BY <1>1 DEF Max

\* The choice of what to stop: nothing but viable instances, and only those
\* that drain are stopped.
LEMMA RetireFacts ==
    ASSUME TypeOK, NEW i \in ViableInstances, NEW d \in Retire(i)
    PROVE  /\ d \in Ops \X Instances /\ d[2] = i /\ d[1] # "assign"
           /\ DecisionOK(d[1], insts[i])
  <1>1. i \in Instances /\ insts[i] \in Instance /\ insts[i].status \in Viable
    BY DEF TypeOK, ViableInstances
  <1>2. insts[i].status # "none"
    BY <1>1 DEF Viable
  <1>3. \/ d = <<"drain", i>>
        \/ d \in {<<"stop", i>>, <<"stopping", i>>} /\ Draining(insts[i])
    BY DEF Retire, Draining
  <1> QED BY <1>1, <1>2, <1>3 DEF DecisionOK, Ops

\* Scaling up creates what is missing, and never more.
LEMMA ScaleKeeps ==
    ASSUME InstanceInv, Scale
    PROVE  InstanceInv' /\ RecordSteps
  <1> DEFINE unused == {i \in Instances : insts[i].status = "none"}
             missing == Missing(loop.desired)
  <1>0. /\ insts \in [Instances -> Instance] /\ loop \in Loop /\ loop.pc = "scale"
        /\ loop' = [loop EXCEPT !.pc = "scaling",
                                !.todo = UNION {Retire(i) : i \in Victims(-missing)}]
        /\ UNCHANGED <<issued, dep, nodes, agents, memory, allocated, containers, reqs,
                       deploys, faults>>
    BY DEF Scale, InstanceInv, TypeOK, LoopAt, Goto, agentVars, bounds
  <1>1. PICK new \in SUBSET unused :
           /\ Cardinality(new) = Max({0, Min({missing, Cardinality(unused)})})
           /\ insts' = [i \in Instances |-> IF i \in new THEN Created ELSE insts[i]]
    BY DEF Scale
  <1>2. \A i \in Instances : \/ i \notin new /\ insts'[i] = insts[i]
                             \/ i \in new /\ insts[i].status = "none" /\ insts'[i] = Created
    BY <1>1
  <1>3. /\ Created \in Instance /\ RecordOK(Created) /\ Created.exec = 0
        /\ Created.status = "PENDING" /\ ~Draining(Created)
    <2>1. /\ Created.status = "PENDING" /\ Created.exec = 0 /\ Created.node = NoNode
          /\ Created.drain = "nil"
      BY DEF Created, NoInstance
    <2>2. NoInstance \in Instance /\ "PENDING" \in Statuses
      BY DEF NoInstance, Instance, Statuses, Viable, Healths, UnknownTimes, DrainTimes,
             StartTimes
    <2>3. Created \in Instance
      BY <2>2 DEF Created, Instance
    <2> QED BY <2>1, <2>3 DEF RecordOK, Draining
  <1>4. RecordSteps
    BY <1>0, <1>2, Stays DEF RecordSteps, IsCreated
  <1>5. insts' \in [Instances -> Instance]
    BY <1>0, <1>1, <1>3
  <1>6. RecordsOK'
    <2>1. ASSUME NEW i \in Instances PROVE insts'[i].exec = issued'[i] /\ RecordOK(insts'[i])
      BY <1>0, <1>2, <1>3 DEF InstanceInv, RecordsOK, RecordOK
    <2> QED BY <2>1 DEF RecordsOK
  <1>7. /\ loop' \in Loop
        /\ \A d \in loop'.todo : d[1] # "assign" /\ DecisionOK(d[1], insts'[d[2]])
    <2>1. ASSUME NEW d \in UNION {Retire(i) : i \in Victims(-missing)}
          PROVE  /\ d \in Ops \X Instances /\ d[1] # "assign"
                 /\ DecisionOK(d[1], insts'[d[2]])
      <3>1. PICK i \in ViableInstances : d \in Retire(i)
        BY DEF Victims
      <3>2. /\ d \in Ops \X Instances /\ d[2] = i /\ d[1] # "assign"
            /\ DecisionOK(d[1], insts[i])
        BY <3>1, RetireFacts DEF InstanceInv
      <3>3. i \in Instances /\ insts'[i] = insts[i]
        BY <1>2 DEF ViableInstances, Viable
      <3> QED BY <3>2, <3>3
    <2> QED BY <1>0, <2>1 DEF Loop
  <1>8. LoopOK'
    BY <1>0, <1>7 DEF LoopOK, Loop
  <1>9. AgentsOK'
    <2>1. \A i \in Instances : insts[i].exec # 0 => insts'[i].exec # 0
      BY <1>2 DEF InstanceInv, RecordsOK, RecordOK
    <2>2. \A n \in Nodes : AgentOK(agents[n], insts) => AgentOK(agents[n], insts')
      BY <2>1 DEF InstanceInv, TypeOK, AgentOK, Agent, Copy
    <2> QED BY <1>0, <2>1, <2>2 DEF InstanceInv, AgentsOK, MemoryOK
  <1>10. NeverOverProvisions'
    <2>1. /\ IsFiniteSet(InService) /\ IsFiniteSet(ViableInstances) /\ IsFiniteSet(new)
          /\ IsFiniteSet(unused)
          /\ InService \subseteq ViableInstances
      BY InstanceSystemAssumption, FS_Subset DEF InService, ViableInstances
    <2> DEFINE s == Cardinality(InService)
               v == Cardinality(ViableInstances)
               k == Cardinality(new)
               u == Cardinality(unused)
    <2>2. s \in Nat /\ v \in Nat /\ k \in Nat /\ u \in Nat /\ s <= v
      BY <2>1, FS_CardinalityType, FS_Subset
    <2>3. InService' = InService \cup new /\ InService \cap new = {}
      BY <1>1, <1>2, <1>3 DEF InService, ViableInstances, Viable
    <2>4. Cardinality(InService') = s + k
      <3>1. Cardinality(InService \cup new) = s + k - Cardinality(InService \cap new)
        BY <2>1, FS_Union
      <3>2. Cardinality(InService \cap new) = 0
        BY <2>3, FS_EmptySet
      <3>3. Cardinality(InService') = Cardinality(InService \cup new)
        BY <2>3
      <3> HIDE DEF s, k
      <3> QED BY <2>2, <3>1, <3>2, <3>3
    <2>5. missing = loop.desired - v /\ loop.desired \in Nat /\ missing \in Int
      BY <1>0, <2>2 DEF Missing, Loop
    <2>6. k = 0 \/ k <= missing
      <3> DEFINE m == Min({missing, u})
      <3>1. k = Max({0, m})
        BY <1>1
      <3> HIDE DEF missing, u, k
      <3>2. missing \in Int /\ u \in Int /\ 0 \in Int
        BY <2>2, <2>5
      <3>3. m \in {missing, u} /\ m <= missing
        BY <3>2, MinOfTwo, Zenon
      <3> HIDE DEF m
      <3>4. m \in Int
        BY <3>2, <3>3
      <3>5. k \in {0, m}
        BY <3>1, <3>2, <3>4, MaxOfTwo, Zenon
      <3> QED BY <3>3, <3>5
    <2>7. dep.degraded \/ loop.desired <= Replicas
      BY <1>0, InstanceSystemAssumption DEF InstanceInv, LoopOK
    <2>8. dep.degraded \/ s <= Replicas
      BY DEF InstanceInv, NeverOverProvisions
    <2> HIDE DEF s, v, k, u, missing
    <2>9. dep.degraded \/ s + k <= Replicas
      BY <2>2, <2>5, <2>6, <2>7, <2>8, InstanceSystemAssumption
    <2> QED BY <1>0, <2>4, <2>9 DEF NeverOverProvisions
  <1>11. TypeOK'
    BY <1>0, <1>5, <1>7 DEF InstanceInv, TypeOK, NR!NodeTypeOK
  <1> QED BY <1>4, <1>6, <1>8, <1>9, <1>10, <1>11 DEF InstanceInv

-----------------------------------------------------------------------------
(* Handlers and time.                                                      *)

\* A step of the control plane beside its loop.
LEMMA RegistryStep ==
    ASSUME InstanceInv, UNCHANGED <<loop, nodes, memory, allocated, containers, deploys>>,
           insts' \in [Instances -> Instance], issued' \in [Instances -> Nat],
           \A i \in Instances : /\ Evolves(insts[i], insts'[i]) /\ RecordOK(insts'[i])
                                /\ insts'[i].exec = issued'[i],
           \A i \in Instances : insts[i].status = "PENDING" => insts'[i].status = "PENDING",
           dep' \in [crashes: Nat, degraded: BOOLEAN, active: BOOLEAN],
           dep.degraded => dep'.degraded,
           agents' \in [Nodes -> Agent], \A n \in Nodes : AgentOK(agents'[n], insts'),
           \A r \in reqs' : RequestOK(r), faults' \in 0..MaxFaults
    PROVE  InstanceInv' /\ RecordSteps
  <1>1. TypeOK'
    BY DEF InstanceInv, TypeOK, NR!NodeTypeOK, RequestOK
  <1>2. RecordsOK' /\ NeverOverProvisions'
    BY RecordsKept
  <1>3. AgentsOK'
    <2>1. \A i \in Instances : MemoryOK(memory[i], insts'[i])
      BY RecordsKept DEF InstanceInv, AgentsOK, MemoryOK
    <2> QED BY <2>1 DEF AgentsOK
  <1>4. LoopOK'
    <2>1. ASSUME NEW d \in loop.todo
          PROVE  /\ d[1] = "assign" <=> loop.pc = "assign"
                 /\ DecisionOK(d[1], insts'[d[2]])
      <3>1. d[1] \in Ops /\ d[2] \in Instances
        BY DEF InstanceInv, TypeOK, Loop
      <3>2. /\ d[1] = "assign" <=> loop.pc = "assign"
            /\ DecisionOK(d[1], insts[d[2]])
        BY DEF InstanceInv, LoopOK
      <3>3. d[1] = "assign" => insts'[d[2]].status = "PENDING"
        BY <3>1, <3>2 DEF DecisionOK
      <3> QED BY <3>1, <3>2, <3>3, RecordsKept
    <2> QED BY <2>1 DEF InstanceInv, LoopOK
  <1> QED BY <1>1, <1>2, <1>3, <1>4 DEF InstanceInv, RecordSteps

\* What is known of a request.
LEMMA RequestFacts ==
    ASSUME InstanceInv, NEW r \in reqs
    PROVE  /\ r.node \in Nodes /\ r.id \in Instances
           /\ r.kind = "report" => r \in Report /\ ReportOK(r)
           /\ r.kind = "claim" => r \in Claim
           /\ RequestOK(r) /\ RequestOK([r EXCEPT !.from = "gone"])
           /\ r.kind = "report" => \A s \in Statuses : RequestOK([r EXCEPT !.seen = s])
  <1>1. RequestOK(r)
    BY DEF InstanceInv, AgentsOK
  <1>2. CASE r \in Claim
    <2>1. [r EXCEPT !.from = "gone"] \in Claim
      BY <1>2 DEF Claim
    <2>2. r.kind # "report" /\ r.node \in Nodes /\ r.id \in Instances
      BY <1>2 DEF Claim
    <2>3. RequestOK([r EXCEPT !.from = "gone"])
      BY <2>1 DEF RequestOK
    <2> QED BY <1>1, <1>2, <2>2, <2>3, Zenon
  <1>3. CASE r \in Report /\ ReportOK(r)
    <2>1. [r EXCEPT !.from = "gone"] \in Report /\ ReportOK([r EXCEPT !.from = "gone"])
      BY <1>3 DEF Report, ReportOK
    <2>2. ASSUME NEW s \in Statuses
          PROVE  [r EXCEPT !.seen = s] \in Report /\ ReportOK([r EXCEPT !.seen = s])
      BY <1>3 DEF Report, ReportOK
    <2>3. r.kind = "report" /\ r.node \in Nodes /\ r.id \in Instances
      BY <1>3 DEF Report
    <2> QED BY <1>1, <1>3, <2>1, <2>2, <2>3 DEF RequestOK
  <1> QED BY <1>1, <1>2, <1>3 DEF RequestOK

\* Claim: the first execution of the instance, which its agent will start.
LEMMA ClaimKeeps ==
    ASSUME InstanceInv, NEW r \in reqs, ClaimHandler(r)
    PROVE  InstanceInv' /\ RecordSteps
  <1> DEFINE i == r.id
  <1>0. /\ i \in Instances /\ r.node \in Nodes /\ r.kind = "claim" /\ r \in Claim
        /\ insts \in [Instances -> Instance] /\ insts[i] \in Instance
        /\ issued \in [Instances -> Nat] /\ RecordOK(insts[i])
        /\ insts[i].exec = issued[i] /\ agents \in [Nodes -> Agent]
        /\ faults \in 0..MaxFaults /\ MaxFaults \in Nat
        /\ \A n \in Nodes : AgentOK(agents[n], insts)
        /\ reqs' = reqs \ {r} /\ \A q \in reqs' : RequestOK(q)
        /\ UNCHANGED <<dep, nodes, loop, memory, allocated, containers, deploys>>
    BY RequestFacts, InstanceSystemAssumption
       DEF ClaimHandler, InstanceInv, TypeOK, RecordsOK, AgentsOK
  <1>d. dep \in [crashes: Nat, degraded: BOOLEAN, active: BOOLEAN]
    BY DEF InstanceInv, TypeOK
  <1>1. CASE UNCHANGED <<insts, issued, agents, faults>>
    <2>1. \A n \in Nodes : AgentOK(agents'[n], insts')
      BY <1>0, <1>1
    <2>2. \A j \in Instances : /\ Evolves(insts[j], insts'[j]) /\ RecordOK(insts'[j])
                               /\ insts'[j].exec = issued'[j]
      BY <1>0, <1>1, Stays DEF InstanceInv, RecordsOK
    <2> QED BY <1>0, <1>d, <1>1, <2>1, <2>2, RegistryStep
  <1>2. ASSUME NEW b, ClaimAllowed(insts[i], r.node),
               issued' = [issued EXCEPT ![i] = issued[i] + 1],
               insts' = [insts EXCEPT ![i] = b], faults' \in 0..MaxFaults,
               b \in {Claimed(insts[i], issued[i] + 1),
                      UpdateState(Claimed(insts[i], issued[i] + 1), "CRASHED")},
               \/ agents' = agents
               \/ agents' = [agents EXCEPT ![r.node] =
                     [agents[r.node] EXCEPT !.pc = "start", !.cur = i, !.exec = issued[i] + 1]]
        PROVE  InstanceInv' /\ RecordSteps
    <2>1. /\ issued[i] = 0 /\ insts[i].status # "PENDING"
          /\ Evolves(insts[i], b) /\ RecordOK(b) /\ b.exec = 1
      BY <1>0, <1>2, ClaimedFacts
    <2>2. /\ issued'[i] = 1 /\ \A j \in Instances \ {i} : issued'[j] = issued[j]
          /\ issued' \in [Instances -> Nat]
      BY <1>0, <1>2, <2>1
    <2>3. /\ insts' \in [Instances -> Instance]
          /\ \A j \in Instances : /\ Evolves(insts[j], insts'[j]) /\ RecordOK(insts'[j])
                                  /\ insts'[j].exec = issued'[j]
      BY <1>0, <1>2, <2>1, <2>2, OneRecord DEF InstanceInv
    <2>4. \A n \in Nodes : AgentOK(agents[n], insts')
      BY <1>0, <2>3, RecordsKept
    <2>5. agents' \in [Nodes -> Agent] /\ \A n \in Nodes : AgentOK(agents'[n], insts')
      <3>1. CASE agents' = agents
        BY <1>0, <2>4, <3>1
      <3>2. CASE agents' = [agents EXCEPT ![r.node] =
                     [agents[r.node] EXCEPT !.pc = "start", !.cur = i, !.exec = 1]]
        <4> DEFINE a == [agents[r.node] EXCEPT !.pc = "start", !.cur = i, !.exec = 1]
        <4>1. /\ a \in Agent /\ a.pc = "start" /\ a.cur = i /\ a.exec = 1
              /\ a.out = agents[r.node].out
          BY <1>0 DEF Agent
        <4>2. insts'[i].exec = 1
          BY <1>0, <2>2, <2>3
        <4>3. AgentOK(a, insts')
          BY <1>0, <4>1, <4>2 DEF AgentOK
        <4> QED BY <1>0, <2>4, <3>2, <4>1, <4>3
      <3>3. issued[i] + 1 = 1
        BY <2>1
      <3> QED BY <1>2, <3>1, <3>2, <3>3
    <2>6. \A j \in Instances : insts[j].status = "PENDING" => insts'[j].status = "PENDING"
      BY <1>0, <1>2, <2>1
    <2> QED BY <1>0, <1>d, <1>2, <2>2, <2>3, <2>5, <2>6, RegistryStep
  <1>3. CASE /\ ClaimAllowed(insts[i], r.node)
             /\ issued' = [issued EXCEPT ![i] = issued[i] + 1]
             /\ insts' = [insts EXCEPT ![i] = Claimed(insts[i], issued[i] + 1)]
             /\ agents' = IF r.from = "gone" THEN agents
                          ELSE [agents EXCEPT ![r.node] =
                     [agents[r.node] EXCEPT !.pc = "start", !.cur = i, !.exec = issued[i] + 1]]
             /\ UNCHANGED faults
    BY <1>0, <1>2, <1>3
  <1>4. CASE /\ ClaimAllowed(insts[i], r.node)
             /\ issued' = [issued EXCEPT ![i] = issued[i] + 1]
             /\ insts' = [insts EXCEPT
                            ![i] = UpdateState(Claimed(insts[i], issued[i] + 1), "CRASHED")]
             /\ Fault /\ UNCHANGED agents
    <2>1. faults' \in 0..MaxFaults
      BY <1>0, <1>4 DEF Fault
    <2> QED BY <1>2, <1>4, <2>1
  <1> QED BY <1>1, <1>3, <1>4 DEF ClaimHandler

\* ReportStatus applies a report, or repeats it, or refuses it.
LEMMA ReportKeeps ==
    ASSUME InstanceInv, NEW r \in reqs, ReportApplies(r)
    PROVE  InstanceInv' /\ RecordSteps
  <1> DEFINE i == r.id
             b == AfterReport(insts[i], r.node, r.exec, r.status, r.health, r.port)
  <1>0. /\ i \in Instances /\ r \in Report /\ ReportOK(r)
        /\ insts \in [Instances -> Instance] /\ insts[i] \in Instance
        /\ RecordOK(insts[i]) /\ insts[i].exec = issued[i]
        /\ insts' = [insts EXCEPT ![i] = b]
        /\ dep' \in {dep, RecordCrash(dep), ResetCrashCounter(dep)}
        /\ \A q \in reqs' : RequestOK(q)
        /\ UNCHANGED <<issued, nodes, loop, agents, memory, allocated, containers, deploys,
                       faults>>
    BY RequestFacts
       DEF ReportApplies, InstanceInv, TypeOK, RecordsOK, AgentsOK, agentVars, bounds
  <1>1. /\ Evolves(insts[i], b) /\ RecordOK(b) /\ b.exec = insts[i].exec
        /\ insts[i].status = "PENDING" => b = insts[i]
    BY <1>0, ReportFacts
  <1> HIDE DEF b
  <1>2. /\ insts' \in [Instances -> Instance]
        /\ \A j \in Instances : /\ Evolves(insts[j], insts'[j]) /\ RecordOK(insts'[j])
                                /\ insts'[j].exec = issued'[j]
    BY <1>0, <1>1, OneRecord DEF InstanceInv
  <1>3. /\ dep' \in [crashes: Nat, degraded: BOOLEAN, active: BOOLEAN]
        /\ dep.degraded => dep'.degraded
    BY <1>0, CounterFacts DEF InstanceInv
  <1>4. agents' \in [Nodes -> Agent] /\ \A n \in Nodes : AgentOK(agents'[n], insts')
    <2>1. agents \in [Nodes -> Agent] /\ \A n \in Nodes : AgentOK(agents[n], insts)
      BY DEF InstanceInv, TypeOK, AgentsOK
    <2>2. \A n \in Nodes : AgentOK(agents[n], insts')
      BY <1>2, <1>3, <2>1, RecordsKept
    <2> QED BY <1>0, <2>1, <2>2
  <1>5. \A j \in Instances : insts[j].status = "PENDING" => insts'[j].status = "PENDING"
    BY <1>0, <1>1
  <1>6. issued' \in [Instances -> Nat] /\ faults' \in 0..MaxFaults
    BY <1>0 DEF InstanceInv, TypeOK
  <1> QED BY <1>0, <1>2, <1>3, <1>4, <1>5, <1>6, RegistryStep

\* A timeout of one instance passes.
LEMMA TimeKeeps ==
    ASSUME InstanceInv, NEW i \in Instances,
           UnknownTimeoutPasses(i) \/ DrainTimeoutPasses(i) \/ RecoveryWindowPasses(i)
    PROVE  InstanceInv' /\ RecordSteps
  <1> DEFINE r == insts[i]
  <1>0. /\ insts \in [Instances -> Instance] /\ r \in Instance /\ RecordOK(r)
        /\ r.exec = issued[i]
        /\ UNCHANGED <<issued, dep, nodes, loop, agents, memory, allocated, containers, reqs,
                       deploys, faults>>
    BY DEF InstanceInv, TypeOK, RecordsOK, UnknownTimeoutPasses, DrainTimeoutPasses,
           RecoveryWindowPasses, TimeOnly, agentVars, bounds
  <1>1. PICK b : /\ insts' = [insts EXCEPT ![i] = b]
                 /\ \/ r.unknown = "recent" /\ b = [r EXCEPT !.unknown = "expired"]
                    \/ r.drain = "recent" /\ b = [r EXCEPT !.drain = "elapsed"]
                    \/ r.started = "recent" /\ b = [r EXCEPT !.started = "settled"]
    BY DEF UnknownTimeoutPasses, DrainTimeoutPasses, RecoveryWindowPasses
  <1>2. Evolves(r, b) /\ RecordOK(b) /\ b.exec = r.exec /\ b.status = r.status
    BY <1>0, <1>1, TimeFacts
  <1>3. /\ insts' \in [Instances -> Instance]
        /\ \A j \in Instances : /\ Evolves(insts[j], insts'[j]) /\ RecordOK(insts'[j])
                                /\ insts'[j].exec = issued'[j]
    BY <1>0, <1>1, <1>2, OneRecord DEF InstanceInv
  <1>4. /\ issued' \in [Instances -> Nat] /\ faults' \in 0..MaxFaults
        /\ dep' \in [crashes: Nat, degraded: BOOLEAN, active: BOOLEAN]
        /\ dep.degraded => dep'.degraded
        /\ \A q \in reqs' : RequestOK(q)
    BY <1>0 DEF InstanceInv, TypeOK, AgentsOK
  <1>5. agents' \in [Nodes -> Agent] /\ \A n \in Nodes : AgentOK(agents'[n], insts')
    <2>1. agents \in [Nodes -> Agent] /\ \A n \in Nodes : AgentOK(agents[n], insts)
      BY DEF InstanceInv, TypeOK, AgentsOK
    <2>2. \A n \in Nodes : AgentOK(agents[n], insts')
      BY <1>3, <1>4, <2>1, RecordsKept
    <2> QED BY <1>0, <2>1, <2>2
  <1>6. \A j \in Instances : insts[j].status = "PENDING" => insts'[j].status = "PENDING"
    BY <1>0, <1>1, <1>2
  <1> QED BY <1>0, <1>3, <1>4, <1>5, <1>6, RegistryStep

\* A deploy or rollback.
LEMMA DeployKeeps ==
    ASSUME InstanceInv, Deploy PROVE InstanceInv' /\ RecordSteps
  <1>1. /\ UNCHANGED <<insts, issued, nodes, loop, agents, memory, allocated, containers, reqs,
                       faults>>
        /\ dep' = [dep EXCEPT !.active = ~dep.active]
        /\ deploys < MaxDeploys /\ deploys' = deploys + 1
    BY DEF Deploy, agentVars
  <1>2. /\ dep' \in [crashes: Nat, degraded: BOOLEAN, active: BOOLEAN]
        /\ dep'.degraded = dep.degraded
    BY <1>1 DEF InstanceInv, TypeOK
  <1>3. deploys' \in 0..MaxDeploys
    BY <1>1, InstanceSystemAssumption DEF InstanceInv, TypeOK
  <1>4. TypeOK'
    BY <1>1, <1>2, <1>3 DEF InstanceInv, TypeOK, NR!NodeTypeOK
  <1>5. RecordsOK' /\ LoopOK' /\ AgentsOK' /\ NeverOverProvisions'
    BY <1>1, <1>2 DEF InstanceInv, RecordsOK, LoopOK, AgentsOK, NeverOverProvisions, InService,
                      ViableInstances
  <1> QED BY <1>1, <1>4, <1>5, NoRecordSteps DEF InstanceInv

\* Requests that are lost, delayed or read.
LEMMA RequestsKeep ==
    ASSUME InstanceInv, NEW r \in reqs,
           RequestLost(r) \/ RequestDelayed(r) \/ ReportReads(r)
    PROVE  InstanceInv' /\ RecordSteps
  <1>1. /\ UNCHANGED <<insts, issued, dep, loop, nodes, agents, memory, allocated, containers,
                       deploys>>
        /\ faults' = faults \/ (faults < MaxFaults /\ faults' = faults + 1)
    BY DEF RequestLost, RequestDelayed, ReportReads, Fault, cpVars, agentVars, bounds
  <1>2. faults' \in 0..MaxFaults
    BY <1>1, InstanceSystemAssumption DEF InstanceInv, TypeOK
  <1>3. \A q \in reqs' : RequestOK(q)
    <2>1. \A q \in reqs : RequestOK(q)
      BY DEF InstanceInv, AgentsOK
    <2>2. CASE RequestLost(r)
      BY <2>1, <2>2 DEF RequestLost
    <2>3. CASE RequestDelayed(r)
      BY <2>1, <2>3, RequestFacts DEF RequestDelayed
    <2>4. CASE ReportReads(r)
      <3>1. insts[r.id].status \in Statuses
        BY RequestFacts DEF InstanceInv, TypeOK, Instance
      <3> QED BY <2>1, <2>4, <3>1, RequestFacts DEF ReportReads
    <2> QED BY <2>2, <2>3, <2>4
  <1>4. InstanceInv'
    <2>1. /\ nodes' \in [Nodes -> NR!Node] /\ agents' \in [Nodes -> Agent]
          /\ memory' \in [Instances -> Memory]
          /\ allocated' \in [Nodes -> [PortRange -> Instances \cup {0}]]
          /\ containers' \in [Instances -> Container] /\ deploys' \in 0..MaxDeploys
          /\ \A n \in Nodes : AgentOK(agents'[n], insts)
          /\ \A i \in Instances : MemoryOK(memory'[i], insts[i])
      BY <1>1 DEF InstanceInv, TypeOK, NR!NodeTypeOK, AgentsOK
    <2> QED BY <1>1, <1>2, <1>3, <2>1, AgentsOnly
  <1> QED BY <1>1, <1>4, NoRecordSteps

-----------------------------------------------------------------------------
(* Agents, probers and containers.                                         *)

\* What the invariant says of the agents' side.
LEMMA StateFacts ==
    ASSUME InstanceInv
    PROVE  /\ insts \in [Instances -> Instance] /\ nodes \in [Nodes -> NR!Node]
           /\ agents \in [Nodes -> Agent] /\ memory \in [Instances -> Memory]
           /\ allocated \in [Nodes -> [PortRange -> Instances \cup {0}]]
           /\ containers \in [Instances -> Container]
           /\ faults \in 0..MaxFaults /\ deploys \in 0..MaxDeploys
           /\ Fault => faults' \in 0..MaxFaults
           /\ \A n \in Nodes : AgentOK(agents[n], insts)
           /\ \A r \in reqs : RequestOK(r)
           /\ \A i \in Instances : MemoryOK(memory[i], insts[i])
           /\ \A i \in Instances : RecordOK(insts[i])
  BY InstanceSystemAssumption
     DEF InstanceInv, TypeOK, NR!NodeTypeOK, AgentsOK, RecordsOK, Fault

\* A report of the loop on an execution.
LEMMA LoopReportFacts ==
    ASSUME NEW n \in Nodes, NEW i \in Instances, NEW e \in Nat \ {0},
           NEW s \in {"RUNNING"} \cup Terminal, NEW h \in Healths,
           NEW p \in PortRange \cup {0}
    PROVE  /\ LoopReport(n, i, e, s, h, p) \in Report
           /\ ReportOK(LoopReport(n, i, e, s, h, p))
           /\ Sound(<<LoopReport(n, i, e, s, h, p)>>)
  <1> DEFINE r == LoopReport(n, i, e, s, h, p)
  <1>1. r \in Report /\ ReportOK(r)
    BY DEF LoopReport, Report, ReportOK, Reportable, Terminal
  <1> HIDE DEF r
  <1>2. Sound(<<r>>)
    BY <1>1 DEF Sound
  <1> QED BY <1>1, <1>2 DEF r

\* Nothing to report, and reports one after the other.
LEMMA SoundFacts ==
    /\ Sound(<<>>)
    /\ \A a, b : Sound(a) /\ Sound(b) => Sound(a \o b)
    /\ \A a : Sound(a) /\ a # <<>> =>
          RequestOK(Head(a)) /\ Sound(Tail(a))
  <1>1. Sound(<<>>)
    BY DEF Sound
  <1>2. ASSUME NEW a, NEW b, Sound(a), Sound(b) PROVE Sound(a \o b)
    <2>1. /\ a \in Seq(Report) /\ b \in Seq(Report) /\ a \o b \in Seq(Report)
          /\ Len(a \o b) = Len(a) + Len(b) /\ Len(a) \in Nat /\ Len(b) \in Nat
      BY <1>2 DEF Sound
    <2>2. ASSUME NEW k \in 1..Len(a \o b) PROVE ReportOK((a \o b)[k])
      <3>1. CASE k <= Len(a)
        BY <1>2, <2>1, <3>1 DEF Sound
      <3>2. CASE k > Len(a)
        <4>1. (a \o b)[k] = b[k - Len(a)] /\ k - Len(a) \in 1..Len(b)
          BY <2>1, <3>2
        <4> QED BY <1>2, <4>1 DEF Sound
      <3> QED BY <2>1, <3>1, <3>2
    <2> QED BY <2>1, <2>2 DEF Sound
  <1>3. ASSUME NEW a, Sound(a), a # <<>> PROVE RequestOK(Head(a)) /\ Sound(Tail(a))
    <2>1. /\ a \in Seq(Report) /\ Len(a) \in Nat \ {0} /\ Tail(a) \in Seq(Report)
          /\ Head(a) = a[1] /\ Len(Tail(a)) = Len(a) - 1 /\ a[1] \in Report
      BY <1>3 DEF Sound
    <2>2. \A k \in 1..Len(Tail(a)) : Tail(a)[k] = a[k + 1] /\ k + 1 \in 1..Len(a)
      BY <2>1
    <2> QED BY <1>3, <2>1, <2>2 DEF Sound, RequestOK
  <1> QED BY <1>1, <1>2, <1>3

\* What the executor remembers after it started or stopped the probers.
LEMMA MemoryFacts ==
    ASSUME TypeOK, NEW i \in Instances
    PROVE  /\ NoMemory \in Memory /\ \A r : MemoryOK(NoMemory, r)
           /\ StopProbers(i) \in Memory /\ \A r : MemoryOK(StopProbers(i), r)
           /\ StartProbers(i) \in Memory /\ StartProbers(i).spec = memory[i].spec
  <1>1. memory[i] \in Memory
    BY DEF TypeOK
  <1>2. NoMemory \in Memory /\ NoMemory.live = FALSE /\ NoMemory.ready = ""
    BY DEF NoMemory, Memory, Healths
  <1>3. StopProbers(i) \in Memory /\ StopProbers(i).live = FALSE /\ StopProbers(i).ready = ""
    <2>1. memory[i].spec \in BOOLEAN
      BY <1>1 DEF Memory
    <2> QED BY <1>2, <2>1 DEF StopProbers, Memory
  <1>4. StartProbers(i) \in Memory /\ StartProbers(i).spec = memory[i].spec
    <2> DEFINE y == IF "readiness" \in Probes THEN "UNKNOWN" ELSE ""
               v == "liveness" \in Probes
    <2>1. y \in Healths /\ v \in BOOLEAN
      BY DEF Healths
    <2>2. Probing(memory[i]) = [memory[i] EXCEPT !.probing = TRUE, !.ready = y, !.live = v]
      BY Zenon DEF Probing
    <2> HIDE DEF y, v
    <2>3. Probing(memory[i]) \in Memory /\ Probing(memory[i]).spec = memory[i].spec
      BY <1>1, <2>1, <2>2 DEF Memory
    <2> QED BY <1>1, <2>3 DEF StartProbers
  <1> QED BY <1>2, <1>3, <1>4 DEF MemoryOK

\* A non-empty set of numbers has a least one.
LEMMA MinFacts ==
    ASSUME NEW S \in SUBSET Nat, S # {}
    PROVE  Min(S) \in S
  <1> DEFINE R == OpToRel(<, Nat)
  <1>1. PICK x \in S : \A y \in S : ~(<<y, x>> \in R)
    BY WFMin, NatLessThanWellFounded
  <1>2. R = {ss \in Nat \X Nat : ss[1] < ss[2]}
    BY DEF OpToRel
  <1> HIDE DEF R
  <1>3. ASSUME NEW y \in S PROVE x <= y
    <2>1. <<y, x>> \in Nat \X Nat /\ <<y, x>>[1] = y /\ <<y, x>>[2] = x
      OBVIOUS
    <2> QED BY <1>1, <1>2, <2>1
  <1> QED BY <1>3 DEF Min

\* The port allocator hands out ports of its range, to instances.
LEMMA PortFacts ==
    ASSUME TypeOK, NEW n \in Nodes
    PROVE  /\ PortFor(n) \in PortRange \cup {0}
           /\ Synced(n) \in [PortRange -> Instances \cup {0}]
           /\ \A i \in Instances, p \in PortRange \cup {0} :
                 /\ Allocate(allocated[n], p, i) \in [PortRange -> Instances \cup {0}]
                 /\ Release(allocated[n], i) \in [PortRange -> Instances \cup {0}]
  <1>1. allocated[n] \in [PortRange -> Instances \cup {0}]
    BY DEF TypeOK
  <1>2. PortFor(n) \in PortRange \cup {0}
    <2>1. CASE FreePorts(n) # {}
      <3>1. FreePorts(n) \subseteq Nat /\ FreePorts(n) \subseteq PortRange
        BY InstanceAssumption DEF FreePorts
      <3>2. Min(FreePorts(n)) \in FreePorts(n)
        BY <2>1, <3>1, MinFacts
      <3> QED BY <2>1, <3>1, <3>2 DEF PortFor
    <2> QED BY <2>1 DEF PortFor
  <1>3. Synced(n) \in [PortRange -> Instances \cup {0}]
    BY DEF Synced
  <1> QED BY <1>1, <1>2, <1>3 DEF Allocate, Release

\* The loop's steps that only send, list or give up: no container, port or
\* prober changes.
LEMMA ListsKeep ==
    ASSUME InstanceInv, NEW n \in Nodes,
           \/ SendReport(n) \/ Poll(n) \/ MonitorList(n) \/ MonitorDone(n) \/ ListFails(n)
           \/ \E c \in agents[n].todo : SendClaim(n, c)
    PROVE  InstanceInv' /\ UNCHANGED insts
  <1> DEFINE g == agents[n]
  <1>0. /\ UNCHANGED <<insts, issued, dep, loop, nodes, memory, allocated, containers, deploys>>
        /\ faults' \in 0..MaxFaults /\ g \in Agent /\ AgentOK(g, insts)
    BY StateFacts DEF SendReport, Poll, MonitorList, MonitorDone, ListFails, SendClaim, cpVars,
                      bounds
  <1>1. SUFFICES ASSUME NEW a \in Agent, AgentOK(a, insts), agents' = [agents EXCEPT ![n] = a],
                        \A r \in reqs' : RequestOK(r)
                 PROVE  InstanceInv'
    <2>1. /\ \E a \in Agent : AgentOK(a, insts) /\ agents' = [agents EXCEPT ![n] = a]
          /\ \A r \in reqs' : RequestOK(r)
      <3>1. CASE SendReport(n)
        <4>1. Sound(g.out) /\ g.out # <<>>
          BY <1>0, <3>1 DEF SendReport, AgentOK
        <4>2. RequestOK(Head(g.out)) /\ Sound(Tail(g.out))
          BY <4>1, SoundFacts
        <4> DEFINE a == [g EXCEPT !.out = Tail(g.out)]
        <4>3. a \in Agent /\ AgentOK(a, insts)
          BY <1>0, <4>2 DEF Agent, AgentOK, Sound
        <4> QED BY <3>1, <4>2, <4>3, StateFacts DEF SendReport
      <3>2. CASE Poll(n)
        <4> DEFINE t == {c \in Copies(n) : \/ c.status = "ASSIGNED"
                                           \/ c.status = "UNKNOWN" /\ c.exec = 0}
                   a == [g EXCEPT !.pc = "claim", !.todo = t]
        <4>1. t \subseteq Copy
          BY StateFacts DEF Copies, Copy, Instance
        <4> HIDE DEF t
        <4>2. a \in Agent /\ AgentOK(a, insts)
          BY <1>0, <4>1 DEF Agent, AgentOK
        <4>3. agents' = [agents EXCEPT ![n] = a]
          BY <3>2, StateFacts DEF Poll, t
        <4> QED BY <3>2, <4>2, <4>3, StateFacts DEF Poll
      <3>3. CASE MonitorList(n)
        <4> DEFINE t == {c \in Copies(n) : c.exec # 0}
                   a == [g EXCEPT !.pc = "inspect", !.cur = 0, !.exec = 0, !.todo = t]
        <4>1. t \subseteq Copy /\ \A c \in t : c.exec # 0 /\ insts[c.id].exec # 0
          BY StateFacts DEF Copies, Copy, Instance
        <4> HIDE DEF t
        <4>2. a \in Agent /\ AgentOK(a, insts)
          BY <1>0, <4>1 DEF Agent, AgentOK
        <4>3. agents' = [agents EXCEPT ![n] = a]
          BY <3>3, StateFacts DEF MonitorList, t
        <4> QED BY <3>3, <4>2, <4>3, StateFacts DEF MonitorList
      <3>4. CASE MonitorDone(n) \/ ListFails(n)
        <4>1. PICK q \in {"claim", "poll"} : agents' = [agents EXCEPT ![n].pc = q]
          BY <3>4 DEF MonitorDone, ListFails, Enter
        <4> DEFINE a == [g EXCEPT !.pc = q]
        <4>2. a \in Agent /\ AgentOK(a, insts)
          BY <1>0 DEF Agent, AgentOK
        <4> QED BY <3>4, <4>1, <4>2, StateFacts DEF MonitorDone, ListFails
      <3>5. ASSUME NEW c \in g.todo, SendClaim(n, c)
            PROVE  /\ \E a \in Agent : AgentOK(a, insts) /\ agents' = [agents EXCEPT ![n] = a]
                   /\ \A r \in reqs' : RequestOK(r)
        <4> DEFINE a == [g EXCEPT !.todo = g.todo \ {c}]
                   r == [kind |-> "claim", from |-> "loop", node |-> n, id |-> c.id]
        <4>1. a \in Agent /\ AgentOK(a, insts)
          BY <1>0 DEF Agent, AgentOK
        <4>2. RequestOK(r)
          BY <1>0, <3>5 DEF Agent, Copy, Claim, RequestOK
        <4> HIDE DEF r
        <4>3. \A q \in reqs' : RequestOK(q)
          BY <3>5, <4>2, StateFacts DEF SendClaim, r
        <4> QED BY <3>5, <4>1, <4>3 DEF SendClaim
      <3> QED BY <3>1, <3>2, <3>3, <3>4, <3>5
    <2> QED BY <1>0, <1>1, <2>1
  <1>2. /\ nodes' \in [Nodes -> NR!Node] /\ memory' \in [Instances -> Memory]
        /\ allocated' \in [Nodes -> [PortRange -> Instances \cup {0}]]
        /\ containers' \in [Instances -> Container] /\ deploys' \in 0..MaxDeploys
        /\ \A i \in Instances : MemoryOK(memory'[i], insts[i])
    BY <1>0, StateFacts
  <1> QED BY <1>0, <1>1, <1>2, OneAgent

\* A claimed instance is started, or fails to, and its probers are started.
LEMMA StartsKeep ==
    ASSUME InstanceInv, NEW n \in Nodes,
           StartContainer(n) \/ StartFails(n) \/ ProbersAfterStart(n)
    PROVE  InstanceInv' /\ UNCHANGED insts
  <1> DEFINE g == agents[n]
             i == g.cur
  <1>0. /\ UNCHANGED <<insts, issued, dep, loop, nodes, reqs, deploys>>
        /\ g \in Agent /\ AgentOK(g, insts) /\ g.pc \in {"start", "probers"}
        /\ i \in Instances /\ g.exec \in Nat \ {0} /\ insts[i].exec # 0
        /\ memory[i] \in Memory
    BY StateFacts DEF StartContainer, StartFails, ProbersAfterStart, AgentAt, AgentOK, Agent,
                      cpVars, bounds
  <1>1. SUFFICES ASSUME NEW a \in Agent, AgentOK(a, insts), agents' = [agents EXCEPT ![n] = a],
                        NEW m \in Memory, memory' = [memory EXCEPT ![i] = m],
                        allocated' \in [Nodes -> [PortRange -> Instances \cup {0}]],
                        containers' \in [Instances -> Container], faults' \in 0..MaxFaults
                 PROVE  InstanceInv'
    <2>0. ASSUME NEW out, Sound(out), NEW q \in {"claim", "probers"}
          PROVE  LET a == [g EXCEPT !.pc = q, !.out = out] IN a \in Agent /\ AgentOK(a, insts)
      BY <1>0, <2>0 DEF Agent, AgentOK, Sound
    <2>1. CASE StartContainer(n)
      <3> DEFINE p == PortFor(n)
                 out == <<LoopReport(n, i, g.exec, "RUNNING", "UNKNOWN", p)>>
      <3>1. p \in PortRange \cup {0}
            /\ Allocate(allocated[n], p, i) \in [PortRange -> Instances \cup {0}]
        BY <1>0, PortFacts DEF InstanceInv
      <3>2. Sound(out)
        BY <1>0, <3>1, LoopReportFacts DEF Healths
      <3> HIDE DEF p, out
      <3>3. [memory[i] EXCEPT !.spec = TRUE] \in Memory
        BY <1>0 DEF Memory
      <3>4. [state |-> "running", node |-> n, port |-> p] \in Container
        BY <3>1 DEF Container
      <3>5. /\ containers' = [containers EXCEPT
                                ![i] = [state |-> "running", node |-> n, port |-> p]]
            /\ allocated' = [allocated EXCEPT ![n] = Allocate(allocated[n], p, i)]
            /\ memory' = [memory EXCEPT ![i] = [memory[i] EXCEPT !.spec = TRUE]]
            /\ faults' = faults
        BY <2>1 DEF StartContainer, p, bounds
      <3>6. agents' = [agents EXCEPT ![n] = [g EXCEPT !.pc = "probers", !.out = out]]
        BY <2>1, StateFacts DEF StartContainer, p, out
      <3>7. /\ allocated' \in [Nodes -> [PortRange -> Instances \cup {0}]]
            /\ containers' \in [Instances -> Container] /\ faults' \in 0..MaxFaults
        BY <1>0, <3>1, <3>4, <3>5, StateFacts
      <3>8. LET a == [g EXCEPT !.pc = "probers", !.out = out] IN a \in Agent /\ AgentOK(a, insts)
        BY <2>0, <3>2
      <3> QED BY <1>0, <1>1, <3>3, <3>5, <3>6, <3>7, <3>8
    <2>2. CASE StartFails(n)
      <3> DEFINE out == <<LoopReport(n, i, g.exec, "CRASHED", "UNKNOWN", 0)>>
                 c == [state |-> "created", node |-> n, port |-> 0]
                 m == [NoMemory EXCEPT !.spec = memory[i].spec]
      <3>1. Release(allocated[n], i) \in [PortRange -> Instances \cup {0}]
        BY <1>0, PortFacts DEF InstanceInv
      <3>2. Sound(out)
        BY <1>0, LoopReportFacts DEF Healths, Terminal
      <3>3. m \in Memory
        BY <1>0, MemoryFacts DEF InstanceInv, StopProbers
      <3>4. c \in Container
        BY DEF Container
      <3>5. /\ containers' \in {containers, [containers EXCEPT ![i] = c]}
            /\ allocated' = [allocated EXCEPT ![n] = Release(allocated[n], i)]
            /\ memory' = [memory EXCEPT ![i] = m] /\ faults' \in 0..MaxFaults
        BY <2>2, StateFacts DEF StartFails
      <3> HIDE DEF c, m, out
      <3>6. agents' = [agents EXCEPT ![n] = [g EXCEPT !.pc = "claim", !.out = out]]
        BY <2>2, StateFacts DEF StartFails, out
      <3>7. /\ allocated' \in [Nodes -> [PortRange -> Instances \cup {0}]]
            /\ containers' \in [Instances -> Container]
        BY <1>0, <3>1, <3>4, <3>5, StateFacts
      <3>8. LET a == [g EXCEPT !.pc = "claim", !.out = out] IN a \in Agent /\ AgentOK(a, insts)
        BY <2>0, <3>2
      <3> QED BY <1>0, <1>1, <3>3, <3>5, <3>6, <3>7, <3>8
    <2>3. CASE ProbersAfterStart(n)
      <3> DEFINE out == HealthyReport(n, i, g.exec, "")
      <3>1. Sound(out)
        BY <1>0, LoopReportFacts, SoundFacts DEF HealthyReport, Healths
      <3> HIDE DEF out
      <3>2. /\ memory' = [memory EXCEPT ![i] = StartProbers(i)] /\ faults' = faults
            /\ allocated' = allocated /\ containers' = containers
            /\ StartProbers(i) \in Memory
        BY <1>0, <2>3, MemoryFacts DEF ProbersAfterStart, bounds, InstanceInv
      <3>3. agents' = [agents EXCEPT ![n] = [g EXCEPT !.pc = "claim", !.out = out]]
        BY <2>3, StateFacts DEF ProbersAfterStart, out
      <3>4. LET a == [g EXCEPT !.pc = "claim", !.out = out] IN a \in Agent /\ AgentOK(a, insts)
        BY <2>0, <3>1
      <3> QED BY <1>0, <1>1, <3>2, <3>3, <3>4, StateFacts
    <2> QED BY <1>0, <2>1, <2>2, <2>3
  <1>2. /\ nodes' \in [Nodes -> NR!Node] /\ memory' \in [Instances -> Memory]
        /\ deploys' \in 0..MaxDeploys /\ \A r \in reqs' : RequestOK(r)
        /\ \A j \in Instances : MemoryOK(memory'[j], insts[j])
    BY <1>0, <1>1, StateFacts DEF MemoryOK
  <1> QED BY <1>0, <1>1, <1>2, OneAgent

\* monitorActive looks at one copy.
LEMMA InspectKeeps ==
    ASSUME InstanceInv, NEW n \in Nodes, NEW c \in agents[n].todo, InspectStep(n, c)
    PROVE  InstanceInv' /\ UNCHANGED insts
  <1> DEFINE g == agents[n]
             i == c.id
             a(out) == [g EXCEPT !.todo = g.todo \ {c}, !.out = out]
  <1>0. /\ UNCHANGED <<insts, issued, dep, loop, nodes, reqs, deploys>>
        /\ g \in Agent /\ AgentOK(g, insts) /\ g.pc = "inspect"
        /\ i \in Instances /\ c.exec \in Nat \ {0} /\ insts[i].exec # 0
        /\ c.health \in Healths /\ memory[i] \in Memory /\ containers[i] \in Container
        /\ faults' \in 0..MaxFaults
    <2>1. /\ UNCHANGED <<insts, issued, dep, loop, nodes, reqs, deploys>>
          /\ g.pc = "inspect" /\ faults' \in 0..MaxFaults
      BY StateFacts
         DEF InspectStep, InspectTerminal, InspectMissing, InspectStopping, InspectRunning,
             InspectExited, InspectCreated, Inspect, AgentAt, NotFound, cpVars, bounds
    <2>2. g \in Agent /\ AgentOK(g, insts)
      BY StateFacts
    <2>3. c \in Copy
      BY <2>2 DEF Agent
    <2>4. c.id \in Instances /\ c.exec \in Nat /\ c.health \in Healths
      BY <2>3 DEF Copy
    <2> QED BY <2>1, <2>2, <2>4, StateFacts DEF AgentOK
  <1>1. ASSUME NEW out, Sound(out) PROVE a(out) \in Agent /\ AgentOK(a(out), insts)
    BY <1>0, <1>1 DEF Agent, AgentOK, Sound
  <1>2. ASSUME NEW s \in {"RUNNING"} \cup Terminal, NEW h \in Healths
        PROVE  Sound(<<StateReport(n, c, s, h)>>)
    BY <1>0, LoopReportFacts DEF StateReport
  <1>3. NoContainer \in Container /\ [containers[i] EXCEPT !.state = "exited"] \in Container
    BY <1>0 DEF NoContainer, Container
  <1>4. ASSUME NEW out, Sound(out), Inspected(n, c, out), NEW m \in Memory,
               memory' = memory \/ memory' = [memory EXCEPT ![i] = m],
               \/ allocated' = allocated
               \/ allocated' = [allocated EXCEPT ![n] = Release(allocated[n], i)],
               NEW k \in Container,
               containers' = containers \/ containers' = [containers EXCEPT ![i] = k]
        PROVE  InstanceInv' /\ UNCHANGED insts
    <2>1. agents' = [agents EXCEPT ![n] = a(out)]
      BY <1>4, StateFacts DEF Inspected
    <2>2. a(out) \in Agent /\ AgentOK(a(out), insts)
      BY <1>1, <1>4
    <2>3. Release(allocated[n], i) \in [PortRange -> Instances \cup {0}]
      BY <1>0, PortFacts DEF InstanceInv
    <2>4. memory' \in [Instances -> Memory]
          /\ \A j \in Instances : MemoryOK(memory'[j], insts[j])
      <3>1. MemoryOK(m, insts[i])
        BY <1>0 DEF MemoryOK
      <3>2. CASE memory' = [memory EXCEPT ![i] = m]
        BY <1>0, <3>1, <3>2, StateFacts
      <3> QED BY <1>4, <3>2, StateFacts
    <2>5. allocated' \in [Nodes -> [PortRange -> Instances \cup {0}]]
      BY <1>0, <1>4, <2>3, StateFacts
    <2>6. containers' \in [Instances -> Container]
      BY <1>0, <1>4, StateFacts
    <2>7. /\ nodes' \in [Nodes -> NR!Node] /\ deploys' \in 0..MaxDeploys
          /\ \A r \in reqs' : RequestOK(r)
      BY <1>0, StateFacts
    <2> HIDE DEF a
    <2> QED BY <1>0, <2>1, <2>2, <2>4, <2>5, <2>6, <2>7, OneAgent
  <1>5. StopProbers(i) \in Memory /\ StartProbers(i) \in Memory
    BY <1>0, MemoryFacts DEF InstanceInv
  <1> HIDE DEF a, g
  <1>6. CASE InspectTerminal(n, c)
    <2>1. PICK k \in Container :
             containers' = containers \/ containers' = [containers EXCEPT ![i] = k]
      BY <1>0, <1>3, <1>6 DEF InspectTerminal
    <2> QED BY <1>4, <1>5, <1>6, <2>1, SoundFacts DEF InspectTerminal
  <1>7. CASE InspectMissing(n, c)
    <2> DEFINE out == <<StateReport(n, c, IF c.status = "STOPPING" THEN "STOPPED"
                                          ELSE "CRASHED", "UNKNOWN")>>
    <2>1. Sound(out)
      BY <1>2 DEF Terminal, Healths
    <2> HIDE DEF out
    <2> QED BY <1>3, <1>4, <1>5, <1>7, <2>1 DEF InspectMissing, out
  <1>8. CASE InspectCreated(n, c)
    BY <1>3, <1>4, <1>5, <1>8, SoundFacts DEF InspectCreated, bounds
  <1>9. CASE InspectStopping(n, c)
    <2> DEFINE out == <<StateReport(n, c, "STOPPED",
                           IF containers[i].state = "running" THEN "UNKNOWN" ELSE "")>>
    <2>1. Sound(out)
      BY <1>2 DEF Terminal, Healths
    <2> HIDE DEF out
    <2> QED BY <1>3, <1>4, <1>5, <1>9, <2>1 DEF InspectStopping, out
  <1>10. CASE InspectRunning(n, c)
    <2> DEFINE one == <<StateReport(n, c, "RUNNING", c.health)>>
               two == HealthyReport(n, i, c.exec, c.health)
    <2>1. Sound(one) /\ Sound(two)
      BY <1>0, <1>2, LoopReportFacts, SoundFacts DEF HealthyReport, Healths
    <2>2. Sound(two \o one)
      BY <2>1, SoundFacts
    <2> HIDE DEF one, two
    <2> QED BY <1>3, <1>4, <1>5, <1>10, <2>1, <2>2, SoundFacts DEF InspectRunning, one, two
  <1>11. CASE InspectExited(n, c)
    <2> DEFINE out == <<StateReport(n, c, "CRASHED", "")>>
    <2>1. Sound(out)
      BY <1>2 DEF Terminal, Healths
    <2> HIDE DEF out
    <2> QED BY <1>3, <1>4, <1>5, <1>11, <2>1 DEF InspectExited, out
  <1> QED BY <1>6, <1>7, <1>8, <1>9, <1>10, <1>11 DEF InspectStep

\* An agent's process starts or dies.
LEMMA ProcessKeeps ==
    ASSUME InstanceInv, NEW n \in Nodes, AgentStarts(n) \/ AgentCrashes(n)
    PROVE  InstanceInv' /\ UNCHANGED insts
  <1>1. CASE AgentStarts(n)
    <2> DEFINE a == [agents[n] EXCEPT !.pc = "poll"]
    <2>1. /\ UNCHANGED <<insts, issued, dep, loop, memory, containers, reqs, deploys>>
          /\ agents' = [agents EXCEPT ![n] = a] /\ faults' \in 0..MaxFaults
          /\ nodes' = [nodes EXCEPT ![n] = NR!Fresh]
          /\ \/ allocated' = [allocated EXCEPT ![n] = Synced(n)]
             \/ allocated' = [allocated EXCEPT ![n] = [p \in PortRange |-> 0]]
      BY <1>1, StateFacts DEF AgentStarts, NR!Register
    <2>2. a \in Agent /\ AgentOK(a, insts)
      <3>1. agents[n] \in Agent /\ AgentOK(agents[n], insts)
        BY StateFacts
      <3> QED BY <3>1 DEF Agent, AgentOK
    <2> HIDE DEF a
    <2>3. allocated' \in [Nodes -> [PortRange -> Instances \cup {0}]]
      <3>1. Synced(n) \in [PortRange -> Instances \cup {0}]
        BY PortFacts DEF InstanceInv
      <3> QED BY <2>1, <3>1, StateFacts
    <2>4. nodes' \in [Nodes -> NR!Node]
      <3>1. NR!Fresh \in NR!Node
        BY DEF NR!Fresh, NR!Node
      <3> QED BY <2>1, <3>1, StateFacts
    <2>5. /\ memory' \in [Instances -> Memory] /\ containers' \in [Instances -> Container]
          /\ deploys' \in 0..MaxDeploys /\ \A r \in reqs' : RequestOK(r)
          /\ \A i \in Instances : MemoryOK(memory'[i], insts[i])
      BY <2>1, StateFacts
    <2> QED BY <2>1, <2>2, <2>3, <2>4, <2>5, OneAgent
  <1>2. CASE AgentCrashes(n)
    <2>1. /\ UNCHANGED <<insts, issued, dep, loop, nodes, allocated, containers, deploys>>
          /\ agents' = [agents EXCEPT ![n] = DownAgent] /\ faults' \in 0..MaxFaults
          /\ memory' = [i \in Instances |-> IF insts[i].node = n THEN NoMemory ELSE memory[i]]
      BY <1>2, StateFacts DEF AgentCrashes, cpVars
    <2>2. DownAgent \in Agent /\ AgentOK(DownAgent, insts)
      BY SoundFacts DEF DownAgent, Agent, AgentOK
    <2>3. /\ memory' \in [Instances -> Memory]
          /\ \A i \in Instances : MemoryOK(memory'[i], insts[i])
      <3>1. NoMemory \in Memory /\ \A r : MemoryOK(NoMemory, r)
        BY DEF NoMemory, Memory, Healths, MemoryOK
      <3> QED BY <2>1, <3>1, StateFacts
    <2>4. \A q \in reqs' : RequestOK(q)
      <3>1. PICK lost \in {{}, {r \in reqs : r.node = n}} :
               reqs' = {IF r.node = n THEN [r EXCEPT !.from = "gone"] ELSE r : r \in reqs \ lost}
        BY <1>2 DEF AgentCrashes
      <3>2. SUFFICES ASSUME NEW r \in reqs
                     PROVE  RequestOK(IF r.node = n THEN [r EXCEPT !.from = "gone"] ELSE r)
        BY <3>1
      <3> QED BY RequestFacts
    <2>5. /\ nodes' \in [Nodes -> NR!Node] /\ containers' \in [Instances -> Container]
          /\ allocated' \in [Nodes -> [PortRange -> Instances \cup {0}]]
          /\ deploys' \in 0..MaxDeploys
      BY <2>1, StateFacts
    <2> QED BY <2>1, <2>2, <2>3, <2>4, <2>5, OneAgent
  <1> QED BY <1>1, <1>2

\* A probe reports on the execution that it probes.
LEMMA ProbeReportFacts ==
    ASSUME InstanceInv, NEW i \in Instances, insts[i].exec # 0,
           NEW from \in {"readiness", "liveness"}, NEW s \in {"RUNNING", "CRASHED"},
           NEW h \in Healths
    PROVE  RequestOK(ProbeReport(i, from, s, h))
  <1>1. insts[i] \in Instance /\ RecordOK(insts[i])
    BY StateFacts
  <1>2. insts[i].node \in Nodes /\ insts[i].exec \in Nat
    BY <1>1 DEF RecordOK, Instance
  <1> QED BY <1>2 DEF ProbeReport, RequestOK, Report, ReportOK, Reportable, Terminal

\* Containers exit, and probers see it.
LEMMA ProbesKeep ==
    ASSUME InstanceInv, NEW i \in Instances,
           \/ ContainerExits(i) \/ LivenessFails(i)
           \/ \E h \in {"HEALTHY", "UNHEALTHY"} : ReadinessChanges(i, h)
    PROVE  InstanceInv' /\ UNCHANGED insts
  <1>0. /\ UNCHANGED <<insts, issued, dep, nodes, loop, agents, allocated, deploys>>
        /\ faults' \in 0..MaxFaults /\ memory[i] \in Memory /\ MemoryOK(memory[i], insts[i])
    BY StateFacts DEF ContainerExits, LivenessFails, ReadinessChanges, cpVars
  <1>1. /\ nodes' \in [Nodes -> NR!Node] /\ agents' \in [Nodes -> Agent]
        /\ allocated' \in [Nodes -> [PortRange -> Instances \cup {0}]]
        /\ deploys' \in 0..MaxDeploys
        /\ \A n \in Nodes : AgentOK(agents'[n], insts)
    BY <1>0, StateFacts
  <1>2. CASE ContainerExits(i)
    <2>1. /\ UNCHANGED <<memory, reqs>>
          /\ containers' = [containers EXCEPT ![i] = [containers[i] EXCEPT !.state = "exited"]]
      BY <1>2 DEF ContainerExits
    <2>2. [containers[i] EXCEPT !.state = "exited"] \in Container
      BY StateFacts DEF Container
    <2>3. /\ containers' \in [Instances -> Container] /\ memory' \in [Instances -> Memory]
          /\ \A r \in reqs' : RequestOK(r)
          /\ \A j \in Instances : MemoryOK(memory'[j], insts[j])
      BY <2>1, <2>2, StateFacts
    <2> QED BY <1>0, <1>1, <2>3, AgentsOnly
  <1>3. ASSUME insts[i].exec # 0, NEW m \in Memory, memory' = [memory EXCEPT ![i] = m],
               NEW q, RequestOK(q), reqs' = reqs \cup {q}, UNCHANGED containers
        PROVE  InstanceInv'
    <2>1. MemoryOK(m, insts[i])
      BY <1>3 DEF MemoryOK
    <2>2. /\ containers' \in [Instances -> Container] /\ memory' \in [Instances -> Memory]
          /\ \A r \in reqs' : RequestOK(r)
          /\ \A j \in Instances : MemoryOK(memory'[j], insts[j])
      BY <1>3, <2>1, StateFacts
    <2> QED BY <1>0, <1>1, <2>2, AgentsOnly
  <1>4. CASE LivenessFails(i)
    <2>1. insts[i].exec # 0
      BY <1>0, <1>4 DEF LivenessFails, MemoryOK
    <2>2. RequestOK(ProbeReport(i, "liveness", "CRASHED", "UNKNOWN"))
      BY <2>1, ProbeReportFacts DEF Healths
    <2>3. StopProbers(i) \in Memory
      BY MemoryFacts DEF InstanceInv
    <2> QED BY <1>0, <1>3, <1>4, <2>1, <2>2, <2>3 DEF LivenessFails
  <1>5. ASSUME NEW h \in {"HEALTHY", "UNHEALTHY"}, ReadinessChanges(i, h)
        PROVE  InstanceInv'
    <2>1. insts[i].exec # 0
      BY <1>0, <1>5 DEF ReadinessChanges, MemoryOK
    <2>2. RequestOK(ProbeReport(i, "readiness", "RUNNING", h))
      BY <2>1, ProbeReportFacts DEF Healths
    <2>3. [memory[i] EXCEPT !.ready = h] \in Memory
      BY <1>0 DEF Memory, Healths
    <2> QED BY <1>0, <1>3, <1>5, <2>1, <2>2, <2>3 DEF ReadinessChanges
  <1> QED BY <1>0, <1>2, <1>4, <1>5

\* Heartbeats and the offline detector.
LEMMA NodesKeep ==
    ASSUME InstanceInv,
           \/ DetectOffline
           \/ \E n \in Nodes : HeartbeatArrives(n) \/ HeartbeatMissed(n)
    PROVE  InstanceInv' /\ UNCHANGED insts
  <1>1. /\ UNCHANGED <<insts, issued, dep, loop, agents, memory, allocated, containers, reqs,
                       deploys>>
        /\ faults' \in 0..MaxFaults
    BY StateFacts DEF DetectOffline, HeartbeatArrives, HeartbeatMissed, NodesOnly, agentVars
  <1>2. nodes' \in [Nodes -> NR!Node]
    <2>1. nodes \in [Nodes -> NR!Node] /\ NR!Fresh \in NR!Node
      BY StateFacts DEF NR!Fresh, NR!Node
    <2>2. CASE DetectOffline
      <3>1. nodes' = [n \in Nodes |->
                        IF NR!GoesOffline(n)
                        THEN [nodes[n] EXCEPT !.status = "offline", !.since = "recent"]
                        ELSE nodes[n]]
        BY <2>2 DEF DetectOffline, NR!MarkOfflineNodes
      <3>2. \A n \in Nodes :
               [nodes[n] EXCEPT !.status = "offline", !.since = "recent"] \in NR!Node
        BY <2>1 DEF NR!Node
      <3> QED BY <2>1, <3>1, <3>2
    <2>3. CASE \E n \in Nodes : HeartbeatArrives(n)
      BY <2>1, <2>3 DEF HeartbeatArrives, NR!Heartbeat
    <2>4. CASE \E n \in Nodes : HeartbeatMissed(n)
      <3>1. PICK n \in Nodes : nodes' = [nodes EXCEPT ![n] = [nodes[n] EXCEPT !.stale = TRUE]]
        BY <2>4 DEF HeartbeatMissed, NR!HeartbeatStale
      <3>2. [nodes[n] EXCEPT !.stale = TRUE] \in NR!Node
        BY <2>1 DEF NR!Node
      <3> QED BY <2>1, <3>1, <3>2
    <2> QED BY <2>2, <2>3, <2>4
  <1>3. /\ agents' \in [Nodes -> Agent] /\ memory' \in [Instances -> Memory]
        /\ allocated' \in [Nodes -> [PortRange -> Instances \cup {0}]]
        /\ containers' \in [Instances -> Container] /\ deploys' \in 0..MaxDeploys
        /\ \A n \in Nodes : AgentOK(agents'[n], insts)
        /\ \A r \in reqs' : RequestOK(r)
        /\ \A i \in Instances : MemoryOK(memory'[i], insts[i])
    BY <1>1, StateFacts
  <1> QED BY <1>1, <1>2, <1>3, AgentsOnly

-----------------------------------------------------------------------------
(* The theorems.                                                           *)

\* The invariant holds before anything is created, registered or started.
LEMMA InitHolds ==
    ASSUME Init PROVE InstanceInv
  <1>1. NoInstance \in Instance /\ RecordOK(NoInstance) /\ NoInstance.exec = 0
        /\ NoInstance.status = "none"
    BY DEF NoInstance, Instance, RecordOK, Statuses, Healths, UnknownTimes, DrainTimes,
           StartTimes, Draining
  <1>2. NoMemory \in Memory /\ \A r : MemoryOK(NoMemory, r)
    BY DEF NoMemory, Memory, Healths, MemoryOK
  <1>3. DownAgent \in Agent /\ AgentOK(DownAgent, insts)
    BY SoundFacts DEF DownAgent, Agent, AgentOK
  <1>4. NoContainer \in Container
    BY DEF NoContainer, Container
  <1>5. TypeOK
    <2>1. insts \in [Instances -> Instance] /\ issued \in [Instances -> Nat]
      BY <1>1 DEF Init
    <2>2. dep \in [crashes: Nat, degraded: BOOLEAN, active: BOOLEAN]
      BY DEF Init
    <2>3. nodes \in [Nodes -> NR!Node]
      BY DEF Init, NR!NodeInit, NR!Node
    <2>4. loop \in Loop
      BY DEF Init, Loop
    <2>5. /\ agents \in [Nodes -> Agent] /\ memory \in [Instances -> Memory]
          /\ allocated \in [Nodes -> [PortRange -> Instances \cup {0}]]
          /\ containers \in [Instances -> Container]
          /\ reqs = {} /\ faults \in 0..MaxFaults /\ deploys \in 0..MaxDeploys
      BY <1>2, <1>3, <1>4, InstanceSystemAssumption DEF Init
    <2> QED BY <2>1, <2>2, <2>3, <2>4, <2>5 DEF TypeOK, NR!NodeTypeOK
  <1>6. RecordsOK
    BY <1>1 DEF Init, RecordsOK
  <1>7. LoopOK
    BY DEF Init, LoopOK
  <1>8. AgentsOK
    BY <1>2, <1>3 DEF Init, AgentsOK
  <1>9. NeverOverProvisions
    <2>1. InService = {}
      BY <1>1 DEF Init, InService, ViableInstances, Viable
    <2> QED BY <2>1, FS_EmptySet, InstanceSystemAssumption DEF NeverOverProvisions
  <1> QED BY <1>5, <1>6, <1>7, <1>8, <1>9 DEF InstanceInv

\* Every step keeps the invariant, and creates records or lets them evolve.
LEMMA NextKeeps ==
    ASSUME InstanceInv, [Next]_vars PROVE InstanceInv' /\ RecordSteps
  <1>1. CASE Deploy
    BY <1>1, DeployKeeps
  <1>2. CASE LoopStep
    BY <1>2, ListingKeeps, ScaleKeeps, DoKeeps DEF LoopStep
  <1>3. CASE DetectOffline
    BY <1>3, NodesKeep, NoRecordSteps
  <1>4. ASSUME NEW r \in reqs, HandlerStep(r) \/ RequestLost(r) \/ RequestDelayed(r)
        PROVE  InstanceInv' /\ RecordSteps
    BY <1>4, ClaimKeeps, ReportKeeps, RequestsKeep DEF HandlerStep
  <1>5. ASSUME NEW n \in Nodes,
               \/ AgentStarts(n) \/ AgentCrashes(n) \/ AgentStep(n)
               \/ ListFails(n) \/ HeartbeatArrives(n) \/ HeartbeatMissed(n)
        PROVE  InstanceInv' /\ UNCHANGED insts
    <2>1. CASE AgentStep(n)
      BY <2>1, ListsKeep, StartsKeep, InspectKeeps DEF AgentStep
    <2> QED BY <1>5, <2>1, ListsKeep, ProcessKeeps, NodesKeep
  <1>6. ASSUME NEW i \in Instances,
               \/ ContainerExits(i) \/ LivenessFails(i)
               \/ \E h \in {"HEALTHY", "UNHEALTHY"} : ReadinessChanges(i, h)
        PROVE  InstanceInv' /\ UNCHANGED insts
    BY <1>6, ProbesKeep
  <1>7. ASSUME NEW i \in Instances,
               UnknownTimeoutPasses(i) \/ DrainTimeoutPasses(i) \/ RecoveryWindowPasses(i)
        PROVE  InstanceInv' /\ RecordSteps
    BY <1>7, TimeKeeps
  <1>8. CASE UNCHANGED vars
    <2>1. InstanceInv'
      BY <1>8 DEF vars, InstanceInv, TypeOK, NR!NodeTypeOK, RecordsOK, LoopOK, AgentsOK,
                  NeverOverProvisions, InService, ViableInstances
    <2> QED BY <1>8, <2>1, NoRecordSteps DEF vars
  <1> QED
    BY <1>1, <1>2, <1>3, <1>4, <1>5, <1>6, <1>7, <1>8, NoRecordSteps DEF Next

\* The inductive invariant of the system: instances are placed, claimed and run
\* in this order, decisions and copies stay good enough to be carried out, and
\* the instances in service are no more than the replicas unless degraded.
THEOREM Invariant == Spec => []InstanceInv
  <1>1. Init => InstanceInv
    BY InitHolds
  <1>2. InstanceInv /\ [Next]_vars => InstanceInv'
    BY NextKeeps
  <1> QED BY <1>1, <1>2, PTL DEF Spec

\* ClaimedOnce: an instance gets at most one execution in its life, whatever
\* requests are lost, delayed or repeated (Registry.Claim).
THEOREM ClaimedOnceHolds == Spec => []ClaimedOnce
  <1>1. InstanceInv => ClaimedOnce
    BY DEF InstanceInv, RecordsOK, RecordOK, ClaimedOnce
  <1> QED BY <1>1, Invariant, PTL

\* NeverOverProvisions: counting and creating in separate steps never puts
\* more instances in service than there are replicas (Reconcile).
THEOREM OverProvisionsHolds == Spec => []NeverOverProvisions
  <1>1. InstanceInv => NeverOverProvisions
    BY DEF InstanceInv
  <1> QED BY <1>1, Invariant, PTL

\* TerminalFrozen: no stale decision and no late report changes an instance
\* that is over (UpdateState, ReportStatus).
THEOREM FrozenHolds == Spec => TerminalFrozen
  <1>1. ASSUME InstanceInv, [Next]_vars
        PROVE  \A i \in Instances :
                 insts[i].status \in Terminal =>
                    /\ insts'[i].status = insts[i].status
                    /\ insts'[i].exec = insts[i].exec
                    /\ insts'[i].health = insts[i].health
    BY <1>1, NextKeeps DEF RecordSteps, Evolves, IsCreated, Terminal
  <1> QED BY <1>1, Invariant, PTL DEF Spec, TerminalFrozen

\* LossTakesTimeout: an instance that was never claimed crashes only when its
\* claim fails or its unknown timeout has passed (recoverOrphanedInstances).
THEOREM LossHolds == Spec => LossTakesTimeout
  <1>1. ASSUME InstanceInv, [Next]_vars
        PROVE  \A i \in Instances :
         (insts[i].exec = 0 /\ insts[i].status # "CRASHED" /\ insts'[i].status = "CRASHED")
            => \/ insts'[i].exec # 0
               \/ insts[i].unknown = "expired"
    <2>1. Created.status = "PENDING"
      BY DEF Created, NoInstance
    <2> QED BY <1>1, <2>1, NextKeeps DEF RecordSteps, Evolves, IsCreated
  <1> QED BY <1>1, Invariant, PTL DEF Spec, LossTakesTimeout
=============================================================================
