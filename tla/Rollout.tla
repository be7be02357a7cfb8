------------------------------ MODULE Rollout ------------------------------
(***************************************************************************)
(* Rolling updates and rollbacks of one application: RolloutController,    *)
(* the scaling of InstanceReconciler, and the deploy and rollback          *)
(* operations of internal/service/app_service.go, all deployments with the *)
(* RollingUpdate strategy (InstanceSystem has the immediate one).          *)
(*                                                                         *)
(* A tick is several steps, as in the code: the targets are computed from  *)
(* one list of the instances, then each deployment in turn is listed again *)
(* and converged, the active one first, and what is to be retired is       *)
(* marked draining or stopped one by one.  Deploys, rollbacks and whatever *)
(* happens to instances may come between these steps.  The three lists of  *)
(* ComputeTargets and its status writes are one step: what comes between   *)
(* them can change the status that is reported, and show a breaker that    *)
(* opens there to a tick with earlier counts, which then drains nothing.   *)
(*                                                                         *)
(* Scheduler, agent and node are folded into what may happen to an         *)
(* instance: it becomes ready or stops being so, it ends, it is stopped, a *)
(* late report brings it back.  Ids are random in the code, so a new       *)
(* deployment or instance takes any unused one.                            *)
(***************************************************************************)
EXTENDS RolloutTargets

CONSTANTS Instances,                \* numbers: a scale-down sorts by id; as many
                                    \* as there are at a time
          CrashLimit,               \* MaxCrashLoopThreshold
          MaxFaults,                \* bound on what goes wrong with instances
          MaxDeploys                \* bound on deploys and rollbacks

ASSUME RolloutAssumption ==
    /\ Instances \subseteq Nat /\ IsFiniteSet(Instances)
    /\ CrashLimit \in Nat \ {0} /\ MaxFaults \in Nat /\ MaxDeploys \in Nat

VARIABLES insts, deps, active,
          tick,             \* the reconciler's tick: its local variables
          faults, deploys,  \* used of the bounds
          revived           \* history: instances brought back by a late report

vars == <<insts, deps, active, tick, faults, deploys, revived>>

\* "starting" stands for the viable states other than RUNNING and HEALTHY,
\* "stopping" for STOPPING.  STOPPED and CRASHED instances are never looked at
\* again here: their ids become free ("none").
Instance == [dep: Deployments \cup {0},
             phase: {"none", "starting", "ready", "stopping"},
             drain: {"nil", "recent", "elapsed"}]
NoInstance == [dep |-> 0, phase |-> "none", drain |-> "nil"]

RolloutStatuses == {"PENDING", "PROGRESSING", "COMPLETED", "FAILED", "ROLLED_BACK"}
Deployment == [status: {"none", "ACTIVE", "SUPERSEDED"}, rollout: RolloutStatuses,
               crashes: Nat, degraded: BOOLEAN]
NoDeployment == [status |-> "none", rollout |-> "PENDING", crashes |-> 0,
                 degraded |-> FALSE]

\* What the tick found (the active deployment, whether it was degraded) and
\* decided: the targets, the deployments still to be converged, the instances
\* still to be drained or stopped.  History: whether it found a plain rolling
\* update, and whether it found enough instances serving and none failed since.
Tick == [active: Deployments \cup {0}, degraded: BOOLEAN,
         plain: BOOLEAN, enough: BOOLEAN,
         target: [Deployments -> Nat], scale: SUBSET Deployments,
         todo: SUBSET ({"drain", "stop"} \X Instances)]

TypeOK ==
    /\ insts \in [Instances -> Instance]
    /\ deps \in [Deployments -> Deployment]
    /\ active \in Deployments \cup {0}
    /\ tick \in Tick
    /\ faults \in 0..MaxFaults /\ deploys \in 0..MaxDeploys /\ revived \in Nat

Init ==
    /\ insts = [i \in Instances |-> NoInstance]
    /\ deps = [d \in Deployments |-> NoDeployment]
    /\ active = 0
    /\ tick = [active |-> 0, degraded |-> FALSE, plain |-> FALSE,
               enough |-> FALSE, target |-> [d \in Deployments |-> 0],
               scale |-> {}, todo |-> {}]
    /\ faults = 0 /\ deploys = 0 /\ revived = 0

Known == {d \in Deployments : deps[d].status # "none"}
Viable(i) == insts[i].phase \in {"starting", "ready"}
Ready(i) == insts[i].phase = "ready"
Draining(i) == insts[i].drain # "nil"
Of(d) == {i \in Instances : insts[i].dep = d}
ViableOf(d) == {i \in Of(d) : Viable(i)}

\* Not marked for retirement; and of these, those that requests are routed to.
InService == {i \in Instances : Viable(i) /\ ~Draining(i)}
Serving == {i \in Instances : Ready(i) /\ ~Draining(i)}

-----------------------------------------------------------------------------
(* AppService.  DeployApp, UpdateApp and CreateApp end alike.              *)

Supersede(ds, d) ==
    IF d = 0 THEN ds ELSE [ds EXCEPT ![d].status = "SUPERSEDED"]

Deploy(d) ==
    /\ deploys < MaxDeploys /\ deploys' = deploys + 1
    /\ deps[d].status = "none"
    /\ deps' = [Supersede(deps, active) EXCEPT ![d] = [NoDeployment EXCEPT !.status = "ACTIVE"]]
    /\ active' = d
    /\ UNCHANGED <<insts, tick, faults, revived>>

\* Without force the target must be neither degraded nor failed.
RollbackApp(d, force) ==
    /\ deploys < MaxDeploys /\ deploys' = deploys + 1
    /\ d \in Known
    /\ force \/ ~(deps[d].degraded \/ deps[d].rollout = "FAILED")
    /\ deps' = [(IF d = active THEN deps ELSE Supersede(deps, active)) EXCEPT
                  ![d].status = "ACTIVE", ![d].rollout = "PENDING"]
    /\ active' = d
    /\ UNCHANGED <<insts, tick, faults, revived>>

-----------------------------------------------------------------------------
(* RolloutController.computeRollingTarget                                  *)

activeViable == Cardinality(ViableOf(active))
activeReady == Cardinality({i \in Of(active) : Ready(i)})
Old == Known \ {active}
oldViable == Cardinality({i \in Instances : Viable(i) /\ insts[i].dep # active})

OldTarget == oldTargetTotal(active, activeViable, activeReady, oldViable)

\* The old total is handed out in the order of deployment ids.
GivenBefore(d) ==
    Cardinality({i \in Instances : Viable(i) /\ insts[i].dep \in Old /\ insts[i].dep < d})

\* Mutant of Target: the crash-loop breaker is ignored.
TargetThoughDegraded(d) ==
    IF d = active THEN newActiveTarget(active, activeViable, OldTarget)
    ELSE Smaller(Cardinality(ViableOf(d)), NotNegative(OldTarget - GivenBefore(d)))

Target(d) ==
    IF deps[active].degraded THEN Cardinality(ViableOf(d))
    ELSE IF d = active THEN newActiveTarget(active, activeViable, OldTarget)
    ELSE Smaller(Cardinality(ViableOf(d)), NotNegative(OldTarget - GivenBefore(d)))

\* Rollout statuses after the computation.
RolloutAfter(d) ==
    IF deps[active].degraded
    THEN IF d = active THEN "FAILED" ELSE deps[d].rollout
    ELSE IF d = active
    THEN IF deps[d].rollout = "PENDING" THEN "PROGRESSING"
         ELSE IF activeReady = Replicas[d] /\ oldViable = 0 THEN "COMPLETED"
         ELSE deps[d].rollout
    ELSE IF ViableOf(d) = {} /\ deps[d].status # "SUPERSEDED" THEN "ROLLED_BACK"
    ELSE deps[d].rollout

\* At most one older version still has instances.
OneOlderVersion ==
    \A i, j \in Instances :
        (Viable(i) /\ Viable(j) /\ insts[i].dep # active /\ insts[j].dep # active)
            => insts[i].dep = insts[j].dep

\* A plain rolling update: from one version to another, within the surge of the
\* new one, none of whose instances drains.
PlainUpdate ==
    /\ OneOlderVersion /\ \A i \in ViableOf(active) : ~Draining(i)
    /\ Cardinality(InService) <= maxAllowedTotal(active)

Idle == tick.scale = {} /\ tick.todo = {}

ComputeTargets ==
    /\ Idle /\ active # 0
    /\ tick' = [active |-> active, degraded |-> deps[active].degraded,
                plain |-> PlainUpdate,
                enough |-> Cardinality(Serving) >= minAvailable(active),
                target |-> [d \in Deployments |-> IF d \in Known THEN Target(d) ELSE 0],
                scale |-> Known, todo |-> {}]
    /\ deps' = [d \in Deployments |->
                  IF d \in Known THEN [deps[d] EXCEPT !.rollout = RolloutAfter(d)]
                  ELSE deps[d]]
    /\ UNCHANGED <<insts, active, faults, deploys, revived>>

-----------------------------------------------------------------------------
(* InstanceReconciler.Reconcile: converging to the targets                 *)

\* The targets are gone through with the active deployment first and the others
\* by id; while degraded, in the order of the registry's map.
ComesNext(d) ==
    /\ d \in tick.scale
    /\ tick.degraded \/ d = tick.active
       \/ (tick.active \notin tick.scale /\ \A e \in tick.scale : d <= e)

\* The sort order of a scale-down.
StopsBefore(i, j) ==
    IF Draining(i) # Draining(j) THEN Draining(i)
    ELSE IF Ready(i) # Ready(j) THEN ~Ready(i)
    ELSE i > j

Victims(d, surplus) ==
    {i \in ViableOf(d) : Cardinality({j \in ViableOf(d) : StopsBefore(j, i)}) < surplus}

\* A victim is marked first; after DrainTimeout a later tick stops it.
Retire(i) ==
    CASE insts[i].drain = "nil" -> {<<"drain", i>>}
      [] insts[i].drain = "recent" -> {}
      [] insts[i].drain = "elapsed" -> {<<"stop", i>>}

Unused == {i \in Instances : insts[i].phase = "none"}

\* The second List of the tick, for one deployment, the creations, and the
\* choice of what to retire.
Scale(d) ==
    LET missing == tick.target[d] - Cardinality(ViableOf(d)) IN
    /\ tick.todo = {} /\ ComesNext(d)
    /\ \E new \in SUBSET Unused :
          /\ Cardinality(new) = Smaller(NotNegative(missing), Cardinality(Unused))
          /\ insts' = [i \in Instances |->
                IF i \in new THEN [dep |-> d, phase |-> "starting", drain |-> "nil"]
                ELSE insts[i]]
    /\ tick' = [tick EXCEPT !.scale = @ \ {d},
                            !.todo = UNION {Retire(i) : i \in Victims(d, -missing)}]
    /\ UNCHANGED <<deps, active, faults, deploys, revived>>

MarkDraining(x) ==
    IF x.phase # "none" /\ x.drain = "nil" THEN [x EXCEPT !.drain = "recent"] ELSE x

\* UpdateState to STOPPING; an instance that was never claimed becomes STOPPED at
\* once, which Stops adds.
Stopping(x) == IF x.phase = "none" THEN x ELSE [x EXCEPT !.phase = "stopping"]

\* Carrying out one decision, whatever became of the instance since.
Do(op, i) ==
    /\ <<op, i>> \in tick.todo
    /\ tick' = [tick EXCEPT !.todo = @ \ {<<op, i>>}]
    /\ insts' = [insts EXCEPT ![i] = IF op = "drain" THEN MarkDraining(@) ELSE Stopping(@)]
    /\ UNCHANGED <<deps, active, faults, deploys, revived>>

Reconcile ==
    \/ ComputeTargets
    \/ \E d \in Deployments : Scale(d)
    \/ \E op \in {"drain", "stop"}, i \in Instances : Do(op, i)

-----------------------------------------------------------------------------
(* What happens to an instance                                             *)

Fault == faults < MaxFaults /\ faults' = faults + 1
Failure == Fault /\ tick' = [tick EXCEPT !.enough = FALSE]

BecomesReady(i) ==
    /\ insts[i].phase = "starting"
    /\ insts' = [insts EXCEPT ![i].phase = "ready"]
    /\ UNCHANGED <<deps, active, tick, faults, deploys, revived>>

\* Its probe fails, or its node goes offline (UNKNOWN).
BecomesUnready(i) ==
    /\ Ready(i) /\ Failure
    /\ insts' = [insts EXCEPT ![i].phase = "starting"]
    /\ UNCHANGED <<deps, active, deploys, revived>>

\* A crash reported by the agent, or an unhealthy instance that the reconciler
\* ended: the deployment's counter moves with it.  Not so for an instance that
\* is lost with its node.
Ends(i, counted) ==
    LET d == insts[i].dep IN
    /\ Viable(i) /\ Failure
    /\ insts' = [insts EXCEPT ![i] = NoInstance]
    /\ deps' = IF ~counted THEN deps
               ELSE [deps EXCEPT ![d].crashes = @ + 1,
                                 ![d].degraded = @ \/ deps[d].crashes + 1 >= CrashLimit]
    /\ UNCHANGED <<active, deploys, revived>>

\* A ready instance outlived HealthyRecoveryWindow.
ResetCrashCounter(d) ==
    /\ deps[d].crashes > 0 /\ \E i \in Of(d) : Ready(i)
    /\ deps' = [deps EXCEPT ![d].crashes = 0]
    /\ UNCHANGED <<insts, active, tick, faults, deploys, revived>>

Stops(i) ==
    /\ insts[i].phase = "stopping"
    /\ insts' = [insts EXCEPT ![i] = NoInstance]
    /\ UNCHANGED <<deps, active, tick, faults, deploys, revived>>

\* A RUNNING report sent before the stop takes STOPPING back; it still drains.
Revives(i) ==
    /\ insts[i].phase = "stopping" /\ Fault /\ revived' = revived + 1
    /\ \E p \in {"starting", "ready"} : insts' = [insts EXCEPT ![i].phase = p]
    /\ UNCHANGED <<deps, active, tick, deploys>>

DrainTimeoutPasses(i) ==
    /\ insts[i].drain = "recent" /\ Viable(i)
    /\ insts' = [insts EXCEPT ![i].drain = "elapsed"]
    /\ UNCHANGED <<deps, active, tick, faults, deploys, revived>>

Next ==
    \/ Reconcile
    \/ \E d \in Deployments : \/ Deploy(d) \/ ResetCrashCounter(d)
                              \/ \E force \in BOOLEAN : RollbackApp(d, force)
    \/ \E i \in Instances : \/ BecomesReady(i) \/ BecomesUnready(i)
                            \/ \E counted \in BOOLEAN : Ends(i, counted)
                            \/ Stops(i) \/ Revives(i) \/ DrainTimeoutPasses(i)

Spec == Init /\ [][Next]_vars

\* The loop ticks, instances become ready and stop, time passes.
Fairness ==
    /\ WF_vars(Reconcile)
    /\ WF_vars(\E i \in Instances : BecomesReady(i) \/ Stops(i))
    /\ WF_vars(\E i \in Instances : DrainTimeoutPasses(i))

FairSpec == Spec /\ Fairness

-----------------------------------------------------------------------------
(* Properties                                                              *)

\* When a tick has ended, and until the next one begins, the instances that it
\* leaves in service, of all versions together, are within the replicas and
\* surge of the deployment it found active, whatever deploys with other numbers
\* came before and whatever happened between the tick's steps; an instance that
\* a late report took back from STOPPING can cost one more, no other fault can.
\* During the tick the bound does not hold: it creates before it drains.
\* (computeRollingTarget, steps 1 to 3; Reconcile's second List.)
TickEndsWithinSurge ==
    (Idle /\ tick.active # 0 /\ ~tick.degraded) =>
        Cardinality(InService) <= maxAllowedTotal(tick.active) + revived

\* A tick that found its active deployment degraded takes nothing out of service
\* ("preserve surviving v1 capacity", computeRollingTarget), although the counts
\* its targets come from are older than the list it compares them with.
DegradedSpares ==
    [][tick.degraded =>
         \A i \in Instances : (Viable(i) /\ ~Draining(i)) =>
             insts'[i].drain = "nil" /\ insts'[i].phase # "stopping"]_vars

\* No tick of a plain rolling update takes instances out of service below
\* Replicas - MaxUnavailable, neither between its steps nor at its end, unless
\* an instance fails meanwhile.  There is no such guarantee after a rollback,
\* when the active deployment's own draining instances are counted as ready, nor
\* with two older versions: the old total is handed out in the order of
\* deployment ids, and an instance that only starts can be kept in place of one
\* that serves (Available).
TickKeepsAvailable ==
    (tick.plain /\ tick.enough) => Cardinality(Serving) >= minAvailable(tick.active)

\* Once operators stop and nothing more fails, a rollout that is not degraded
\* converges: all replicas of the active deployment are ready and at most
\* MaxSurge instances of other versions remain, for good.  The two limits never
\* block each other (ValidateAppSpec's deadlock rule, computeRollingTarget).
RolloutConverges ==
    <>[](active # 0 /\ ~deps[active].degraded) =>
        <>[](active # 0 => /\ activeReady >= Replicas[active]
                           /\ oldViable <= MaxSurge[active])

-----------------------------------------------------------------------------
(* What documents say and the code does not do                             *)

\* MILESTONE_8D, "scale down v1 instances without dipping below Desired -
\* MaxUnavailable", for every tick.
Available == tick.enough => Cardinality(Serving) >= minAvailable(tick.active)

\* MILESTONE_8D, "COMPLETED: The rollout finished successfully. All desired
\* instances are healthy": a rollout that converges is reported as COMPLETED.
RolloutCompletes ==
    <>[](active # 0 /\ ~deps[active].degraded) =>
        []<>(active # 0 => deps[active].rollout = "COMPLETED")

\* MILESTONE_8D, MaxSurge: "up to 4 total instances can run across all
\* versions" with desired=3 and surge=1.
TotalWithinSurge ==
    (Idle /\ tick.active # 0) =>
        Cardinality({i \in Instances : insts[i].phase # "none"})
            <= maxAllowedTotal(tick.active)
=============================================================================
