------------------------------ MODULE Instance ------------------------------
(***************************************************************************)
(* One instance record of the control plane and what each operation of     *)
(* internal/instance/registry.go does to it, and the crash counter of a    *)
(* deployment (internal/deployment/registry.go).                           *)
(*                                                                         *)
(* Clock values are abstracted to what the code compares with them:        *)
(* UnknownSince is "nil", "recent" or "expired" (InstanceUnknownTimeout    *)
(* ago), DrainStartedAt is "nil", "recent" or "elapsed" (DrainTimeout ago; *)
(* it is set exactly when Draining is), StartedAt is "nil", "recent" or    *)
(* "settled" (HealthyRecoveryWindow ago).  ExecutionIDs are numbered per   *)
(* instance, 0 is the empty string.  An instance publishes one port, 0     *)
(* stands for none.  ContainerID only selects how a container is named.    *)
(***************************************************************************)
EXTENDS Naturals

CONSTANTS Nodes,        \* node identifiers
          NoNode,       \* the empty NodeID
          PortRange,    \* host ports of the allocator
          CrashLimit    \* MaxCrashLoopThreshold

ASSUME InstanceAssumption ==
    /\ NoNode \notin Nodes
    /\ PortRange \subseteq Nat \ {0}
    /\ CrashLimit \in Nat \ {0}

\* "none" stands for an instance that has not been created.
Terminal == {"STOPPED", "CRASHED"}
Viable == {"PENDING", "ASSIGNED", "STARTING", "RUNNING", "UNKNOWN"}
Statuses == {"none", "STOPPING"} \cup Viable \cup Terminal
Healths == {"", "HEALTHY", "UNHEALTHY", "UNKNOWN"}
UnknownTimes == {"nil", "recent", "expired"}
DrainTimes == {"nil", "recent", "elapsed"}
StartTimes == {"nil", "recent", "settled"}

Instance == [status: Statuses, node: Nodes \cup {NoNode}, exec: Nat,
             health: Healths, port: PortRange \cup {0},
             unknown: UnknownTimes, drain: DrainTimes, started: StartTimes]

NoInstance == [status |-> "none", node |-> NoNode, exec |-> 0, health |-> "",
               port |-> 0, unknown |-> "nil", drain |-> "nil", started |-> "nil"]

Created == [NoInstance EXCEPT !.status = "PENDING"]

Draining(i) == i.drain # "nil"
Ready(i) == i.status = "RUNNING" /\ i.health = "HEALTHY"

-----------------------------------------------------------------------------
(* Operations of the control plane.                                        *)

Stoppable(i) == i.status \notin Terminal

\* The control plane never sets RUNNING, so StartedAt is left alone.
UpdateState(i, s) == IF Stoppable(i) THEN [i EXCEPT !.status = s] ELSE i

Assigned(i, n) == [UpdateState(i, "ASSIGNED") EXCEPT
                     !.node = IF Stoppable(i) THEN n ELSE @]

MarkUnknown(i) ==
    IF Stoppable(i)
    THEN [i EXCEPT !.status = "UNKNOWN",
                   !.unknown = IF @ = "nil" THEN "recent" ELSE @]
    ELSE i

MarkDraining(i) ==
    IF Stoppable(i) /\ ~Draining(i) THEN [i EXCEPT !.drain = "recent"] ELSE i

-----------------------------------------------------------------------------
(* Operations of an agent.                                                 *)

\* Mutant of ClaimAllowed: an instance in use may be claimed again.
ClaimAllowedInUse(i, n) == i.status \notin Terminal /\ i.node = n

ClaimAllowed(i, n) ==
    /\ \/ i.status = "ASSIGNED"
       \/ i.status = "UNKNOWN" /\ i.exec = 0
    /\ i.node = n

Claimed(i, e) ==
    [i EXCEPT !.status = "STARTING", !.exec = e, !.unknown = "nil"]

\* What an agent may report.  ReportStatus does not look at the current
\* status, except that it refuses to leave a terminal one.
Reportable == {"RUNNING", "STOPPING"} \cup Terminal

Owns(i, n, e) == i.node = n /\ i.exec = e

ReportRepeated(i, n, e, s, h) ==
    Owns(i, n, e) /\ s \in Reportable /\ i.status = s /\ i.health = h

\* Mutant of ReportApplied: a terminal instance can be revived.
ReportAppliedAlways(i, n, e, s, h) ==
    Owns(i, n, e) /\ s \in Reportable /\ ~ReportRepeated(i, n, e, s, h)

ReportApplied(i, n, e, s, h) ==
    /\ Owns(i, n, e) /\ s \in Reportable
    /\ ~ReportRepeated(i, n, e, s, h)
    /\ i.status \notin Terminal

Reported(i, s, h, p) ==
    [i EXCEPT !.status = s,
              !.health = IF h = "" THEN @ ELSE h,
              !.unknown = "nil",
              !.port = IF p = 0 THEN @ ELSE p,
              !.started = IF s = "RUNNING" /\ @ = "nil" THEN "recent" ELSE @]

\* The record after ReportStatus, whatever it answered.
AfterReport(i, n, e, s, h, p) ==
    IF ReportApplied(i, n, e, s, h) THEN Reported(i, s, h, p)
    ELSE IF ReportRepeated(i, n, e, s, h)
         THEN [i EXCEPT !.port = IF @ = 0 THEN p ELSE @]
         ELSE i

ReportAnswered(i, n, e, s, h) ==
    ReportApplied(i, n, e, s, h) \/ ReportRepeated(i, n, e, s, h)

-----------------------------------------------------------------------------
(* The crash counter of a deployment.                                      *)

RecordCrash(d) == [d EXCEPT !.crashes = @ + 1,
                            !.degraded = @ \/ d.crashes + 1 >= CrashLimit]

\* Degraded stays set: only a new deployment clears it.
ResetCrashCounter(d) == [d EXCEPT !.crashes = 0]
=============================================================================
