--------------------------- MODULE RolloutTargets ---------------------------
(***************************************************************************)
(* The arithmetic of RolloutController.computeRollingTarget                *)
(* (internal/scheduler/rollout_controller.go): from the counts of one      *)
(* application's instances to the two numbers of a rolling update, how     *)
(* many instances of the active deployment a and how many of all older     *)
(* ones there should be.  The limits are those of a's own SpecSnapshot.    *)
(***************************************************************************)
EXTENDS Integers, FiniteSetsExt

CONSTANTS Deployments,      \* their ids; numbers, as the old ones are sorted by id
          Replicas,         \* of each deployment's SpecSnapshot: desired,
          MaxSurge,         \* surge
          MaxUnavailable    \* and unavailable

\* ValidateAppSpec: the last conjunct is its deadlock rule.
ASSUME StrategyAssumption ==
    /\ Deployments \subseteq Nat \ {0}
    /\ Replicas \in [Deployments -> Nat] /\ MaxSurge \in [Deployments -> Nat]
    /\ MaxUnavailable \in [Deployments -> Nat]
    /\ \A d \in Deployments : Replicas[d] >= 1 => MaxSurge[d] > 0 \/ MaxUnavailable[d] > 0

NotNegative(x) == IF x < 0 THEN 0 ELSE x
Smaller(x, y) == IF x < y THEN x ELSE y
Larger(x, y) == IF x < y THEN y ELSE x

maxAllowedTotal(a) == Replicas[a] + MaxSurge[a]
minAvailable(a) == NotNegative(Replicas[a] - MaxUnavailable[a])

\* Mutant of requiredOld: the new instances that are ready do not count.
requiredOldAll(a, activeReady) == minAvailable(a)

\* Old instances needed so that enough instances stay ready.
requiredOld(a, activeReady) == NotNegative(minAvailable(a) - activeReady)

\* Mutant of oldTargetTotal: the old instances make room unconditionally.
oldTargetTotalUnsafe(a, activeViable, activeReady, oldViable) ==
    Smaller(oldViable, MaxSurge[a])

\* Steps 1 and 2: what exceeds the total goes, and then what is above the room
\* left beside a full active deployment, except for what is required.
oldTargetTotal(a, activeViable, activeReady, oldViable) ==
    Smaller(oldViable - Smaller(NotNegative(activeViable + oldViable - maxAllowedTotal(a)), oldViable),
            Larger(maxAllowedTotal(a) - Replicas[a], requiredOld(a, activeReady)))

\* Mutant of newActiveTarget: the room taken by old instances is ignored.
newActiveTargetFull(a, activeViable, oldTarget) == Larger(Replicas[a], activeViable)

\* Step 3: up to Replicas within the total, never down.
newActiveTarget(a, activeViable, oldTarget) ==
    Larger(Smaller(Replicas[a], maxAllowedTotal(a) - oldTarget), activeViable)
=============================================================================
