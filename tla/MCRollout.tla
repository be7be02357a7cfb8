----------------------------- MODULE MCRollout -----------------------------
(* TLC instances of Rollout: the numbers of each deployment's spec.        *)
EXTENDS Rollout, TLC

\* Two replicas and one unavailable, or one replica and one surplus.
MCReplicasDiffer == 1 :> 2 @@ 2 :> 1
MCSurgeDiffer == 1 :> 0 @@ 2 :> 1
MCUnavailableDiffer == 1 :> 1 @@ 2 :> 0

\* Every deployment alike.
MCOne == [d \in Deployments |-> 1]
MCTwo == [d \in Deployments |-> 2]
MCZero == [d \in Deployments |-> 0]
=============================================================================
