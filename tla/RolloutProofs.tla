--------------------------- MODULE RolloutProofs ---------------------------
(***************************************************************************)
(* Theorems about rolling updates for every set of deployments and any     *)
(* numbers of replicas, surge and unavailable of each, and any number of   *)
(* instances, faults and operations: first the arithmetic of a tick, then  *)
(* sequences of ticks whose steps interleave with everything else.         *)
(***************************************************************************)
EXTENDS Rollout, TLAPS, FiniteSetTheorems, WellFoundedInduction

-----------------------------------------------------------------------------
(* The arithmetic of a tick.                                               *)

\* The limits are natural numbers.
LEMMA LimitsAreNat ==
    ASSUME NEW a \in Deployments
    PROVE  /\ Replicas[a] \in Nat /\ MaxSurge[a] \in Nat /\ MaxUnavailable[a] \in Nat
           /\ maxAllowedTotal(a) \in Nat /\ minAvailable(a) \in Nat
           /\ maxAllowedTotal(a) - Replicas[a] = MaxSurge[a]
  BY StrategyAssumption DEF maxAllowedTotal, minAvailable, NotNegative

\* The target of the old deployments is a number of instances they have.
LEMMA OldTargetRange ==
    ASSUME NEW a \in Deployments, NEW av \in Nat, NEW ar \in Nat, NEW ov \in Nat
    PROVE  /\ oldTargetTotal(a, av, ar, ov) \in Int
           /\ 0 <= oldTargetTotal(a, av, ar, ov) /\ oldTargetTotal(a, av, ar, ov) <= ov
  <1>1. requiredOld(a, ar) \in Nat
    BY LimitsAreNat DEF requiredOld, NotNegative
  <1> QED BY <1>1, LimitsAreNat DEF oldTargetTotal, Smaller, Larger, NotNegative

\* A rolling update never plans beyond the surge: the two targets together
\* are within Replicas + MaxSurge, or exceed it by no more than the active
\* deployment alone did; and it never plans to shrink the active deployment,
\* nor to grow the old ones.
THEOREM PlanWithinSurge ==
    ASSUME NEW a \in Deployments, NEW av \in Nat, NEW ar \in Nat, NEW ov \in Nat,
           NEW excess \in Nat
    PROVE  LET old == oldTargetTotal(a, av, ar, ov)
               new == newActiveTarget(a, av, old)
           IN  /\ av <= new
               /\ 0 <= old /\ old <= ov
               /\ av <= maxAllowedTotal(a) + excess =>
                     old + new <= maxAllowedTotal(a) + excess
  <1> DEFINE old == oldTargetTotal(a, av, ar, ov)
             new == newActiveTarget(a, av, old)
  <1>1. old \in Int /\ 0 <= old /\ old <= ov
    BY OldTargetRange
  <1>2. av <= new
    BY <1>1, LimitsAreNat DEF newActiveTarget, Smaller, Larger
  <1>3. old <= ov - Smaller(NotNegative(av + ov - maxAllowedTotal(a)), ov)
    BY LimitsAreNat DEF oldTargetTotal, requiredOld, Smaller, Larger, NotNegative
  <1>4. ASSUME av <= maxAllowedTotal(a) + excess
        PROVE  old + av <= maxAllowedTotal(a) + excess
    BY <1>1, <1>3, <1>4, LimitsAreNat DEF Smaller, NotNegative
  <1>5. ASSUME av <= maxAllowedTotal(a) + excess
        PROVE  old + new <= maxAllowedTotal(a) + excess
    BY <1>1, <1>4, <1>5, LimitsAreNat DEF newActiveTarget, Smaller, Larger
  <1> QED BY <1>1, <1>2, <1>5

\* A rolling update plans for availability: all the old instances that serve may
\* stay, or enough of them that, with the ready active ones, the minimum
\* Replicas - MaxUnavailable is met, provided that those active and those
\* serving were within the surge.
THEOREM PlanKeepsAvailable ==
    ASSUME NEW a \in Deployments, NEW av \in Nat, NEW ar \in Nat, NEW ov \in Nat,
           NEW or \in Nat, or <= ov, av + or <= maxAllowedTotal(a)
    PROVE  \/ or <= oldTargetTotal(a, av, ar, ov)
           \/ ar + oldTargetTotal(a, av, ar, ov) >= minAvailable(a)
  <1> DEFINE room == ov - Smaller(NotNegative(av + ov - maxAllowedTotal(a)), ov)
             need == Larger(maxAllowedTotal(a) - Replicas[a], requiredOld(a, ar))
  <1>1. /\ maxAllowedTotal(a) \in Nat /\ minAvailable(a) \in Nat
        /\ requiredOld(a, ar) \in Nat /\ ar + requiredOld(a, ar) >= minAvailable(a)
    BY LimitsAreNat DEF requiredOld, NotNegative
  <1>2. room \in Int /\ or <= room
    BY <1>1 DEF Smaller, NotNegative
  <1>3. need \in Int /\ ar + need >= minAvailable(a)
    BY <1>1, LimitsAreNat DEF Larger
  <1>4. oldTargetTotal(a, av, ar, ov) = Smaller(room, need)
    BY DEF oldTargetTotal
  <1> HIDE DEF room, need
  <1> QED
    BY <1>2, <1>3, <1>4 DEF Smaller

\* A rolling update has a fixed point short of completion: once the active
\* deployment has all its replicas ready, up to MaxSurge old instances are
\* planned to stay, although COMPLETED requires that there are none.
THEOREM SurgeKeepsOldInstances ==
    ASSUME NEW a \in Deployments, NEW ov \in Nat, ov <= MaxSurge[a]
    PROVE  LET old == oldTargetTotal(a, Replicas[a], Replicas[a], ov)
           IN  old = ov /\ newActiveTarget(a, Replicas[a], old) = Replicas[a]
  <1> DEFINE old == oldTargetTotal(a, Replicas[a], Replicas[a], ov)
  <1>1. Replicas[a] + ov - maxAllowedTotal(a) <= 0
    BY LimitsAreNat DEF maxAllowedTotal
  <1>2. requiredOld(a, Replicas[a]) = 0
    BY LimitsAreNat DEF requiredOld, minAvailable, NotNegative
  <1>3. old = ov
    BY <1>1, <1>2, LimitsAreNat DEF oldTargetTotal, Smaller, Larger, NotNegative
  <1> HIDE DEF old
  <1>4. newActiveTarget(a, Replicas[a], old) = Replicas[a]
    BY <1>3, LimitsAreNat DEF newActiveTarget, Smaller, Larger
  <1> QED BY <1>3, <1>4 DEF old

\* With no surge allowed, a full active deployment plans the end of every old
\* instance: the rollout can complete.
THEOREM NoSurgeRetiresOld ==
    ASSUME NEW a \in Deployments, NEW ov \in Nat, MaxSurge[a] = 0
    PROVE  oldTargetTotal(a, Replicas[a], Replicas[a], ov) = 0
  <1>1. requiredOld(a, Replicas[a]) = 0
    BY LimitsAreNat DEF requiredOld, minAvailable, NotNegative
  <1> QED BY <1>1, LimitsAreNat DEF oldTargetTotal, Smaller, Larger, NotNegative

-----------------------------------------------------------------------------
(* Ranking a finite set: the scale-down sorts and takes a prefix.          *)

LEMMA LeastNat ==
    ASSUME NEW S \in SUBSET Nat, S # {}
    PROVE  \E x \in S : \A y \in S : x <= y
  <1> DEFINE R == OpToRel(<, Nat)
  <1>1. PICK x \in S : \A y \in S : ~(<<y, x>> \in R)
    BY WFMin, NatLessThanWellFounded
  <1>2. R = {ss \in Nat \X Nat : ss[1] < ss[2]}
    BY DEF OpToRel
  <1> HIDE DEF R
  <1>3. ASSUME NEW y \in S PROVE x <= y
    <2>1. <<y, x>> \in Nat \X Nat /\ <<y, x>>[1] = y /\ <<y, x>>[2] = x
      OBVIOUS
    <2> QED BY <1>1, <1>2, <2>1
  <1> QED BY <1>3

\* B[i] is what precedes i in a strict order: some element of N is preceded by
\* no other.
LEMMA Foremost ==
    ASSUME NEW N, N # {}, NEW B, \A i \in N : IsFiniteSet(B[i]) /\ i \notin B[i],
           \A i, j \in N : j \in B[i] => B[j] \subseteq B[i]
    PROVE  \E m \in N : \A i \in N : i \notin B[m]
  <1> DEFINE ranks == {Cardinality(B[i]) : i \in N}
  <1>1. \A i \in N : Cardinality(B[i]) \in Nat
    BY FS_CardinalityType
  <1>2. PICK x \in ranks : \A y \in ranks : x <= y
    <2>1. ranks \in SUBSET Nat /\ ranks # {}
      BY <1>1
    <2> HIDE DEF ranks
    <2> QED
      BY <2>1, LeastNat
  <1>3. PICK m \in N : x = Cardinality(B[m])
    OBVIOUS
  <1>4. ASSUME NEW i \in N, i \in B[m] PROVE FALSE
    <2>1. B[i] \in SUBSET B[m] /\ B[i] # B[m] /\ IsFiniteSet(B[m])
      BY <1>4
    <2>2. Cardinality(B[i]) <= Cardinality(B[m]) /\ Cardinality(B[m]) # Cardinality(B[i])
      BY <2>1, FS_Subset
    <2>3. Cardinality(B[m]) <= Cardinality(B[i])
      BY <1>2, <1>3
    <2> QED
      BY <1>1, <2>2, <2>3
  <1> QED
    BY <1>4

\* At most |V| - k elements have k or more before them.
LEMMA FewSurvive ==
    ASSUME NEW V, IsFiniteSet(V), NEW k \in Int, NEW B \in [V -> SUBSET V],
           \A i \in V : i \notin B[i], \A i, j \in V : j \in B[i] => B[j] \subseteq B[i],
           NEW N \in SUBSET V, N # {}, \A i \in N : ~(Cardinality(B[i]) < k)
    PROVE  Cardinality(N) <= Cardinality(V) - k
  <1>1. \A i \in V : B[i] \in SUBSET V /\ IsFiniteSet(B[i])
    BY FS_Subset
  <1>2. PICK m \in N : \A i \in N : i \notin B[m]
    BY <1>1, Foremost
  <1>3. /\ IsFiniteSet(V \ B[m]) /\ V \cap B[m] = B[m]
        /\ Cardinality(V \ B[m]) = Cardinality(V) - Cardinality(V \cap B[m])
    BY <1>1, FS_Difference
  <1>4. N \in SUBSET (V \ B[m])
    BY <1>2
  <1>5. Cardinality(N) <= Cardinality(V \ B[m]) /\ IsFiniteSet(N)
    BY <1>3, <1>4, FS_Subset
  <1>6. /\ Cardinality(N) \in Nat /\ Cardinality(V) \in Nat /\ Cardinality(B[m]) \in Nat
    BY <1>1, <1>5, FS_CardinalityType
  <1>7. ~(Cardinality(B[m]) < k)
    BY <1>2
  <1>8. Cardinality(V \ B[m]) = Cardinality(V) - Cardinality(B[m])
    BY <1>3
  <1> QED
    BY <1>5, <1>6, <1>7, <1>8

\* Elements of S come after all others: those of S with fewer than k before them
\* are at most k less the others.
LEMMA FewOfTheLast ==
    ASSUME NEW V, IsFiniteSet(V), NEW k \in Int, NEW B \in [V -> SUBSET V],
           \A i \in V : i \notin B[i], \A i, j \in V : j \in B[i] => B[j] \subseteq B[i],
           \A i, j \in V : i # j => i \in B[j] \/ j \in B[i],
           NEW S \in SUBSET V, \A s \in S, j \in V \ S : j \in B[s],
           NEW W \in SUBSET S, W # {}, \A i \in W : Cardinality(B[i]) < k
    PROVE  Cardinality(W) <= k - Cardinality(V \ S)
  <1> DEFINE A == [i \in V |-> {j \in V : i \in B[j]}]
  <1>1. /\ \A i \in W : IsFiniteSet(A[i]) /\ i \notin A[i]
        /\ \A i, j \in W : j \in A[i] => A[j] \subseteq A[i]
    <2>1. \A i \in W : A[i] \in SUBSET V
      OBVIOUS
    <2>2. \A i \in W : IsFiniteSet(A[i])
      BY <2>1, FS_Subset
    <2> QED
      BY <2>2
  <1> HIDE DEF A
  <1>2. PICK m \in W : \A i \in W : i \notin A[m]
    BY <1>1, Foremost, SMTT(30)
  <1>3. \A i \in W \ {m} : i \in B[m]
    BY <1>2 DEF A
  <1> DEFINE others == V \ S
             T == others \cup (W \ {m})
  <1>4. T \in SUBSET B[m] /\ B[m] \in SUBSET V
    BY <1>3
  <1>5. IsFiniteSet(B[m]) /\ IsFiniteSet(T) /\ Cardinality(T) <= Cardinality(B[m])
    BY <1>4, FS_Subset
  <1>6. others \in SUBSET V /\ W \in SUBSET V
    OBVIOUS
  <1>7. IsFiniteSet(others) /\ IsFiniteSet(W)
    BY <1>6, FS_Subset
  <1>8. IsFiniteSet(W \ {m}) /\ Cardinality(W \ {m}) = Cardinality(W) - 1
    BY <1>7, FS_RemoveElement
  <1>9. others \cap (W \ {m}) = {}
    OBVIOUS
  <1>10. Cardinality(T) = Cardinality(others) + Cardinality(W \ {m})
                          - Cardinality(others \cap (W \ {m}))
    BY <1>7, <1>8, FS_Union
  <1>11. Cardinality(others \cap (W \ {m})) = 0
    BY <1>9, FS_EmptySet
  <1>12. /\ Cardinality(others) \in Nat /\ Cardinality(W) \in Nat
         /\ Cardinality(B[m]) \in Nat /\ Cardinality(T) \in Nat
    BY <1>5, <1>7, FS_CardinalityType
  <1>13. Cardinality(B[m]) < k
    OBVIOUS
  <1> HIDE DEF others, T
  <1>14. Cardinality(W) <= k - Cardinality(others)
    BY <1>5, <1>8, <1>10, <1>11, <1>12, <1>13
  <1> QED
    BY <1>14 DEF others

-----------------------------------------------------------------------------
(* The inductive invariant.                                                *)

\* Chosen to be drained, not marked yet; what is to stay in service; what of it
\* is ready.
Drains == {i \in Instances : <<"drain", i>> \in tick.todo}
Kept(d) == {i \in ViableOf(d) : ~Draining(i) /\ i \notin Drains}
KeptServing(d) == {i \in Kept(d) : Ready(i)}

\* Instances belong to deployments that exist, only draining ones are stopped,
\* and no deployment has more viable instances than Replicas and the late
\* reports account for.
PopulationOK ==
    /\ active \in Known \cup {0} /\ tick.active \in Known \cup {0}
    /\ tick.scale \in SUBSET Known
    /\ \A i \in Instances : insts[i].phase # "none" => insts[i].dep \in Known
    /\ \A i \in Instances : insts[i].phase = "stopping" => Draining(i)
    /\ \A i \in Instances : <<"stop", i>> \in tick.todo =>
                               insts[i].phase = "none" \/ Draining(i)
    /\ \A d \in Deployments : Cardinality(ViableOf(d)) <= Replicas[d] + revived

\* The old targets add up: before[d] is what the old deployments below d get
\* together.
AddsUp(before) ==
    LET a == tick.active  total == maxAllowedTotal(a) + revived IN
    /\ tick.target[a] <= total
    /\ \A d \in Deployments \ {a} : before[d] + tick.target[d] + tick.target[a] <= total
    /\ \A d, e \in Deployments \ {a} : d < e => before[d] + tick.target[d] <= before[e]

\* No target exceeds what its deployment may have, and all of them together are
\* within the surge.
PlanOK ==
    /\ \A d \in Deployments : tick.target[d] <= Replicas[d] + revived
    /\ (tick.active # 0 /\ ~tick.degraded) => \E before \in [Deployments -> Nat] : AddsUp(before)

\* A deployment that was converged keeps no more than its target; while the
\* tick is a degraded one's, no deployment has more than its target in service,
\* and nothing is drained.
KeptOK ==
    /\ \A d \in Deployments :
          (d \notin tick.scale \/ tick.degraded) => Cardinality(Kept(d)) <= tick.target[d]
    /\ tick.degraded => Drains = {}

\* What d contributes to the instances that serve, its scale-down included.
Counted(d) ==
    IF d \in tick.scale THEN Smaller(Cardinality(KeptServing(d)), tick.target[d])
    ELSE Cardinality(KeptServing(d))

\* The active and one older version together serve enough.
AvailabilityOK ==
    (tick.plain /\ tick.enough) =>
        /\ tick.active # 0
        /\ \E o \in (Deployments \cup {0}) \ {tick.active} :
              Counted(tick.active) + Counted(o) >= minAvailable(tick.active)

RolloutInv == TypeOK /\ PopulationOK /\ PlanOK /\ KeptOK /\ AvailabilityOK

-----------------------------------------------------------------------------
(* Counts.                                                                 *)

LEMMA InstancesFinite ==
    ASSUME NEW S \in SUBSET Instances
    PROVE  IsFiniteSet(S) /\ Cardinality(S) \in Nat
  BY RolloutAssumption, FS_Subset, FS_CardinalityType

LEMMA SubsetCounts ==
    ASSUME NEW S \in SUBSET Instances, NEW T \in SUBSET S
    PROVE  /\ Cardinality(T) \in Nat /\ Cardinality(S) \in Nat
           /\ Cardinality(T) <= Cardinality(S)
  BY InstancesFinite, FS_Subset, FS_CardinalityType

LEMMA UnionCounts ==
    ASSUME NEW S \in SUBSET Instances, NEW T \in SUBSET Instances
    PROVE  /\ Cardinality(S \cup T) \in Nat /\ Cardinality(S) \in Nat /\ Cardinality(T) \in Nat
           /\ Cardinality(S \cup T) <= Cardinality(S) + Cardinality(T)
           /\ S \cap T = {} => Cardinality(S \cup T) = Cardinality(S) + Cardinality(T)
  <1>1. /\ IsFiniteSet(S) /\ Cardinality(S) \in Nat /\ IsFiniteSet(T) /\ Cardinality(T) \in Nat
        /\ Cardinality(S \cup T) \in Nat
    <2>1. S \cup T \in SUBSET Instances
      OBVIOUS
    <2> QED
      BY <2>1, InstancesFinite
  <1>2. Cardinality(S \cup T) = Cardinality(S) + Cardinality(T) - Cardinality(S \cap T)
    BY <1>1, FS_Union
  <1>3. Cardinality(S \cap T) \in Nat
    <2>1. S \cap T \in SUBSET Instances
      OBVIOUS
    <2> QED
      BY <2>1, InstancesFinite
  <1>4. S \cap T = {} => Cardinality(S \cap T) = 0
    BY FS_EmptySet
  <1> QED
    BY <1>1, <1>2, <1>3, <1>4

\* The sets of instances that are counted.
LEMMA SetsOfInstances ==
    ASSUME NEW d
    PROVE  /\ ViableOf(d) \in SUBSET Instances /\ Kept(d) \in SUBSET ViableOf(d)
           /\ KeptServing(d) \in SUBSET Kept(d) /\ Kept(d) \in SUBSET Instances
           /\ KeptServing(d) \in SUBSET Instances
           /\ InService \in SUBSET Instances /\ Serving \in SUBSET Instances
           /\ Unused \in SUBSET Instances
  BY DEF ViableOf, Of, Kept, KeptServing, InService, Serving, Unused

LEMMA CountsAreNat ==
    ASSUME NEW d
    PROVE  /\ Cardinality(ViableOf(d)) \in Nat /\ IsFiniteSet(ViableOf(d))
           /\ Cardinality(Kept(d)) \in Nat /\ Cardinality(KeptServing(d)) \in Nat
           /\ Cardinality(Kept(d)) <= Cardinality(ViableOf(d))
           /\ Cardinality(KeptServing(d)) <= Cardinality(Kept(d))
           /\ Cardinality(Unused) \in Nat
  BY SetsOfInstances, InstancesFinite, SubsetCounts

LEMMA TickFields ==
    ASSUME TypeOK
    PROVE  /\ tick.active \in Deployments \cup {0} /\ tick.degraded \in BOOLEAN
           /\ tick.plain \in BOOLEAN /\ tick.enough \in BOOLEAN
           /\ tick.target \in [Deployments -> Nat] /\ tick.scale \in SUBSET Deployments
           /\ tick.todo \in SUBSET ({"drain", "stop"} \X Instances)
           /\ revived \in Nat
  BY DEF TypeOK, Tick

LEMMA CountedNat ==
    ASSUME TypeOK, NEW d
    PROVE  Counted(d) \in Nat /\ Counted(d) <= Cardinality(KeptServing(d))
  <1>1. d \in tick.scale => tick.target[d] \in Nat
    BY TickFields
  <1> QED
    BY <1>1, CountsAreNat DEF Counted, Smaller

-----------------------------------------------------------------------------
(* What the end of a tick leaves in service.                               *)

\* The instances kept of old deployments below d are no more than before[d]:
\* otherwise take the least such d, and of the deployments below it with such
\* instances the greatest.
LEMMA KeptBelow ==
    ASSUME TypeOK, NEW a \in Deployments, a = tick.active,
           NEW before \in [Deployments -> Nat], AddsUp(before),
           NEW O \in SUBSET Instances, \A i \in O : insts[i].dep \in Deployments \ {a},
           \A d \in Deployments : Cardinality({i \in O : insts[i].dep = d}) <= tick.target[d]
    PROVE  \A d \in Deployments \ {a} : Cardinality({i \in O : insts[i].dep < d}) <= before[d]
  <1> DEFINE Below(d) == {i \in O : insts[i].dep < d}
             Bad == {d \in Deployments \ {a} : ~(Cardinality(Below(d)) <= before[d])}
  <1> SUFFICES ASSUME Bad # {} PROVE FALSE
    OBVIOUS
  <1>1. PICK d \in Bad : \A e \in Bad : d <= e
    <2>1. Bad \in SUBSET Nat
      BY StrategyAssumption
    <2> HIDE DEF Bad
    <2> QED
      BY <2>1, LeastNat
  <1>2. d \in Deployments \ {a} /\ ~(Cardinality(Below(d)) <= before[d]) /\ d \in Nat
    BY <1>1, StrategyAssumption
  <1>3. /\ \A e : Below(e) \in SUBSET Instances
        /\ \A i \in O : insts[i].dep \in Nat
    BY StrategyAssumption
  <1>4. Below(d) # {}
    <2> HIDE DEF Below
    <2>1. before[d] \in Nat
      BY <1>2
    <2>2. Below(d) = {} => Cardinality(Below(d)) = 0
      BY FS_EmptySet
    <2> QED
      BY <1>2, <2>1, <2>2
  <1> DEFINE After == [i \in Below(d) |-> {j \in Below(d) : insts[j].dep > insts[i].dep}]
  <1>5. PICK m \in Below(d) : \A i \in Below(d) : i \notin After[m]
    <2>1. \A i \in Below(d) : After[i] \in SUBSET Instances /\ i \notin After[i]
      BY <1>3
    <2>2. \A i \in Below(d) : IsFiniteSet(After[i]) /\ i \notin After[i]
      BY <2>1, InstancesFinite
    <2>3. \A i, j \in Below(d) : j \in After[i] => After[j] \subseteq After[i]
      BY <1>3
    <2> HIDE DEF After, Below
    <2> QED
      BY <1>4, <2>2, <2>3, Foremost
  <1> DEFINE e == insts[m].dep
             OfE == {i \in O : insts[i].dep = e}
  <1>6. /\ e \in Deployments \ {a} /\ e < d /\ e \in Nat
        /\ \A i \in Below(d) : insts[i].dep <= e
    <2>1. m \in O /\ e < d /\ e \in Deployments \ {a} /\ e \in Nat
      BY <1>3, <1>5
    <2>2. ASSUME NEW i \in Below(d) PROVE insts[i].dep <= e
      <3>1. i \in O /\ insts[i].dep \in Nat /\ i \notin After[m]
        BY <1>3, <1>5
      <3>2. ~(insts[i].dep > insts[m].dep)
        BY <1>5, <3>1
      <3> QED
        BY <2>1, <3>1, <3>2
    <2> QED
      BY <2>1, <2>2
  <1>7. Below(d) \in SUBSET (Below(e) \cup OfE)
    BY <1>3, <1>6
  <1>8. Below(e) \in SUBSET Instances /\ OfE \in SUBSET Instances /\ Below(d) \in SUBSET Instances
    OBVIOUS
  <1>9. e \notin Bad
    BY <1>1, <1>2, <1>6
  <1>10. Cardinality(Below(e)) <= before[e] /\ Cardinality(OfE) <= tick.target[e]
    BY <1>6, <1>9
  <1>11. before[e] + tick.target[e] <= before[d]
    BY <1>2, <1>6 DEF AddsUp
  <1>12. before[e] \in Nat /\ before[d] \in Nat /\ tick.target[e] \in Nat
    BY <1>2, <1>6, TickFields
  <1> HIDE DEF Below, OfE, Bad, e
  <1>13. /\ Cardinality(Below(e)) \in Nat /\ Cardinality(OfE) \in Nat
         /\ Cardinality(Below(e) \cup OfE) \in Nat
         /\ Cardinality(Below(e) \cup OfE) <= Cardinality(Below(e)) + Cardinality(OfE)
    BY <1>8, UnionCounts
  <1>14. /\ Cardinality(Below(d)) \in Nat
         /\ Cardinality(Below(d)) <= Cardinality(Below(e) \cup OfE)
    <2>1. Below(e) \cup OfE \in SUBSET Instances
      BY <1>8
    <2> QED
      BY <1>7, <2>1, SubsetCounts
  <1> QED
    BY <1>2, <1>10, <1>11, <1>12, <1>13, <1>14

\* With every deployment converged, all that is in service is within the surge.
LEMMA TickEnds ==
    ASSUME RolloutInv, Idle, tick.active # 0, ~tick.degraded
    PROVE  Cardinality(InService) <= maxAllowedTotal(tick.active) + revived
  <1>1. /\ TypeOK /\ PopulationOK /\ KeptOK /\ PlanOK
        /\ tick.scale = {} /\ tick.todo = {} /\ Drains = {}
    BY DEF RolloutInv, Idle, Drains
  <1>2. PICK a \in Deployments : a = tick.active
    BY <1>1, TickFields
  <1>3. PICK before \in [Deployments -> Nat] : AddsUp(before)
    BY <1>1 DEF PlanOK
  <1>4. /\ \A d \in Deployments : tick.target[d] \in Nat
        /\ revived \in Nat /\ maxAllowedTotal(a) \in Nat
    BY <1>1, TickFields, LimitsAreNat
  <1> DEFINE O == {i \in InService : insts[i].dep # a}
  <1>5. /\ O \in SUBSET Instances /\ Kept(a) \in SUBSET Instances
        /\ InService = Kept(a) \cup O /\ Kept(a) \cap O = {}
    BY <1>1 DEF InService, Kept, ViableOf, Of
  <1>6. \A i \in O : insts[i].dep \in Deployments \ {a}
    BY <1>1 DEF InService, Viable, PopulationOK, Known
  <1>7. \A d \in Deployments : Cardinality({i \in O : insts[i].dep = d}) <= tick.target[d]
    <2> SUFFICES ASSUME NEW d \in Deployments
                 PROVE  Cardinality({i \in O : insts[i].dep = d}) <= tick.target[d]
      OBVIOUS
    <2>1. {i \in O : insts[i].dep = d} \in SUBSET Kept(d) /\ Kept(d) \in SUBSET Instances
      BY <1>1 DEF InService, Kept, ViableOf, Of
    <2>2. Cardinality(Kept(d)) <= tick.target[d]
      BY <1>1 DEF KeptOK
    <2> QED
      BY <1>4, <2>1, <2>2, SubsetCounts
  <1>8. Cardinality(Kept(a)) <= tick.target[a]
    BY <1>1 DEF KeptOK
  <1>9. tick.target[a] <= maxAllowedTotal(a) + revived
    BY <1>2, <1>3 DEF AddsUp
  <1> HIDE DEF O
  <1>10. /\ Cardinality(InService) = Cardinality(Kept(a)) + Cardinality(O)
         /\ Cardinality(Kept(a)) \in Nat /\ Cardinality(O) \in Nat
    BY <1>5, UnionCounts
  <1>11. CASE O = {}
    <2>1. Cardinality(O) = 0
      BY <1>11, FS_EmptySet
    <2> QED
      BY <1>2, <1>4, <1>8, <1>9, <1>10, <2>1
  <1>12. CASE O # {}
    <2> DEFINE After == [i \in O |-> {j \in O : insts[j].dep > insts[i].dep}]
    <2>1. \A i \in O : insts[i].dep \in Nat
      BY <1>6, StrategyAssumption
    <2>2. PICK m \in O : \A i \in O : i \notin After[m]
      <3>1. \A i \in O : After[i] \in SUBSET Instances /\ i \notin After[i]
        BY <1>5, <2>1
      <3>2. \A i \in O : IsFiniteSet(After[i]) /\ i \notin After[i]
        BY <3>1, InstancesFinite
      <3>3. \A i, j \in O : j \in After[i] => After[j] \subseteq After[i]
        BY <2>1
      <3> HIDE DEF After
      <3> QED
        BY <1>12, <3>2, <3>3, Foremost
    <2> DEFINE e == insts[m].dep
               Below == {i \in O : insts[i].dep < e}
               OfE == {i \in O : insts[i].dep = e}
    <2>3. e \in Deployments \ {a} /\ e \in Nat /\ \A i \in O : insts[i].dep <= e
      BY <1>6, <2>1, <2>2
    <2>4. /\ O = Below \cup OfE /\ Below \in SUBSET Instances /\ OfE \in SUBSET Instances
      BY <1>5, <2>1, <2>3
    <2>5. Cardinality(Below) <= before[e]
      BY <1>1, <1>2, <1>3, <1>5, <1>6, <1>7, <2>3, KeptBelow
    <2>6. Cardinality(OfE) <= tick.target[e]
      BY <1>7, <2>3
    <2>7. before[e] + tick.target[e] + tick.target[a] <= maxAllowedTotal(a) + revived
      BY <1>2, <1>3, <2>3 DEF AddsUp
    <2>8. before[e] \in Nat /\ tick.target[e] \in Nat /\ tick.target[a] \in Nat
      BY <1>4, <2>3
    <2> HIDE DEF Below, OfE, e
    <2>9. /\ Cardinality(O) <= Cardinality(Below) + Cardinality(OfE)
          /\ Cardinality(Below) \in Nat /\ Cardinality(OfE) \in Nat
      BY <2>4, UnionCounts
    <2> QED
      BY <1>2, <1>4, <1>8, <1>10, <2>5, <2>6, <2>7, <2>8, <2>9
  <1> QED
    BY <1>11, <1>12

-----------------------------------------------------------------------------
(* Steps that create nothing and choose nothing.                           *)

\* Such a step leaves the plan alone, keeps in service nothing that was not, and
\* while tick.enough holds takes nothing out that serves and is to stay; at most
\* one instance, r, becomes viable again, and is counted.
LEMMA QuietStep ==
    ASSUME RolloutInv, TypeOK', Known \subseteq Known', active' \in Known' \cup {0},
           tick'.active = tick.active, tick'.degraded = tick.degraded,
           tick'.plain = tick.plain, tick'.enough => tick.enough,
           tick'.target = tick.target, tick'.scale = tick.scale,
           tick'.todo \subseteq tick.todo,
           NEW r, revived' \in {revived, revived + 1},
           \A i \in Instances : insts'[i].phase # "none" =>
               insts[i].phase # "none" /\ insts'[i].dep = insts[i].dep,
           \A i \in Instances : insts'[i].phase = "stopping" => insts'[i].drain # "nil",
           \A i \in Instances : <<"stop", i>> \in tick'.todo =>
               insts'[i].phase = "none" \/ insts'[i].drain # "nil",
           \A i \in Instances : Viable(i)' =>
               Viable(i) \/ (i = r /\ revived' = revived + 1),
           \A i \in Instances : (Viable(i)' /\ ~Draining(i)' /\ i \notin Drains') =>
               (Viable(i) /\ ~Draining(i) /\ i \notin Drains),
           tick'.enough => \A i \in Instances : (Ready(i) /\ ~Draining(i) /\ i \notin Drains) =>
               (Ready(i)' /\ ~Draining(i)' /\ i \notin Drains' /\ insts'[i].dep = insts[i].dep)
    PROVE  RolloutInv'
  <1>1. TypeOK /\ PopulationOK /\ PlanOK /\ KeptOK /\ AvailabilityOK
    BY DEF RolloutInv
  <1>2. /\ revived \in Nat /\ revived' \in Nat /\ revived <= revived'
        /\ \A d \in Deployments : tick.target[d] \in Nat /\ Replicas[d] \in Nat
        /\ tick.active \in Deployments \cup {0}
    BY <1>1, TickFields, LimitsAreNat
  <1>3. \A i \in Instances : Viable(i)' => insts'[i].dep = insts[i].dep
    BY DEF Viable
  <1>4. ASSUME NEW d \in Deployments PROVE Cardinality(ViableOf(d)') <= Replicas[d] + revived'
    <2>1. Cardinality(ViableOf(d)) <= Replicas[d] + revived
      BY <1>1 DEF PopulationOK
    <2>2. ViableOf(d) \in SUBSET Instances /\ ViableOf(d)' \in SUBSET Instances
      BY DEF ViableOf, Of
    <2>3. CASE revived' = revived
      <3>1. ViableOf(d)' \in SUBSET ViableOf(d)
        <4>1. revived \in Nat
          BY <1>2
        <4>2. \A i \in Instances : Viable(i)' => Viable(i)
          BY <2>3, <4>1
        <4> QED
          BY <1>3, <4>2 DEF ViableOf, Of
      <3>2. /\ Cardinality(ViableOf(d)) \in Nat /\ Cardinality(ViableOf(d)') \in Nat
            /\ Cardinality(ViableOf(d)') <= Cardinality(ViableOf(d))
        BY <2>2, <3>1, SubsetCounts
      <3> QED
        BY <1>2, <2>1, <2>3, <3>2
    <2>4. CASE revived' = revived + 1
      <3> DEFINE V == ViableOf(d)' \cap {r}
      <3>1. /\ ViableOf(d)' \in SUBSET (ViableOf(d) \cup V) /\ V \in SUBSET Instances
        BY <1>3, <2>2 DEF ViableOf, Of
      <3>2. Cardinality(V) <= 1 /\ Cardinality(V) \in Nat
        <4>1. V \in SUBSET {r} /\ IsFiniteSet({r}) /\ Cardinality({r}) = 1
          BY FS_Singleton
        <4> HIDE DEF V
        <4> QED
          BY <4>1, FS_Subset, FS_CardinalityType
      <3> HIDE DEF V
      <3>3. /\ Cardinality(ViableOf(d) \cup V) <= Cardinality(ViableOf(d)) + Cardinality(V)
            /\ Cardinality(ViableOf(d) \cup V) \in Nat /\ Cardinality(ViableOf(d)) \in Nat
        BY <2>2, <3>1, UnionCounts
      <3>4. /\ Cardinality(ViableOf(d)') <= Cardinality(ViableOf(d) \cup V)
            /\ Cardinality(ViableOf(d)') \in Nat
        <4>1. ViableOf(d) \cup V \in SUBSET Instances
          BY <2>2, <3>1
        <4> QED
          BY <3>1, <4>1, SubsetCounts
      <3> QED
        BY <1>2, <2>1, <2>4, <3>2, <3>3, <3>4
    <2> QED
      BY <2>3, <2>4
  <1>5. PopulationOK'
    <2>1. \A i \in Instances : insts'[i].phase # "none" => insts'[i].dep \in Known'
      BY <1>1 DEF PopulationOK
    <2>2. tick'.active \in Known' \cup {0} /\ tick'.scale \in SUBSET Known'
      BY <1>1 DEF PopulationOK
    <2> QED
      BY <1>4, <2>1, <2>2 DEF PopulationOK, Draining
  <1>6. PlanOK'
    <2>1. \A d \in Deployments : tick'.target[d] <= Replicas[d] + revived'
      BY <1>1, <1>2 DEF PlanOK
    <2>2. ASSUME tick.active # 0, ~tick.degraded
          PROVE  \E before \in [Deployments -> Nat] : AddsUp(before)'
      <3>1. PICK before \in [Deployments -> Nat] : AddsUp(before)
        BY <1>1, <2>2 DEF PlanOK
      <3>2. tick.active \in Deployments /\ maxAllowedTotal(tick.active) \in Nat
        BY <1>2, <2>2, LimitsAreNat
      <3>3. \A d \in Deployments : before[d] \in Nat
        OBVIOUS
      <3>4. AddsUp(before)'
        BY <1>2, <3>1, <3>2, <3>3 DEF AddsUp, maxAllowedTotal
      <3> QED
        BY <3>4
    <2> QED
      BY <2>1, <2>2 DEF PlanOK
  <1>7. KeptOK'
    <2>1. ASSUME NEW d \in Deployments, d \notin tick.scale \/ tick.degraded
          PROVE  Cardinality(Kept(d)') <= tick.target[d]
      <3>1. Kept(d)' \in SUBSET Kept(d) /\ Kept(d) \in SUBSET Instances
        BY <1>3 DEF Kept, ViableOf, Of
      <3>2. Cardinality(Kept(d)) <= tick.target[d]
        BY <1>1, <2>1 DEF KeptOK
      <3>3. /\ Cardinality(Kept(d)') \in Nat /\ Cardinality(Kept(d)) \in Nat
            /\ Cardinality(Kept(d)') <= Cardinality(Kept(d))
        BY <3>1, SubsetCounts
      <3> QED
        BY <1>2, <3>2, <3>3
    <2>2. Drains' \subseteq Drains
      BY DEF Drains
    <2>3. tick.degraded => Drains' = {}
      BY <1>1, <2>2 DEF KeptOK
    <2> QED
      BY <2>1, <2>3 DEF KeptOK
  <1>8. AvailabilityOK'
    <2> SUFFICES ASSUME tick'.plain, tick'.enough PROVE AvailabilityOK'
      BY DEF AvailabilityOK
    <2>1. PICK a \in Deployments : a = tick.active /\ a # 0
      BY <1>1, <1>2 DEF AvailabilityOK
    <2>2. PICK o \in (Deployments \cup {0}) \ {a} : Counted(a) + Counted(o) >= minAvailable(a)
      BY <1>1, <2>1 DEF AvailabilityOK
    <2>3. ASSUME NEW d PROVE /\ Counted(d) \in Nat /\ Counted(d)' \in Nat
                             /\ Counted(d) <= Counted(d)'
      <3>1. KeptServing(d) \in SUBSET KeptServing(d)' /\ KeptServing(d)' \in SUBSET Instances
        BY DEF KeptServing, Kept, ViableOf, Of, Viable, Ready
      <3>2. /\ Cardinality(KeptServing(d)) \in Nat /\ Cardinality(KeptServing(d)') \in Nat
            /\ Cardinality(KeptServing(d)) <= Cardinality(KeptServing(d)')
        BY <3>1, SubsetCounts
      <3>3. d \in tick.scale => tick.target[d] \in Nat
        BY <1>1, TickFields
      <3> QED
        BY <3>2, <3>3 DEF Counted, Smaller
    <2>4. minAvailable(a) \in Nat
      BY LimitsAreNat
    <2>5. Counted(a)' + Counted(o)' >= minAvailable(a)
      BY <2>2, <2>3, <2>4
    <2> QED
      BY <2>1, <2>5 DEF AvailabilityOK
  <1> QED
    BY <1>5, <1>6, <1>7, <1>8 DEF RolloutInv

\* A step that leaves the instances and the tick alone.
LEMMA AsideStep ==
    ASSUME RolloutInv, TypeOK', Known \subseteq Known', active' \in Known' \cup {0},
           UNCHANGED <<insts, tick, revived>>
    PROVE  RolloutInv'
  <1>1. PopulationOK
    BY DEF RolloutInv
  <1> QED
    BY <1>1, QuietStep DEF PopulationOK, Viable, Draining, Ready, Drains

LEMMA SupersedeFacts ==
    ASSUME TypeOK, NEW d \in Known \cup {0}
    PROVE  /\ Supersede(deps, d) \in [Deployments -> Deployment]
           /\ \A e \in Deployments : Supersede(deps, d)[e].status = "none" <=>
                                        deps[e].status = "none"
  <1>1. CASE d = 0
    BY <1>1 DEF Supersede, TypeOK
  <1>2. CASE d # 0
    <2>1. d \in Known /\ d \in Deployments /\ deps[d] \in Deployment /\ deps[d].status # "none"
      BY <1>2 DEF Known, TypeOK
    <2>2. Supersede(deps, d) = [deps EXCEPT ![d].status = "SUPERSEDED"]
      BY <1>2 DEF Supersede
    <2>3. /\ Supersede(deps, d) \in [Deployments -> Deployment]
          /\ Supersede(deps, d)[d].status = "SUPERSEDED"
          /\ \A e \in Deployments : e # d => Supersede(deps, d)[e] = deps[e]
      BY <2>1, <2>2 DEF TypeOK, Deployment
    <2> QED
      BY <2>1, <2>3
  <1> QED
    BY <1>1, <1>2

LEMMA DeployStep ==
    ASSUME RolloutInv, NEW d \in Deployments, Deploy(d)
    PROVE  RolloutInv'
  <1>1. TypeOK /\ active \in Known \cup {0} /\ UNCHANGED <<insts, tick, faults, revived>>
    BY DEF RolloutInv, PopulationOK, Deploy
  <1>2. PICK x \in Deployment : x = [NoDeployment EXCEPT !.status = "ACTIVE"]
    BY DEF NoDeployment, Deployment, RolloutStatuses
  <1>3. x.status = "ACTIVE"
    BY <1>2 DEF NoDeployment
  <1>4. PICK ds \in [Deployments -> Deployment] :
          /\ ds = Supersede(deps, active)
          /\ \A e \in Deployments : ds[e].status = "none" <=> deps[e].status = "none"
    BY <1>1, SupersedeFacts
  <1>5. deps' = [ds EXCEPT ![d] = x] /\ active' = d
    BY <1>2, <1>4 DEF Deploy
  <1>6. deps' \in [Deployments -> Deployment] /\ Known \subseteq Known' /\ d \in Known'
    BY <1>3, <1>4, <1>5 DEF Known
  <1>7. deploys' \in 0..MaxDeploys
    BY <1>1, RolloutAssumption DEF Deploy, TypeOK
  <1>8. TypeOK'
    BY <1>1, <1>5, <1>6, <1>7 DEF TypeOK
  <1> QED
    BY <1>1, <1>5, <1>6, <1>8, AsideStep

LEMMA RollbackStep ==
    ASSUME RolloutInv, NEW d \in Deployments, NEW force \in BOOLEAN, RollbackApp(d, force)
    PROVE  RolloutInv'
  <1>1. /\ TypeOK /\ active \in Known \cup {0} /\ UNCHANGED <<insts, tick, faults, revived>>
        /\ d \in Known
    BY DEF RolloutInv, PopulationOK, RollbackApp
  <1>2. PICK ds \in [Deployments -> Deployment] :
          /\ ds = IF d = active THEN deps ELSE Supersede(deps, active)
          /\ \A e \in Deployments : ds[e].status = "none" <=> deps[e].status = "none"
    BY <1>1, SupersedeFacts DEF TypeOK
  <1>3. deps' = [ds EXCEPT ![d].status = "ACTIVE", ![d].rollout = "PENDING"] /\ active' = d
    BY <1>2 DEF RollbackApp
  <1>4. deps' \in [Deployments -> Deployment]
    <2>1. ds[d] \in Deployment
      OBVIOUS
    <2>2. [ds[d] EXCEPT !.status = "ACTIVE", !.rollout = "PENDING"] \in Deployment
      BY <2>1 DEF Deployment, RolloutStatuses
    <2>3. deps' = [ds EXCEPT ![d] = [ds[d] EXCEPT !.status = "ACTIVE", !.rollout = "PENDING"]]
      BY <1>3
    <2> QED
      BY <2>2, <2>3
  <1>5. /\ deps'[d].status = "ACTIVE" /\ \A e \in Deployments : e # d => deps'[e] = ds[e]
    BY <1>3 DEF Deployment
  <1>6. Known \subseteq Known' /\ d \in Known'
    BY <1>2, <1>5 DEF Known
  <1>7. deploys' \in 0..MaxDeploys
    BY <1>1, RolloutAssumption DEF RollbackApp, TypeOK
  <1>8. TypeOK'
    BY <1>1, <1>3, <1>4, <1>7 DEF TypeOK
  <1> QED
    BY <1>1, <1>3, <1>6, <1>8, AsideStep

LEMMA ResetStep ==
    ASSUME RolloutInv, NEW d \in Deployments, ResetCrashCounter(d)
    PROVE  RolloutInv'
  <1>1. /\ TypeOK /\ active \in Known \cup {0}
        /\ UNCHANGED <<insts, active, tick, faults, deploys, revived>>
        /\ deps \in [Deployments -> Deployment] /\ deps[d] \in Deployment
    BY DEF RolloutInv, PopulationOK, TypeOK, ResetCrashCounter
  <1>2. PICK x \in Deployment : x = [deps[d] EXCEPT !.crashes = 0]
    BY <1>1 DEF Deployment
  <1>3. x.status = deps[d].status /\ deps' = [deps EXCEPT ![d] = x]
    BY <1>1, <1>2 DEF Deployment, ResetCrashCounter
  <1>4. deps' \in [Deployments -> Deployment] /\ Known' = Known
    BY <1>1, <1>3 DEF Known
  <1>5. TypeOK'
    BY <1>1, <1>4 DEF TypeOK
  <1> QED
    BY <1>1, <1>4, <1>5, AsideStep

\* The tick keeps its plan; it may carry out a decision about i and change its
\* history.
SamePlan(i) ==
    /\ tick' \in Tick
    /\ tick'.active = tick.active /\ tick'.degraded = tick.degraded
    /\ tick'.plain = tick.plain /\ (tick'.enough => tick.enough)
    /\ tick'.target = tick.target /\ tick'.scale = tick.scale
    /\ tick'.todo \subseteq tick.todo
    /\ \A j \in Instances : (j \in Drains /\ j # i) => j \in Drains'

\* Only i changes, if anything, and nothing else that the instances depend on.
OnlyInstance(i) ==
    /\ insts'[i] \in Instance /\ insts' = [insts EXCEPT ![i] = insts'[i]]
    /\ deps' \in [Deployments -> Deployment] /\ Known' = Known /\ active' = active
    /\ faults' \in 0..MaxFaults /\ deploys' = deploys /\ revived' \in {revived, revived + 1}

\* Instance x may become y: it does not enter service, nor change its owner, and
\* returns only if counted.
MayBecome(x, y, counted) ==
    /\ y.phase # "none" => x.phase # "none" /\ y.dep = x.dep
    /\ y.phase # "none" /\ x.drain # "nil" => y.drain # "nil"
    /\ y.phase = "stopping" => y.drain # "nil"
    /\ y.phase \in {"starting", "ready"} =>
          x.phase \in {"starting", "ready"} \/ (counted /\ y.drain # "nil")
    /\ (y.phase # "none" /\ y.drain = "nil") => x.phase \in {"starting", "ready"}

\* A step that changes one instance.
LEMMA OneInstanceStep ==
    ASSUME RolloutInv, NEW i \in Instances, SamePlan(i), OnlyInstance(i),
           MayBecome(insts[i], insts'[i], revived' = revived + 1),
           (insts'[i].phase # "none" /\ insts'[i].drain = "nil" /\ i \in Drains) => i \in Drains',
           (tick'.enough /\ insts[i].phase = "ready" /\ insts[i].drain = "nil" /\ i \notin Drains) =>
               insts'[i].phase = "ready" /\ insts'[i].drain = "nil"
    PROVE  RolloutInv'
  <1>1. /\ TypeOK /\ PopulationOK /\ active \in Known \cup {0}
        /\ insts \in [Instances -> Instance] /\ insts[i] \in Instance /\ revived \in Nat
    BY DEF RolloutInv, TypeOK, PopulationOK
  <1>2. PICK x \in Instance : /\ x = insts'[i] /\ insts' = [insts EXCEPT ![i] = x]
    BY DEF OnlyInstance
  <1>3. insts' \in [Instances -> Instance] /\ insts'[i] = x
        /\ \A j \in Instances : j # i => insts'[j] = insts[j]
    BY <1>1, <1>2
  <1>4. MayBecome(insts[i], x, revived' = revived + 1)
    BY <1>2
  <1>5. TypeOK' /\ active' \in Known' \cup {0} /\ Known \subseteq Known'
    <2>1. revived' \in Nat
      BY <1>1 DEF OnlyInstance
    <2> QED
      BY <1>1, <1>3, <2>1 DEF TypeOK, SamePlan, OnlyInstance
  <1>6. \A j \in Instances : insts'[j].phase # "none" =>
               insts[j].phase # "none" /\ insts'[j].dep = insts[j].dep
    BY <1>3, <1>4 DEF MayBecome
  <1>7. \A j \in Instances : insts'[j].phase = "stopping" => insts'[j].drain # "nil"
    BY <1>1, <1>3, <1>4 DEF PopulationOK, Draining, MayBecome
  <1>8. \A j \in Instances : <<"stop", j>> \in tick'.todo =>
               insts'[j].phase = "none" \/ insts'[j].drain # "nil"
    <2> SUFFICES ASSUME NEW j \in Instances, <<"stop", j>> \in tick'.todo
                 PROVE  insts'[j].phase = "none" \/ insts'[j].drain # "nil"
      OBVIOUS
    <2>1. insts[j].phase = "none" \/ insts[j].drain # "nil"
      BY <1>1 DEF SamePlan, PopulationOK, Draining
    <2>2. CASE j = i
      BY <2>1, <2>2, <1>3, <1>4 DEF MayBecome
    <2>3. CASE j # i
      BY <2>1, <2>3, <1>3
    <2> QED
      BY <2>2, <2>3
  <1>9. \A j \in Instances : Viable(j)' => Viable(j) \/ (j = i /\ revived' = revived + 1)
    BY <1>3, <1>4 DEF Viable, MayBecome
  <1>10. \A j \in Instances : (Viable(j)' /\ ~Draining(j)' /\ j \notin Drains') =>
               (Viable(j) /\ ~Draining(j) /\ j \notin Drains)
    <2> SUFFICES ASSUME NEW j \in Instances, Viable(j)', ~Draining(j)', j \notin Drains'
                 PROVE  Viable(j) /\ ~Draining(j) /\ j \notin Drains
      OBVIOUS
    <2>1. CASE j = i
      BY <2>1, <1>3, <1>4 DEF Viable, Draining, MayBecome
    <2>2. CASE j # i
      BY <2>2, <1>3 DEF Viable, Draining, SamePlan
    <2> QED
      BY <2>1, <2>2
  <1>11. tick'.enough => \A j \in Instances : (Ready(j) /\ ~Draining(j) /\ j \notin Drains) =>
               (Ready(j)' /\ ~Draining(j)' /\ j \notin Drains' /\ insts'[j].dep = insts[j].dep)
    <2> SUFFICES ASSUME tick'.enough, NEW j \in Instances, Ready(j), ~Draining(j), j \notin Drains
                 PROVE  Ready(j)' /\ ~Draining(j)' /\ j \notin Drains' /\ insts'[j].dep = insts[j].dep
      OBVIOUS
    <2>1. j \notin Drains'
      BY DEF Drains, SamePlan
    <2>2. CASE j = i
      BY <2>1, <2>2, <1>3, <1>4 DEF Ready, Draining, MayBecome
    <2>3. CASE j # i
      BY <2>1, <2>3, <1>3 DEF Ready, Draining
    <2> QED
      BY <2>2, <2>3
  <1>12. revived' \in {revived, revived + 1}
    BY DEF OnlyInstance
  <1> QED
    BY <1>5, <1>6, <1>7, <1>8, <1>9, <1>10, <1>11, <1>12, QuietStep DEF SamePlan

LEMMA InstanceStep ==
    ASSUME RolloutInv, NEW i \in Instances,
           BecomesReady(i) \/ Stops(i) \/ DrainTimeoutPasses(i) \/ Revives(i)
    PROVE  RolloutInv'
  <1>1. /\ TypeOK /\ PopulationOK /\ UNCHANGED <<deps, active, tick, deploys>>
        /\ insts[i] \in Instance /\ insts \in [Instances -> Instance]
        /\ deps \in [Deployments -> Deployment] /\ Known' = Known
        /\ tick \in Tick /\ faults \in 0..MaxFaults /\ MaxFaults \in Nat
    BY RolloutAssumption DEF RolloutInv, TypeOK, BecomesReady, Stops, DrainTimeoutPasses, Revives, Known
  <1>2. SamePlan(i) /\ Drains' = Drains
    BY <1>1 DEF SamePlan, Drains
  <1>3. insts[i].phase = "stopping" => insts[i].drain # "nil"
    BY <1>1 DEF PopulationOK, Draining
  <1>4. CASE BecomesReady(i)
    <2>1. /\ insts'[i] = [insts[i] EXCEPT !.phase = "ready"] /\ insts[i].phase = "starting"
          /\ insts' = [insts EXCEPT ![i] = insts'[i]] /\ revived' = revived /\ faults' = faults
      BY <1>1, <1>4 DEF BecomesReady
    <2>2. /\ insts'[i] \in Instance /\ insts'[i].phase = "ready"
          /\ insts'[i].dep = insts[i].dep /\ insts'[i].drain = insts[i].drain
      BY <1>1, <2>1 DEF Instance
    <2>3. OnlyInstance(i) /\ MayBecome(insts[i], insts'[i], revived' = revived + 1)
      BY <1>1, <2>1, <2>2 DEF OnlyInstance, MayBecome
    <2> QED
      BY <1>2, <2>1, <2>2, <2>3, OneInstanceStep
  <1>5. CASE Stops(i)
    <2>1. /\ insts'[i] = NoInstance /\ insts[i].phase = "stopping"
          /\ insts' = [insts EXCEPT ![i] = insts'[i]] /\ revived' = revived /\ faults' = faults
      BY <1>1, <1>5 DEF Stops
    <2>2. insts'[i] \in Instance /\ insts'[i].phase = "none"
      BY <2>1 DEF NoInstance, Instance
    <2>3. OnlyInstance(i) /\ MayBecome(insts[i], insts'[i], revived' = revived + 1)
      BY <1>1, <2>1, <2>2 DEF OnlyInstance, MayBecome
    <2> QED
      BY <1>2, <2>1, <2>2, <2>3, OneInstanceStep
  <1>6. CASE DrainTimeoutPasses(i)
    <2>1. /\ insts'[i] = [insts[i] EXCEPT !.drain = "elapsed"] /\ insts[i].drain = "recent"
          /\ insts[i].phase \in {"starting", "ready"}
          /\ insts' = [insts EXCEPT ![i] = insts'[i]] /\ revived' = revived /\ faults' = faults
      BY <1>1, <1>6 DEF DrainTimeoutPasses, Viable
    <2>2. /\ insts'[i] \in Instance /\ insts'[i].phase = insts[i].phase
          /\ insts'[i].dep = insts[i].dep /\ insts'[i].drain = "elapsed"
      BY <1>1, <2>1 DEF Instance
    <2>3. OnlyInstance(i) /\ MayBecome(insts[i], insts'[i], revived' = revived + 1)
      BY <1>1, <2>1, <2>2 DEF OnlyInstance, MayBecome
    <2> QED
      BY <1>2, <2>1, <2>2, <2>3, OneInstanceStep
  <1>7. CASE Revives(i)
    <2>1. PICK p \in {"starting", "ready"} : insts' = [insts EXCEPT ![i].phase = p]
      BY <1>7 DEF Revives
    <2>2. /\ insts'[i] = [insts[i] EXCEPT !.phase = p] /\ insts[i].phase = "stopping"
          /\ insts' = [insts EXCEPT ![i] = insts'[i]] /\ revived' = revived + 1
      BY <1>1, <1>7, <2>1 DEF Revives
    <2>3. faults' \in 0..MaxFaults
      BY <1>1, <1>7 DEF Revives, Fault
    <2>4. /\ insts'[i] \in Instance /\ insts'[i].phase = p
          /\ insts'[i].dep = insts[i].dep /\ insts'[i].drain = insts[i].drain
      BY <1>1, <2>2 DEF Instance
    <2>5. OnlyInstance(i) /\ MayBecome(insts[i], insts'[i], revived' = revived + 1)
      BY <1>1, <1>3, <2>2, <2>3, <2>4 DEF OnlyInstance, MayBecome
    <2> QED
      BY <1>2, <1>3, <2>2, <2>4, <2>5, OneInstanceStep
  <1> QED
    BY <1>4, <1>5, <1>6, <1>7

LEMMA FailureStep ==
    ASSUME RolloutInv, NEW i \in Instances, NEW counted \in BOOLEAN,
           BecomesUnready(i) \/ Ends(i, counted)
    PROVE  RolloutInv'
  <1>1. /\ TypeOK /\ PopulationOK /\ UNCHANGED <<active, deploys, revived>>
        /\ insts[i] \in Instance /\ insts \in [Instances -> Instance]
        /\ deps \in [Deployments -> Deployment]
        /\ faults \in 0..MaxFaults /\ MaxFaults \in Nat /\ tick \in Tick
    BY RolloutAssumption DEF RolloutInv, TypeOK, BecomesUnready, Ends
  <1>2. tick' = [tick EXCEPT !.enough = FALSE] /\ faults' \in 0..MaxFaults
    BY <1>1 DEF BecomesUnready, Ends, Failure, Fault
  <1>3. SamePlan(i) /\ Drains' = Drains /\ ~tick'.enough
    BY <1>1, <1>2 DEF SamePlan, Drains, Tick
  <1>4. CASE BecomesUnready(i)
    <2>1. /\ insts'[i] = [insts[i] EXCEPT !.phase = "starting"] /\ insts[i].phase = "ready"
          /\ insts' = [insts EXCEPT ![i] = insts'[i]] /\ deps' = deps /\ Known' = Known
      BY <1>1, <1>4 DEF BecomesUnready, Ready, Known
    <2>2. /\ insts'[i] \in Instance /\ insts'[i].phase = "starting"
          /\ insts'[i].dep = insts[i].dep /\ insts'[i].drain = insts[i].drain
      BY <1>1, <2>1 DEF Instance
    <2>3. OnlyInstance(i) /\ MayBecome(insts[i], insts'[i], revived' = revived + 1)
      BY <1>1, <1>2, <2>1, <2>2 DEF OnlyInstance, MayBecome
    <2> QED
      BY <1>3, <2>3, OneInstanceStep
  <1>5. CASE Ends(i, counted)
    <2>1. insts'[i] = NoInstance /\ insts' = [insts EXCEPT ![i] = insts'[i]]
      BY <1>1, <1>5 DEF Ends
    <2>2. insts'[i] \in Instance /\ insts'[i].phase = "none"
      BY <2>1 DEF NoInstance, Instance
    <2>3. PICK d \in Known : d = insts[i].dep
      BY <1>1, <1>5 DEF PopulationOK, Ends, Viable
    <2>4. d \in Deployments /\ deps[d] \in Deployment /\ deps[d].crashes \in Nat
      BY <1>1 DEF Known, Deployment
    <2>5. PICK x \in Deployment :
            x = [deps[d] EXCEPT !.crashes = @ + 1,
                                !.degraded = @ \/ deps[d].crashes + 1 >= CrashLimit]
      <3>1. deps[d].crashes + 1 \in Nat
        BY <2>4
      <3>2. (deps[d].degraded \/ deps[d].crashes + 1 >= CrashLimit) \in BOOLEAN
        OBVIOUS
      <3> QED
        BY <2>4, <3>1, <3>2 DEF Deployment
    <2>6. x.status = deps[d].status
      BY <2>4, <2>5 DEF Deployment
    <2>7. deps' \in {deps, [deps EXCEPT ![d] = x]}
      BY <1>1, <1>5, <2>3, <2>4, <2>5 DEF Ends
    <2>8. deps' \in [Deployments -> Deployment] /\ Known' = Known
      BY <1>1, <2>6, <2>7 DEF Known
    <2>9. OnlyInstance(i) /\ MayBecome(insts[i], insts'[i], revived' = revived + 1)
      BY <1>1, <1>2, <2>1, <2>2, <2>8 DEF OnlyInstance, MayBecome
    <2> QED
      BY <1>3, <2>9, OneInstanceStep
  <1> QED
    BY <1>4, <1>5

LEMMA DoStep ==
    ASSUME RolloutInv, NEW op \in {"drain", "stop"}, NEW i \in Instances, Do(op, i)
    PROVE  RolloutInv'
  <1>1. /\ TypeOK /\ PopulationOK /\ UNCHANGED <<deps, active, faults, deploys, revived>>
        /\ insts[i] \in Instance /\ insts \in [Instances -> Instance]
        /\ deps \in [Deployments -> Deployment] /\ Known' = Known
        /\ faults \in 0..MaxFaults /\ tick \in Tick
    BY DEF RolloutInv, TypeOK, Do, Known
  <1>2. /\ tick' = [tick EXCEPT !.todo = tick.todo \ {<<op, i>>}]
        /\ <<op, i>> \in tick.todo
    BY <1>1 DEF Do
  <1>3. /\ tick' \in Tick /\ tick'.todo = tick.todo \ {<<op, i>>}
        /\ tick'.active = tick.active /\ tick'.degraded = tick.degraded
        /\ tick'.plain = tick.plain /\ tick'.enough = tick.enough
        /\ tick'.target = tick.target /\ tick'.scale = tick.scale
    BY <1>1, <1>2 DEF Tick
  <1>4. \A j \in Instances : j # i => <<"drain", j>> # <<op, i>>
    OBVIOUS
  <1>5. SamePlan(i)
    BY <1>3, <1>4 DEF SamePlan, Drains
  <1>6. /\ insts[i].phase = "stopping" => insts[i].drain # "nil"
        /\ <<"stop", i>> \in tick.todo => insts[i].phase = "none" \/ insts[i].drain # "nil"
    BY <1>1 DEF PopulationOK, Draining
  <1>7. /\ insts' = [insts EXCEPT ![i] = insts'[i]]
        /\ insts'[i] = IF op = "drain" THEN MarkDraining(insts[i]) ELSE Stopping(insts[i])
    BY <1>1 DEF Do
  <1>8. CASE op = "drain"
    <2>1. insts'[i] = MarkDraining(insts[i]) /\ i \in Drains
      BY <1>2, <1>7, <1>8 DEF Drains
    <2>2. /\ insts'[i] \in Instance /\ insts'[i].phase = insts[i].phase
          /\ insts'[i].dep = insts[i].dep
          /\ insts[i].phase # "none" => insts'[i].drain # "nil"
      BY <1>1, <2>1 DEF MarkDraining, Instance
    <2>3. OnlyInstance(i) /\ MayBecome(insts[i], insts'[i], revived' = revived + 1)
      BY <1>1, <1>6, <1>7, <2>2 DEF OnlyInstance, MayBecome
    <2> QED
      BY <1>5, <2>1, <2>2, <2>3, OneInstanceStep
  <1>9. CASE op = "stop"
    <2>1. insts'[i] = Stopping(insts[i]) /\ <<"stop", i>> \in tick.todo
      BY <1>2, <1>7, <1>9
    <2>2. /\ insts'[i] \in Instance
          /\ insts'[i].phase = IF insts[i].phase = "none" THEN "none" ELSE "stopping"
          /\ insts'[i].dep = insts[i].dep /\ insts'[i].drain = insts[i].drain
      BY <1>1, <2>1 DEF Stopping, Instance
    <2>3. OnlyInstance(i) /\ MayBecome(insts[i], insts'[i], revived' = revived + 1)
      BY <1>1, <1>6, <1>7, <2>1, <2>2 DEF OnlyInstance, MayBecome
    <2> QED
      BY <1>5, <1>6, <2>1, <2>2, <2>3, OneInstanceStep
  <1> QED
    BY <1>8, <1>9

-----------------------------------------------------------------------------
(* Converging one deployment.                                              *)

\* The viable instances of d that a scale-down stops before i.
BeforeIn(d) == [i \in ViableOf(d) |-> {j \in ViableOf(d) : StopsBefore(j, i)}]

\* The sort order is a strict total order; draining instances come first, those
\* that serve last.
LEMMA OrderFacts ==
    ASSUME NEW d
    PROVE  /\ BeforeIn(d) \in [ViableOf(d) -> SUBSET ViableOf(d)]
           /\ \A i \in ViableOf(d) : i \notin BeforeIn(d)[i]
           /\ \A i, j \in ViableOf(d) :
                 j \in BeforeIn(d)[i] => BeforeIn(d)[j] \subseteq BeforeIn(d)[i]
           /\ \A i, j \in ViableOf(d) : i # j => i \in BeforeIn(d)[j] \/ j \in BeforeIn(d)[i]
           /\ \A i \in ViableOf(d) \cap Serving, j \in ViableOf(d) \ Serving :
                 j \in BeforeIn(d)[i]
           /\ \A i, j \in ViableOf(d) : ~Draining(i) /\ Draining(j) => j \in BeforeIn(d)[i]
  <1>1. \A i \in ViableOf(d) : i \in Nat /\ i \in Instances
    BY RolloutAssumption DEF ViableOf, Of
  <1>2. \A i \in ViableOf(d) : ~StopsBefore(i, i)
    BY <1>1 DEF StopsBefore
  <1>3. \A i, j, k \in ViableOf(d) :
            StopsBefore(k, j) /\ StopsBefore(j, i) => StopsBefore(k, i)
    BY <1>1 DEF StopsBefore, Draining, Ready
  <1>4. \A i, j \in ViableOf(d) : i # j => StopsBefore(i, j) \/ StopsBefore(j, i)
    BY <1>1 DEF StopsBefore, Draining, Ready
  <1>5. \A i \in ViableOf(d) \cap Serving, j \in ViableOf(d) \ Serving : StopsBefore(j, i)
    BY <1>1 DEF StopsBefore, Serving, Draining, Ready
  <1>6. \A i, j \in ViableOf(d) : ~Draining(i) /\ Draining(j) => StopsBefore(j, i)
    BY DEF StopsBefore
  <1> QED
    BY <1>2, <1>3, <1>4, <1>5, <1>6 DEF BeforeIn

LEMMA VictimFacts ==
    ASSUME NEW d, NEW k
    PROVE  /\ Victims(d, k) \in SUBSET ViableOf(d)
           /\ \A i \in ViableOf(d) : i \in Victims(d, k) <=> Cardinality(BeforeIn(d)[i]) < k
  BY DEF Victims, BeforeIn

\* What is not chosen is no more than what should stay.
LEMMA FewStay ==
    ASSUME NEW d, NEW k \in Int, k <= Cardinality(ViableOf(d)),
           NEW N \in SUBSET ViableOf(d), N \cap Victims(d, k) = {}
    PROVE  Cardinality(N) <= Cardinality(ViableOf(d)) - k
  <1>1. IsFiniteSet(ViableOf(d)) /\ Cardinality(ViableOf(d)) \in Nat
    BY CountsAreNat
  <1>2. CASE N = {}
    <2>1. Cardinality(N) = 0
      BY <1>2, FS_EmptySet
    <2> QED
      BY <1>1, <2>1
  <1>3. CASE N # {}
    <2>1. \A i \in N : ~(Cardinality(BeforeIn(d)[i]) < k)
      BY VictimFacts
    <2> QED
      BY <1>1, <1>3, <2>1, OrderFacts, FewSurvive
  <1> QED
    BY <1>2, <1>3

\* Draining instances go first: if those in service are no more than what should
\* stay, none of them is chosen.
LEMMA DrainingFirst ==
    ASSUME NEW d, NEW k \in Int, NEW S \in SUBSET ViableOf(d),
           S = {i \in ViableOf(d) : ~Draining(i)},
           Cardinality(S) <= Cardinality(ViableOf(d)) - k
    PROVE  S \cap Victims(d, k) = {}
  <1> SUFFICES ASSUME NEW i \in S, i \in Victims(d, k) PROVE FALSE
    OBVIOUS
  <1> DEFINE V == ViableOf(d)
  <1>1. V \in SUBSET Instances /\ S \in SUBSET V /\ V \cap S = S /\ IsFiniteSet(V)
    BY SetsOfInstances, CountsAreNat
  <1>2. IsFiniteSet(V \ S) /\ Cardinality(V \ S) = Cardinality(V) - Cardinality(V \cap S)
    BY <1>1, FS_Difference
  <1>3. (V \ S) \in SUBSET BeforeIn(d)[i] /\ BeforeIn(d)[i] \in SUBSET Instances
    BY <1>1, OrderFacts
  <1>4. /\ Cardinality(V \ S) <= Cardinality(BeforeIn(d)[i])
        /\ Cardinality(BeforeIn(d)[i]) \in Nat /\ Cardinality(V \ S) \in Nat
    BY <1>3, SubsetCounts
  <1>5. Cardinality(S) \in Nat /\ Cardinality(V) \in Nat
    BY <1>1, SubsetCounts
  <1>6. Cardinality(BeforeIn(d)[i]) < k
    BY VictimFacts
  <1> QED
    BY <1>1, <1>2, <1>4, <1>5, <1>6

\* Those that serve go last: all of them stay, or as many as should.
LEMMA ServingLast ==
    ASSUME NEW d, NEW k \in Int, NEW S \in SUBSET ViableOf(d), S = ViableOf(d) \cap Serving
    PROVE  Cardinality(S \ Victims(d, k)) >= Smaller(Cardinality(S), Cardinality(ViableOf(d)) - k)
  <1> DEFINE V == ViableOf(d)
             W == S \cap Victims(d, k)
  <1>1. V \in SUBSET Instances /\ S \in SUBSET V /\ V \cap S = S /\ IsFiniteSet(V)
        /\ S \in SUBSET Instances
    BY SetsOfInstances, CountsAreNat
  <1>2. /\ Cardinality(S) \in Nat /\ Cardinality(V) \in Nat /\ IsFiniteSet(S)
    BY <1>1, InstancesFinite
  <1>3. CASE W = {}
    <2>1. S \ Victims(d, k) = S
      BY <1>3
    <2> QED
      BY <1>2, <2>1 DEF Smaller
  <1>4. CASE W # {}
    <2>1. W \in SUBSET S /\ \A i \in W : Cardinality(BeforeIn(d)[i]) < k
      BY <1>1, VictimFacts
    <2>2. /\ BeforeIn(d) \in [V -> SUBSET V]
          /\ \A i \in V : i \notin BeforeIn(d)[i]
          /\ \A i, j \in V : j \in BeforeIn(d)[i] => BeforeIn(d)[j] \subseteq BeforeIn(d)[i]
          /\ \A i, j \in V : i # j => i \in BeforeIn(d)[j] \/ j \in BeforeIn(d)[i]
          /\ \A i \in S, j \in V \ S : j \in BeforeIn(d)[i]
      BY <1>1, OrderFacts
    <2>3. S \ Victims(d, k) = S \ W /\ S \cap W = W
      OBVIOUS
    <2> HIDE DEF V, W
    <2>4. Cardinality(W) <= k - Cardinality(V \ S)
      BY <1>1, <1>4, <2>1, <2>2, FewOfTheLast
    <2>5. IsFiniteSet(V \ S) /\ Cardinality(V \ S) = Cardinality(V) - Cardinality(V \cap S)
      BY <1>1, FS_Difference
    <2>6. IsFiniteSet(W) /\ IsFiniteSet(S \ W) /\ Cardinality(S \ W) = Cardinality(S) - Cardinality(S \cap W)
      BY <1>2, <2>1, FS_Subset, FS_Difference
    <2>7. Cardinality(W) \in Nat /\ Cardinality(V \ S) \in Nat /\ Cardinality(S \ W) \in Nat
      BY <2>5, <2>6, FS_CardinalityType
    <2>71. Cardinality(V \ S) = Cardinality(V) - Cardinality(S)
      BY <1>1, <2>5
    <2>72. Cardinality(S \ W) = Cardinality(S) - Cardinality(W)
      BY <2>3, <2>6
    <2>73. Cardinality(S \ W) >= Cardinality(V) - k
      BY <1>2, <2>4, <2>7, <2>71, <2>72
    <2>8. Cardinality(S \ Victims(d, k)) >= Cardinality(V) - k
      BY <2>3, <2>73
    <2>9. Cardinality(S \ Victims(d, k)) \in Nat
      BY <2>3, <2>7
    <2> QED
      BY <1>2, <2>8, <2>9 DEF Smaller, V
  <1> QED
    BY <1>3, <1>4

\* The decisions about the chosen: those in service are drained, the others are
\* left or stopped.
Decisions(V) == UNION {Retire(i) : i \in V}

LEMMA RetireFacts ==
    ASSUME TypeOK, NEW V \in SUBSET Instances, NEW todo, todo = Decisions(V)
    PROVE  /\ todo \in SUBSET ({"drain", "stop"} \X Instances)
           /\ \A i \in Instances : <<"drain", i>> \in todo <=> i \in V /\ ~Draining(i)
           /\ \A i \in Instances : <<"stop", i>> \in todo => i \in V /\ Draining(i)
  <1>1. \A i \in Instances : insts[i].drain \in {"nil", "recent", "elapsed"}
    BY DEF TypeOK, Instance
  <1>2. \A i \in Instances :
          /\ insts[i].drain = "nil" => Retire(i) = {<<"drain", i>>}
          /\ insts[i].drain = "recent" => Retire(i) = {}
          /\ insts[i].drain = "elapsed" => Retire(i) = {<<"stop", i>>}
    BY <1>1 DEF Retire
  <1>3. todo \in SUBSET ({"drain", "stop"} \X Instances)
    <2> SUFFICES ASSUME NEW i \in V, NEW t \in Retire(i)
                 PROVE  t \in {"drain", "stop"} \X Instances
      BY DEF Decisions
    <2> QED
      BY <1>1, <1>2
  <1>4. ASSUME NEW i \in Instances
        PROVE  <<"drain", i>> \in todo <=> i \in V /\ ~Draining(i)
    <2>1. ASSUME <<"drain", i>> \in todo PROVE i \in V /\ ~Draining(i)
      <3>1. PICK j \in V : <<"drain", i>> \in Retire(j)
        BY <2>1 DEF Decisions
      <3> QED
        BY <1>1, <1>2, <3>1 DEF Draining
    <2>2. ASSUME i \in V, ~Draining(i) PROVE <<"drain", i>> \in todo
      BY <1>2, <2>2 DEF Draining, Decisions
    <2> QED
      BY <2>1, <2>2
  <1>5. ASSUME NEW i \in Instances, <<"stop", i>> \in todo PROVE i \in V /\ Draining(i)
    <2>1. PICK j \in V : <<"stop", i>> \in Retire(j)
      BY <1>5 DEF Decisions
    <2> QED
      BY <1>1, <1>2, <2>1 DEF Draining
  <1> QED
    BY <1>3, <1>4, <1>5

LEMMA ScaleStep ==
    ASSUME RolloutInv, NEW d \in Deployments, Scale(d)
    PROVE  RolloutInv'
  <1> DEFINE V == ViableOf(d)
             t == tick.target[d]
             k == Cardinality(V) - t
  <1>1. /\ TypeOK /\ PopulationOK /\ PlanOK /\ KeptOK /\ AvailabilityOK
        /\ UNCHANGED <<deps, active, faults, deploys, revived>>
        /\ tick.todo = {} /\ d \in tick.scale /\ tick \in Tick
        /\ insts \in [Instances -> Instance]
    BY DEF RolloutInv, TypeOK, Scale, ComesNext
  <1>2. /\ t \in Nat /\ Cardinality(V) \in Nat /\ k \in Int /\ revived \in Nat
        /\ V \in SUBSET Instances /\ Replicas[d] \in Nat
    BY <1>1, TickFields, CountsAreNat, SetsOfInstances, LimitsAreNat
  <1>3. PICK new \in SUBSET Unused :
          /\ Cardinality(new) = Smaller(NotNegative(t - Cardinality(V)), Cardinality(Unused))
          /\ insts' = [i \in Instances |->
                IF i \in new THEN [dep |-> d, phase |-> "starting", drain |-> "nil"]
                ELSE insts[i]]
    BY DEF Scale
  <1>4. /\ \A i \in new : insts'[i] = [dep |-> d, phase |-> "starting", drain |-> "nil"]
        /\ \A i \in Instances \ new : insts'[i] = insts[i]
        /\ \A i \in new : i \in Instances /\ insts[i].phase = "none"
        /\ new \in SUBSET Instances
    BY <1>3 DEF Unused
  <1>5. Cardinality(new) \in Nat /\ Cardinality(new) <= NotNegative(t - Cardinality(V))
    <2>1. Cardinality(Unused) \in Nat
      BY CountsAreNat
    <2> QED
      BY <1>2, <1>3, <2>1 DEF Smaller, NotNegative
  <1> DEFINE todo == UNION {Retire(i) : i \in Victims(d, -(t - Cardinality(V)))}
  <1>6. tick' = [tick EXCEPT !.scale = tick.scale \ {d}, !.todo = todo]
    BY <1>1 DEF Scale
  <1>7. -(t - Cardinality(V)) = k
    BY <1>2
  <1>8. Victims(d, k) \in SUBSET V /\ Victims(d, k) \in SUBSET Instances
    BY <1>2, VictimFacts
  <1>9. /\ todo \in SUBSET ({"drain", "stop"} \X Instances)
        /\ \A i \in Instances : <<"drain", i>> \in todo <=> i \in Victims(d, k) /\ ~Draining(i)
        /\ \A i \in Instances : <<"stop", i>> \in todo => i \in Victims(d, k) /\ Draining(i)
    <2>1. todo = Decisions(Victims(d, k))
      BY <1>7 DEF Decisions
    <2> HIDE DEF todo
    <2> QED
      BY <1>1, <1>8, <2>1, RetireFacts
  <1> HIDE DEF todo, k
  <1>10. /\ tick' \in Tick /\ tick'.scale = tick.scale \ {d} /\ tick'.todo = todo
         /\ tick'.active = tick.active /\ tick'.degraded = tick.degraded
         /\ tick'.plain = tick.plain /\ tick'.enough = tick.enough
         /\ tick'.target = tick.target
    BY <1>1, <1>6, <1>9 DEF Tick
  <1>11. insts' \in [Instances -> Instance]
    <2>1. [dep |-> d, phase |-> "starting", drain |-> "nil"] \in Instance
      BY DEF Instance
    <2> QED
      BY <1>1, <1>3, <2>1
  <1>12. TypeOK' /\ Known' = Known
    BY <1>1, <1>10, <1>11 DEF TypeOK, Known
  <1>13. Drains = {} /\ \A i \in Instances : i \in Drains' <=> i \in Victims(d, k) /\ ~Draining(i)
    BY <1>1, <1>9, <1>10 DEF Drains
  <1>14. \A i \in V : i \notin new /\ insts'[i] = insts[i] /\ insts[i].dep = d /\ Viable(i)
    BY <1>4 DEF ViableOf, Of, Viable
  <1>15. /\ \A i \in Instances \ new : (Viable(i)' <=> Viable(i)) /\ (Draining(i)' <=> Draining(i))
                                       /\ (Ready(i)' <=> Ready(i))
         /\ \A i \in new : Viable(i)' /\ ~Draining(i)' /\ ~Ready(i)' /\ insts'[i].dep = d
    BY <1>4 DEF Viable, Draining, Ready
  <1>16. ViableOf(d)' = V \cup new /\ V \cap new = {}
    BY <1>4, <1>14, <1>15 DEF ViableOf, Of
  <1>17. ASSUME NEW e, e # d
         PROVE  /\ ViableOf(e)' = ViableOf(e) /\ Kept(e)' = Kept(e)
                /\ KeptServing(e)' = KeptServing(e) /\ Counted(e)' = Counted(e)
    <2>1. ViableOf(e)' = ViableOf(e)
      BY <1>4, <1>15, <1>17 DEF ViableOf, Of, Viable
    <2>2. \A i \in ViableOf(e) : i \in Instances /\ i \notin new /\ i \notin V
      BY <1>4, <1>17 DEF ViableOf, Of, Viable
    <2>3. \A i \in ViableOf(e) : i \notin Drains' /\ i \notin Drains
      BY <1>8, <1>13, <2>2
    <2>4. Kept(e)' = Kept(e)
      BY <1>15, <2>1, <2>2, <2>3 DEF Kept
    <2>5. KeptServing(e)' = KeptServing(e)
      BY <1>15, <2>2, <2>4 DEF KeptServing, Kept
    <2>6. Counted(e)' = Counted(e)
      BY <1>10, <1>17, <2>5 DEF Counted
    <2> QED
      BY <2>1, <2>4, <2>5, <2>6
  <1>18. Kept(d) = {i \in V : ~Draining(i)}
    BY <1>13 DEF Kept
  <1>19. Kept(d)' = (Kept(d) \ Victims(d, k)) \cup new
    <2>1. ASSUME NEW i \in V PROVE i \in Kept(d)' <=> i \in Kept(d) /\ i \notin Victims(d, k)
      BY <1>2, <1>13, <1>14, <1>15, <1>16, <1>18 DEF Kept
    <2>2. ASSUME NEW i \in new PROVE i \in Kept(d)'
      BY <1>4, <1>8, <1>13, <1>14, <1>15, <1>16, <2>2 DEF Kept
    <2>3. Kept(d)' \subseteq V \cup new
      BY <1>16 DEF Kept
    <2> QED
      BY <1>18, <2>1, <2>2, <2>3
  <1>20. Cardinality(V) <= Replicas[d] + revived /\ t <= Replicas[d] + revived
    BY <1>1 DEF PopulationOK, PlanOK
  <1>21. Cardinality(ViableOf(d)') <= Replicas[d] + revived
    <2>1. Cardinality(V \cup new) <= Cardinality(V) + Cardinality(new)
          /\ Cardinality(V \cup new) \in Nat
      BY <1>2, <1>4, UnionCounts
    <2> QED
      BY <1>2, <1>5, <1>16, <1>20, <2>1 DEF NotNegative
  <1>22. Cardinality(Kept(d)') <= t
    <2> DEFINE N == Kept(d) \ Victims(d, k)
    <2>1. N \in SUBSET V /\ N \in SUBSET Instances /\ N \cap Victims(d, k) = {}
      BY <1>2, <1>18
    <2>2. CASE k <= 0
      <3>1. /\ Cardinality(N) <= Cardinality(V) /\ Cardinality(N) \in Nat
        BY <1>2, <2>1, SubsetCounts
      <3>2. Cardinality(N \cup new) <= Cardinality(N) + Cardinality(new)
            /\ Cardinality(N \cup new) \in Nat
        BY <1>4, <2>1, UnionCounts
      <3>3. Cardinality(new) <= t - Cardinality(V)
        BY <1>2, <1>5, <2>2 DEF k, NotNegative
      <3> HIDE DEF N
      <3>4. Cardinality(N \cup new) <= t
        BY <1>2, <1>5, <3>1, <3>2, <3>3
      <3> QED
        BY <1>19, <3>4 DEF N
    <2>3. CASE ~(k <= 0)
      <3>1. Cardinality(new) = 0 /\ k <= Cardinality(V)
        BY <1>2, <1>5, <2>3 DEF k, NotNegative
      <3>2. new = {}
        <4>1. IsFiniteSet(new)
          BY <1>4, InstancesFinite
        <4> QED
          BY <3>1, <4>1, FS_EmptySet
      <3>3. Cardinality(N) <= Cardinality(V) - k
        BY <1>2, <2>1, <3>1, FewStay
      <3>4. Cardinality(V) - k = t
        BY <1>2 DEF k
      <3> QED
        BY <1>19, <3>2, <3>3, <3>4
    <2> QED
      BY <1>2, <2>2, <2>3
  <1>23. PopulationOK'
    <2>1. \A i \in Instances : insts'[i].phase # "none" => insts'[i].dep \in Known
      BY <1>1, <1>4 DEF PopulationOK
    <2>2. \A i \in Instances : insts'[i].phase = "stopping" => Draining(i)'
      BY <1>1, <1>4, <1>15 DEF PopulationOK
    <2>3. \A i \in Instances : <<"stop", i>> \in tick'.todo => Draining(i)'
      BY <1>8, <1>9, <1>10, <1>14, <1>15
    <2>4. \A e \in Deployments : Cardinality(ViableOf(e)') <= Replicas[e] + revived
      BY <1>1, <1>17, <1>21 DEF PopulationOK
    <2> QED
      BY <1>1, <1>10, <1>12, <2>1, <2>2, <2>3, <2>4 DEF PopulationOK
  <1>24. PlanOK'
    <2>1. \A before \in [Deployments -> Nat] : AddsUp(before) => AddsUp(before)'
      BY <1>1, <1>10 DEF AddsUp, maxAllowedTotal
    <2> QED
      BY <1>1, <1>10, <2>1 DEF PlanOK
  <1>25. KeptOK'
    <2>1. ASSUME NEW e \in Deployments, e \notin tick'.scale \/ tick.degraded
          PROVE  Cardinality(Kept(e)') <= tick.target[e]
      <3>1. CASE e = d
        BY <1>22, <3>1
      <3>2. CASE e # d
        BY <1>1, <1>10, <1>17, <2>1, <3>2 DEF KeptOK
      <3> QED
        BY <3>1, <3>2
    <2>2. ASSUME tick.degraded PROVE Drains' = {}
      <3>1. Cardinality(Kept(d)) <= t
        BY <1>1, <2>2 DEF KeptOK
      <3>2. Cardinality(V) - k = t
        BY <1>2 DEF k
      <3>3. Kept(d) \cap Victims(d, k) = {}
        BY <1>2, <1>18, <3>1, <3>2, DrainingFirst
      <3> QED
        BY <1>8, <1>13, <1>18, <3>3 DEF Drains
    <2> QED
      BY <1>10, <2>1, <2>2 DEF KeptOK
  <1>26. Counted(d) \in Nat /\ Counted(d)' \in Nat /\ Counted(d) <= Counted(d)'
    <2> DEFINE S == KeptServing(d)
    <2>1. S = V \cap Serving /\ S \in SUBSET V
      BY <1>2, <1>18 DEF KeptServing, Serving, ViableOf, Viable, Ready
    <2>2. S \ Victims(d, k) \in SUBSET KeptServing(d)' /\ KeptServing(d)' \in SUBSET Instances
      <3>1. \A i \in S : i \in V /\ i \in Kept(d) /\ Ready(i)
        BY <1>18 DEF KeptServing
      <3>2. \A i \in S \ Victims(d, k) : i \in Kept(d)' /\ Ready(i)'
        BY <1>2, <1>14, <1>15, <1>19, <3>1
      <3> QED
        BY <1>2, <1>4, <1>16, <3>2 DEF KeptServing, Kept
    <2>3. Cardinality(S \ Victims(d, k)) >= Smaller(Cardinality(S), Cardinality(V) - k)
      BY <1>2, <2>1, ServingLast
    <2>4. Cardinality(V) - k = t
      BY <1>2 DEF k
    <2>5. /\ Cardinality(S \ Victims(d, k)) \in Nat /\ Cardinality(KeptServing(d)') \in Nat
          /\ Cardinality(S \ Victims(d, k)) <= Cardinality(KeptServing(d)')
      BY <2>2, SubsetCounts
    <2>6. Cardinality(S) \in Nat
      BY CountsAreNat
    <2>7. Counted(d) = Smaller(Cardinality(S), t) /\ Counted(d)' = Cardinality(KeptServing(d)')
      BY <1>1, <1>10 DEF Counted
    <2> HIDE DEF S
    <2> QED
      BY <1>2, <2>3, <2>4, <2>5, <2>6, <2>7 DEF Smaller
  <1>27. AvailabilityOK'
    <2> SUFFICES ASSUME tick'.plain, tick'.enough PROVE AvailabilityOK'
      BY DEF AvailabilityOK
    <2>1. PICK a \in Deployments : a = tick.active /\ a # 0
      BY <1>1, <1>10, TickFields DEF AvailabilityOK
    <2>2. PICK o \in (Deployments \cup {0}) \ {a} : Counted(a) + Counted(o) >= minAvailable(a)
      BY <1>1, <1>10, <2>1 DEF AvailabilityOK
    <2>3. ASSUME NEW e PROVE Counted(e) \in Nat /\ Counted(e)' \in Nat /\ Counted(e) <= Counted(e)'
      <3>1. CASE e = d
        BY <1>26, <3>1
      <3>2. CASE e # d
        BY <1>1, <1>17, <3>2, CountedNat
      <3> QED
        BY <3>1, <3>2
    <2>4. minAvailable(a) \in Nat
      BY LimitsAreNat
    <2>5. Counted(a)' + Counted(o)' >= minAvailable(a)
      BY <2>2, <2>3, <2>4
    <2> QED
      BY <1>10, <2>1, <2>5 DEF AvailabilityOK
  <1> QED
    BY <1>12, <1>23, <1>24, <1>25, <1>27 DEF RolloutInv

-----------------------------------------------------------------------------
(* Computing the targets.                                                  *)

LEMMA PlanNumbers ==
    ASSUME NEW a \in Deployments, a = active, NEW d
    PROVE  /\ activeViable \in Nat /\ activeReady \in Nat /\ oldViable \in Nat
           /\ OldTarget \in Nat /\ OldTarget <= oldViable /\ GivenBefore(d) \in Nat
           /\ Cardinality(ViableOf(d)) \in Nat
  <1>1. activeViable \in Nat /\ Cardinality(ViableOf(d)) \in Nat
    BY CountsAreNat DEF activeViable
  <1>2. activeReady \in Nat
    <2>1. {i \in Of(active) : Ready(i)} \in SUBSET Instances
      BY DEF Of
    <2> QED
      BY <2>1, InstancesFinite DEF activeReady
  <1>3. oldViable \in Nat
    <2>1. {i \in Instances : Viable(i) /\ insts[i].dep # active} \in SUBSET Instances
      OBVIOUS
    <2> QED
      BY <2>1, InstancesFinite DEF oldViable
  <1>4. GivenBefore(d) \in Nat
    <2>1. {i \in Instances : Viable(i) /\ insts[i].dep \in Old /\ insts[i].dep < d} \in SUBSET Instances
      OBVIOUS
    <2> QED
      BY <2>1, InstancesFinite DEF GivenBefore
  <1>5. OldTarget \in Nat /\ OldTarget <= oldViable
    <2>1. OldTarget = oldTargetTotal(a, activeViable, activeReady, oldViable)
      BY DEF OldTarget
    <2>2. /\ OldTarget \in Int /\ 0 <= OldTarget /\ OldTarget <= oldViable
      BY <1>1, <1>2, <1>3, <2>1, OldTargetRange
    <2> QED
      BY <2>2
  <1> QED
    BY <1>1, <1>2, <1>3, <1>4, <1>5

\* What is given to deployments in the order of ids adds up.
LEMMA GivenAddsUp ==
    ASSUME TypeOK, NEW d \in Deployments, NEW e \in Deployments, d < e
    PROVE  /\ GivenBefore(d) <= GivenBefore(e)
           /\ d \in Old => GivenBefore(d) + Cardinality(ViableOf(d)) <= GivenBefore(e)
  <1> DEFINE G(x) == {i \in Instances : Viable(i) /\ insts[i].dep \in Old /\ insts[i].dep < x}
  <1>1. \A i \in Instances : insts[i].dep \in Old => insts[i].dep \in Nat
    BY StrategyAssumption DEF Old, Known
  <1>2. d \in Nat /\ e \in Nat
    BY StrategyAssumption
  <1>3. G(d) \in SUBSET G(e) /\ G(e) \in SUBSET Instances /\ G(d) \in SUBSET Instances
    BY <1>1, <1>2
  <1>4. d \in Old => G(d) \cup ViableOf(d) \in SUBSET G(e) /\ G(d) \cap ViableOf(d) = {}
    BY <1>1, <1>2 DEF ViableOf, Of
  <1>5. GivenBefore(d) = Cardinality(G(d)) /\ GivenBefore(e) = Cardinality(G(e))
    BY DEF GivenBefore
  <1> HIDE DEF G
  <1>6. Cardinality(G(d)) <= Cardinality(G(e))
    BY <1>3, SubsetCounts
  <1>7. ASSUME d \in Old
        PROVE  Cardinality(G(d)) + Cardinality(ViableOf(d)) <= Cardinality(G(e))
    <2>1. Cardinality(G(d) \cup ViableOf(d)) = Cardinality(G(d)) + Cardinality(ViableOf(d))
      BY <1>3, <1>4, <1>7, UnionCounts, SetsOfInstances
    <2>2. Cardinality(G(d) \cup ViableOf(d)) <= Cardinality(G(e))
      BY <1>3, <1>4, <1>7, SubsetCounts
    <2> QED
      BY <2>1, <2>2
  <1> QED
    BY <1>5, <1>6, <1>7

\* The target of one deployment: while degraded what it has; otherwise an old
\* one gets what is left of the old total, the active one is never shrunk.
LEMMA TargetFacts ==
    ASSUME TypeOK, PopulationOK, NEW a \in Known, a = active, NEW d \in Known
    PROVE  /\ Target(d) \in Nat /\ Target(d) <= Replicas[d] + revived
           /\ deps[a].degraded => Target(d) = Cardinality(ViableOf(d))
           /\ d = a => Cardinality(ViableOf(d)) <= Target(d)
           /\ (~deps[a].degraded /\ d # a) =>
                 Target(d) = Smaller(Cardinality(ViableOf(d)), NotNegative(OldTarget - GivenBefore(d)))
           /\ ~deps[a].degraded => OldTarget + Target(a) <= maxAllowedTotal(a) + revived
  <1>1. a \in Deployments /\ d \in Deployments /\ revived \in Nat
    BY DEF Known, TypeOK
  <1>2. /\ activeViable \in Nat /\ activeReady \in Nat /\ oldViable \in Nat
        /\ OldTarget \in Nat /\ GivenBefore(d) \in Nat /\ Cardinality(ViableOf(d)) \in Nat
    BY <1>1, PlanNumbers
  <1>3. /\ Replicas[a] \in Nat /\ MaxSurge[a] \in Nat /\ maxAllowedTotal(a) = Replicas[a] + MaxSurge[a]
        /\ Replicas[d] \in Nat
    BY <1>1, LimitsAreNat DEF maxAllowedTotal
  <1>4. /\ Cardinality(ViableOf(d)) <= Replicas[d] + revived
        /\ activeViable <= Replicas[a] + revived
    BY <1>1 DEF PopulationOK, activeViable
  <1> DEFINE new == newActiveTarget(a, activeViable, OldTarget)
  <1>5. /\ activeViable <= new
        /\ OldTarget + new <= maxAllowedTotal(a) + revived
    <2>1. activeViable <= maxAllowedTotal(a) + revived
      BY <1>1, <1>2, <1>3, <1>4
    <2> QED
      BY <1>1, <1>2, <2>1, PlanWithinSurge DEF OldTarget
  <1>6. new \in Nat /\ new <= Replicas[a] + revived
    BY <1>1, <1>2, <1>3, <1>4 DEF newActiveTarget, Larger, Smaller
  <1> HIDE DEF new
  <1>7. CASE deps[a].degraded
    <2>1. Target(d) = Cardinality(ViableOf(d))
      BY <1>7 DEF Target
    <2> QED
      BY <1>2, <1>4, <1>7, <2>1
  <1>8. CASE ~deps[a].degraded /\ d = a
    <2>1. Target(d) = new /\ Cardinality(ViableOf(d)) = activeViable
      BY <1>8 DEF Target, activeViable, new
    <2> QED
      BY <1>2, <1>5, <1>6, <1>8, <2>1
  <1>9. CASE ~deps[a].degraded /\ d # a
    <2>1. Target(a) = new
      BY <1>9 DEF Target, new
    <2>2. Target(d) = Smaller(Cardinality(ViableOf(d)), NotNegative(OldTarget - GivenBefore(d)))
      BY <1>9 DEF Target
    <2>3. Target(d) \in Nat /\ Target(d) <= Cardinality(ViableOf(d))
      BY <1>2, <2>2 DEF Smaller, NotNegative
    <2> QED
      BY <1>1, <1>2, <1>3, <1>4, <1>5, <1>9, <2>1, <2>2, <2>3
  <1> QED
    BY <1>7, <1>8, <1>9

\* The targets of a tick satisfy the plan.
LEMMA PlanMade ==
    ASSUME TypeOK, PopulationOK, NEW a \in Known, a = active, tick'.active = a,
           tick'.degraded = deps[a].degraded, revived' = revived,
           tick'.target = [d \in Deployments |-> IF d \in Known THEN Target(d) ELSE 0]
    PROVE  PlanOK'
  <1> DEFINE T == tick'.target
             before == [d \in Deployments |-> Smaller(OldTarget, GivenBefore(d))]
             total == maxAllowedTotal(a) + revived
  <1>1. a \in Deployments /\ revived \in Nat /\ \A d \in Known : d \in Deployments
    BY DEF Known, TypeOK
  <1>2. /\ OldTarget \in Nat
        /\ \A d \in Deployments : GivenBefore(d) \in Nat /\ Cardinality(ViableOf(d)) \in Nat
    BY <1>1, PlanNumbers
  <1>3. \A d \in Deployments : Replicas[d] \in Nat /\ maxAllowedTotal(d) \in Nat
    BY LimitsAreNat
  <1>4. ASSUME NEW d \in Deployments PROVE T[d] \in Nat /\ T[d] <= Replicas[d] + revived
    <2>1. CASE d \in Known
      <3>1. T[d] = Target(d)
        BY <2>1
      <3> QED
        BY <2>1, <3>1, TargetFacts
    <2>2. CASE d \notin Known
      <3>1. T[d] = 0
        BY <2>2
      <3> QED
        BY <1>1, <1>3, <3>1
    <2> QED
      BY <2>1, <2>2
  <1>5. ASSUME ~deps[a].degraded
        PROVE  \E b \in [Deployments -> Nat] : AddsUp(b)'
    <2>1. T[a] = Target(a) /\ OldTarget + T[a] <= total /\ T[a] \in Nat /\ total \in Nat
      BY <1>1, <1>3, <1>4, <1>5, TargetFacts
    <2>2. ASSUME NEW d \in Deployments \ {a}
          PROVE  /\ before[d] \in Nat /\ before[d] = Smaller(OldTarget, GivenBefore(d))
                 /\ before[d] + T[d] <= OldTarget
                 /\ T[d] = IF d \in Known
                           THEN Smaller(Cardinality(ViableOf(d)), NotNegative(OldTarget - GivenBefore(d)))
                           ELSE 0
      <3>1. before[d] \in Nat /\ before[d] = Smaller(OldTarget, GivenBefore(d))
        BY <1>2 DEF Smaller
      <3>2. T[d] = IF d \in Known
                   THEN Smaller(Cardinality(ViableOf(d)), NotNegative(OldTarget - GivenBefore(d)))
                   ELSE 0
        BY <1>5, TargetFacts
      <3>3. before[d] + T[d] <= OldTarget
        <4> HIDE DEF T, before
        <4> QED
          BY <1>2, <3>1, <3>2 DEF Smaller, NotNegative
      <3> QED
        BY <3>1, <3>2, <3>3
    <2>3. ASSUME NEW d \in Deployments \ {a}, NEW e \in Deployments \ {a}, d < e
          PROVE  before[d] + T[d] <= before[e]
      <3>1. /\ GivenBefore(d) <= GivenBefore(e)
            /\ d \in Known => GivenBefore(d) + Cardinality(ViableOf(d)) <= GivenBefore(e)
        BY <2>3, GivenAddsUp DEF Old
      <3> DEFINE b == before[d]
                 c == before[e]
                 x == T[d]
      <3>2. /\ b = Smaller(OldTarget, GivenBefore(d)) /\ c = Smaller(OldTarget, GivenBefore(e))
            /\ x = IF d \in Known
                   THEN Smaller(Cardinality(ViableOf(d)), NotNegative(OldTarget - GivenBefore(d)))
                   ELSE 0
        BY <2>2
      <3> HIDE DEF b, c, x
      <3>3. b + x <= c
        BY <1>2, <3>1, <3>2 DEF Smaller, NotNegative
      <3> QED
        BY <3>3 DEF b, c, x
    <2>4. before \in [Deployments -> Nat]
      BY <1>2 DEF Smaller
    <2>5. ASSUME NEW d \in Deployments \ {a} PROVE before[d] + T[d] + T[a] <= total
      <3>1. before[d] \in Nat /\ before[d] + T[d] <= OldTarget /\ T[d] \in Nat
        BY <1>4, <2>2
      <3> HIDE DEF T, before, total
      <3> QED
        BY <1>2, <2>1, <3>1
    <2>6. T[a] <= total
      <3> HIDE DEF T, total
      <3> QED
        BY <1>2, <2>1
    <2>7. PICK b \in [Deployments -> Nat] : b = before
      BY <2>4
    <2> HIDE DEF before
    <2>8. /\ \A d \in Deployments \ {a} : b[d] + T[d] + T[a] <= total
          /\ \A d, e \in Deployments \ {a} : d < e => b[d] + T[d] <= b[e]
      BY <2>3, <2>5, <2>7
    <2>9. AddsUp(b)'
      BY <2>6, <2>8 DEF AddsUp, maxAllowedTotal
    <2> QED
      BY <2>9
  <1> QED
    BY <1>4, <1>5 DEF PlanOK

\* A plain update that found enough instances serving plans to keep enough.
LEMMA PlanAvailable ==
    ASSUME TypeOK, PopulationOK, NEW a \in Known, a = active,
           insts' = insts, tick'.active = a, tick'.scale = Known, tick'.todo = {},
           tick'.target = [d \in Deployments |-> IF d \in Known THEN Target(d) ELSE 0],
           PlainUpdate, Cardinality(Serving) >= minAvailable(a)
    PROVE  AvailabilityOK'
  <1> DEFINE SA == {i \in Serving : insts[i].dep = a}
             S == {i \in Serving : insts[i].dep # a}
  <1>1. a \in Deployments /\ a # 0 /\ 0 \notin Known
    BY StrategyAssumption DEF Known
  <1>2. ASSUME NEW d PROVE KeptServing(d)' = {i \in Serving : insts[i].dep = d}
    BY DEF KeptServing, Kept, ViableOf, Of, Viable, Ready, Draining, Drains, Serving
  <1>3. /\ SA \in SUBSET Instances /\ S \in SUBSET Instances
        /\ SA \cap S = {} /\ Serving = SA \cup S
    BY DEF Serving
  <1>4. /\ Cardinality(SA) \in Nat /\ Cardinality(S) \in Nat
        /\ Cardinality(Serving) = Cardinality(SA) + Cardinality(S)
    <2> HIDE DEF SA, S
    <2> QED
      BY <1>3, UnionCounts
  <1>5. SA \in SUBSET ViableOf(a) /\ ViableOf(a) \in SUBSET Instances
    BY SetsOfInstances DEF ViableOf, Of, Viable, Serving, Ready
  <1>6. Counted(a)' = Cardinality(SA)
    <2>1. Cardinality(SA) <= Cardinality(ViableOf(a))
      BY <1>5, SubsetCounts
    <2>2. Cardinality(ViableOf(a)) <= Target(a) /\ Target(a) \in Nat
      BY TargetFacts
    <2>3. Counted(a)' = Smaller(Cardinality(SA), Target(a))
      BY <1>1, <1>2 DEF Counted
    <2>4. Cardinality(ViableOf(a)) \in Nat
      BY CountsAreNat
    <2> HIDE DEF SA
    <2> QED
      BY <1>4, <2>1, <2>2, <2>3, <2>4 DEF Smaller
  <1>7. minAvailable(a) \in Nat
    BY <1>1, LimitsAreNat
  <1> SUFFICES \E o \in (Deployments \cup {0}) \ {a} : Counted(a)' + Counted(o)' >= minAvailable(a)
    BY <1>1 DEF AvailabilityOK
  <1>8. CASE S = {}
    <2>1. Counted(0)' \in Nat
      <3>1. KeptServing(0)' \in SUBSET Instances
        BY <1>2 DEF Serving
      <3>2. Counted(0)' = Cardinality(KeptServing(0)')
        BY <1>1 DEF Counted
      <3> QED
        BY <3>1, <3>2, InstancesFinite
    <2>2. Cardinality(S) = 0
      BY <1>8, FS_EmptySet
    <2> HIDE DEF SA, S
    <2>3. Counted(a)' + Counted(0)' >= minAvailable(a)
      BY <1>4, <1>6, <1>7, <2>1, <2>2
    <2> QED
      BY <1>1, <2>3
  <1>9. CASE S # {}
    <2>1. PICK v \in S : TRUE
      BY <1>9
    <2>2. v \in Instances /\ Viable(v) /\ insts[v].dep # a
      BY <2>1 DEF Serving, Ready, Viable
    <2>3. PICK o \in Known : o = insts[v].dep /\ o # a
      BY <2>2 DEF PopulationOK, Viable
    <2>4. \A i \in Instances : Viable(i) /\ insts[i].dep # a => insts[i].dep = o
      BY <2>2, <2>3 DEF PlainUpdate, OneOlderVersion
    <2>5. /\ ViableOf(o) = {i \in Instances : Viable(i) /\ insts[i].dep # a}
          /\ S = {i \in Serving : insts[i].dep = o}
      BY <2>3, <2>4 DEF ViableOf, Of, Serving, Ready, Viable
    <2>6. S \in SUBSET ViableOf(o) /\ ViableOf(o) \in SUBSET Instances
      BY <2>5 DEF Serving, Ready, Viable
    <2>7. o \in Deployments
      BY DEF Known
    <2>8. Counted(o)' = Smaller(Cardinality(S), Target(o)) /\ Target(o) \in Nat
      <3>1. Target(o) \in Nat
        BY TargetFacts
      <3>2. KeptServing(o)' = S
        BY <1>2, <2>5
      <3> HIDE DEF S
      <3> QED
        BY <2>7, <3>1, <3>2 DEF Counted
    <2>9. Cardinality(S) <= Cardinality(ViableOf(o)) /\ Cardinality(ViableOf(o)) \in Nat
      BY <2>6, SubsetCounts
    <2>10. CASE deps[a].degraded
      <3>1. Target(o) = Cardinality(ViableOf(o))
        BY <2>10, TargetFacts
      <3> HIDE DEF SA, S
      <3>2. Counted(a)' + Counted(o)' >= minAvailable(a)
        BY <1>4, <1>6, <1>7, <2>8, <2>9, <3>1 DEF Smaller
      <3> QED
        BY <2>3, <2>7, <3>2
    <2>11. CASE ~deps[a].degraded
      <3>1. /\ activeViable \in Nat /\ activeReady \in Nat /\ oldViable \in Nat
            /\ OldTarget \in Nat /\ OldTarget <= oldViable
        BY <1>1, PlanNumbers
      <3>2. oldViable = Cardinality(ViableOf(o)) /\ activeViable = Cardinality(ViableOf(a))
        BY <2>5 DEF oldViable, activeViable
      <3>3. activeReady = Cardinality(SA)
        <4>1. {i \in Of(active) : Ready(i)} = SA
          BY DEF PlainUpdate, Serving, ViableOf, Of, Viable, Ready
        <4> QED
          BY <4>1 DEF activeReady
      <3>4. GivenBefore(o) = 0
        <4>1. ~(o < o) /\ \A i \in Instances : Viable(i) /\ insts[i].dep \in Old => insts[i].dep = o
          BY <2>4, <2>7, StrategyAssumption DEF Old
        <4>2. {i \in Instances : Viable(i) /\ insts[i].dep \in Old /\ insts[i].dep < o} = {}
          BY <4>1
        <4> QED
          BY <4>2, FS_EmptySet DEF GivenBefore
      <3>5. Target(o) = OldTarget
        <4>1. Target(o) = Smaller(Cardinality(ViableOf(o)), NotNegative(OldTarget - GivenBefore(o)))
          BY <2>3, <2>11, TargetFacts
        <4> QED
          BY <3>1, <3>2, <3>4, <4>1 DEF Smaller, NotNegative
      <3>6. activeViable + Cardinality(S) <= maxAllowedTotal(a)
        <4>1. /\ ViableOf(a) \cup S \in SUBSET InService /\ InService \in SUBSET Instances
              /\ ViableOf(a) \cap S = {} /\ S \in SUBSET Instances
          BY DEF PlainUpdate, InService, Serving, ViableOf, Of, Viable, Ready
        <4>2. Cardinality(InService) <= maxAllowedTotal(a)
          BY DEF PlainUpdate
        <4>3. maxAllowedTotal(a) \in Nat
          BY <1>1, LimitsAreNat
        <4> HIDE DEF S
        <4>4. Cardinality(ViableOf(a) \cup S) = Cardinality(ViableOf(a)) + Cardinality(S)
          BY <1>5, <4>1, UnionCounts
        <4>5. /\ Cardinality(ViableOf(a) \cup S) <= Cardinality(InService)
              /\ Cardinality(InService) \in Nat
          BY <4>1, SubsetCounts
        <4> QED
          BY <1>4, <3>1, <3>2, <4>2, <4>3, <4>4, <4>5
      <3> HIDE DEF SA, S
      <3>7. \/ Cardinality(S) <= OldTarget
            \/ activeReady + OldTarget >= minAvailable(a)
        <4>1. OldTarget = oldTargetTotal(a, activeViable, activeReady, oldViable)
          BY DEF OldTarget
        <4>2. Cardinality(S) <= oldViable
          BY <2>9, <3>2
        <4> QED
          BY <1>1, <1>4, <3>1, <3>6, <4>1, <4>2, PlanKeepsAvailable
      <3>8. Counted(a)' + Counted(o)' >= minAvailable(a)
        BY <1>4, <1>6, <1>7, <2>8, <3>1, <3>3, <3>5, <3>7 DEF Smaller
      <3> QED
        BY <2>3, <2>7, <3>8
    <2> QED
      BY <2>10, <2>11
  <1> QED
    BY <1>8, <1>9

LEMMA StatusAfter ==
    ASSUME TypeOK, NEW d \in Known
    PROVE  [deps[d] EXCEPT !.rollout = RolloutAfter(d)] \in Deployment
  <1>1. d \in Deployments /\ deps[d] \in Deployment
    BY DEF Known, TypeOK
  <1>2. RolloutAfter(d) \in RolloutStatuses
    BY <1>1 DEF RolloutAfter, RolloutStatuses, Deployment
  <1> QED
    BY <1>1, <1>2 DEF Deployment

LEMMA ComputeStep ==
    ASSUME RolloutInv, ComputeTargets
    PROVE  RolloutInv'
  <1>1. /\ TypeOK /\ PopulationOK /\ active # 0
        /\ UNCHANGED <<insts, active, faults, deploys, revived>>
    BY DEF RolloutInv, ComputeTargets
  <1>2. PICK a \in Known : a = active
    BY <1>1 DEF PopulationOK
  <1>3. a \in Deployments /\ deps[a].degraded \in BOOLEAN /\ \A d \in Known : d \in Deployments
    BY <1>1 DEF Known, TypeOK, Deployment
  <1>4. \A d \in Known : Target(d) \in Nat
    BY <1>1, <1>2, TargetFacts
  <1> DEFINE targets == [d \in Deployments |-> IF d \in Known THEN Target(d) ELSE 0]
  <1>5. targets \in [Deployments -> Nat]
    BY <1>4
  <1>6. tick' = [active |-> active, degraded |-> deps[active].degraded,
                 plain |-> PlainUpdate,
                 enough |-> Cardinality(Serving) >= minAvailable(active),
                 target |-> targets, scale |-> Known, todo |-> {}]
    BY DEF ComputeTargets
  <1>7. PlainUpdate \in BOOLEAN /\ (Cardinality(Serving) >= minAvailable(active)) \in BOOLEAN
    BY DEF PlainUpdate
  <1>8. /\ tick' \in Tick
        /\ tick'.active = a /\ tick'.degraded = deps[a].degraded
        /\ tick'.plain = PlainUpdate
        /\ tick'.enough = (Cardinality(Serving) >= minAvailable(a))
        /\ tick'.target = targets /\ tick'.scale = Known /\ tick'.todo = {}
    <2> HIDE DEF targets
    <2> QED
      BY <1>2, <1>3, <1>5, <1>6, <1>7 DEF Tick
  <1>9. deps' = [d \in Deployments |->
                   IF d \in Known THEN [deps[d] EXCEPT !.rollout = RolloutAfter(d)] ELSE deps[d]]
    BY DEF ComputeTargets
  <1>10. deps' \in [Deployments -> Deployment] /\ Known' = Known
    <2>1. \A d \in Known : [deps[d] EXCEPT !.rollout = RolloutAfter(d)] \in Deployment
      BY <1>1, StatusAfter
    <2>2. deps \in [Deployments -> Deployment]
      BY <1>1 DEF TypeOK
    <2>3. \A d \in Deployments : deps'[d].status = deps[d].status
      <3>1. \A d \in Deployments : deps[d] \in Deployment
        BY <2>2
      <3>2. \A d \in Deployments : [deps[d] EXCEPT !.rollout = RolloutAfter(d)].status = deps[d].status
        BY <3>1 DEF Deployment
      <3> QED
        BY <1>9, <3>2
    <2> QED
      BY <1>9, <2>1, <2>2, <2>3 DEF Known
  <1>11. TypeOK'
    BY <1>1, <1>8, <1>10 DEF TypeOK
  <1>12. PopulationOK'
    BY <1>1, <1>2, <1>8, <1>10 DEF PopulationOK, ViableOf, Of, Viable, Draining
  <1>13. PlanOK'
    BY <1>1, <1>2, <1>8, PlanMade
  <1>14. Drains' = {}
    BY <1>8 DEF Drains
  <1>15. \A d : Kept(d)' \in SUBSET ViableOf(d)
    BY <1>1 DEF Kept, ViableOf, Of, Viable
  <1>16. KeptOK'
    <2>1. ASSUME NEW d \in Deployments, d \notin Known
          PROVE  Cardinality(Kept(d)') <= tick'.target[d]
      <3>1. ViableOf(d) = {}
        BY <1>1, <2>1 DEF ViableOf, Of, Viable, PopulationOK
      <3>2. Kept(d)' = {} /\ tick'.target[d] = 0
        BY <1>8, <1>15, <2>1, <3>1
      <3> QED
        BY <3>2, FS_EmptySet
    <2>2. ASSUME NEW d \in Known, deps[a].degraded
          PROVE  Cardinality(Kept(d)') <= tick'.target[d]
      <3>1. tick'.target[d] = Cardinality(ViableOf(d))
        BY <1>1, <1>2, <1>3, <1>8, <2>2, TargetFacts
      <3>2. ViableOf(d) \in SUBSET Instances
        BY SetsOfInstances
      <3> QED
        BY <1>15, <3>1, <3>2, SubsetCounts
    <2> QED
      BY <1>8, <1>14, <2>1, <2>2 DEF KeptOK
  <1>17. AvailabilityOK'
    <2> SUFFICES ASSUME tick'.plain, tick'.enough PROVE AvailabilityOK'
      BY DEF AvailabilityOK
    <2> QED
      BY <1>1, <1>2, <1>8, PlanAvailable
  <1> QED
    BY <1>11, <1>12, <1>13, <1>16, <1>17 DEF RolloutInv

-----------------------------------------------------------------------------
(* The specification.                                                      *)

LEMMA RolloutInvInit ==
    ASSUME Init
    PROVE  RolloutInv
  <1>1. TypeOK
    <2>1. NoInstance \in Instance /\ NoDeployment \in Deployment
      BY DEF NoInstance, Instance, NoDeployment, Deployment, RolloutStatuses
    <2>2. tick \in Tick
      BY DEF Init, Tick
    <2> QED
      BY <2>1, <2>2, RolloutAssumption DEF Init, TypeOK
  <1>2. \A d : ViableOf(d) = {} /\ Kept(d) = {}
    BY DEF Init, ViableOf, Of, Viable, NoInstance, Kept
  <1>3. \A d \in Deployments : Replicas[d] \in Nat /\ tick.target[d] = 0
    BY LimitsAreNat DEF Init
  <1>4. /\ tick.active = 0 /\ tick.degraded = FALSE /\ tick.plain = FALSE
        /\ tick.scale = {} /\ tick.todo = {} /\ revived = 0 /\ active = 0
        /\ \A i \in Instances : insts[i].phase = "none"
    BY DEF Init, NoInstance
  <1>5. PopulationOK
    <2>1. \A d \in Deployments : Cardinality(ViableOf(d)) <= Replicas[d] + revived
      <3>1. \A d : Cardinality(ViableOf(d)) = 0
        BY <1>2, FS_EmptySet
      <3> QED
        BY <1>3, <1>4, <3>1
    <2> QED
      BY <1>4, <2>1 DEF PopulationOK
  <1>6. PlanOK
    BY <1>3, <1>4 DEF PlanOK
  <1>7. KeptOK
    BY <1>2, <1>3, <1>4, FS_EmptySet DEF KeptOK
  <1>8. AvailabilityOK
    BY <1>4 DEF AvailabilityOK
  <1> QED
    BY <1>1, <1>5, <1>6, <1>7, <1>8 DEF RolloutInv

LEMMA RolloutInvStep ==
    ASSUME RolloutInv, [Next]_vars
    PROVE  RolloutInv'
  <1>1. CASE Reconcile
    BY <1>1, ComputeStep, ScaleStep, DoStep DEF Reconcile
  <1>2. ASSUME NEW d \in Deployments,
               Deploy(d) \/ ResetCrashCounter(d) \/ \E force \in BOOLEAN : RollbackApp(d, force)
        PROVE  RolloutInv'
    BY <1>2, DeployStep, ResetStep, RollbackStep
  <1>3. ASSUME NEW i \in Instances, BecomesReady(i) \/ Stops(i) \/ Revives(i) \/ DrainTimeoutPasses(i)
        PROVE  RolloutInv'
    BY <1>3, InstanceStep
  <1>4. ASSUME NEW i \in Instances,
               BecomesUnready(i) \/ \E counted \in BOOLEAN : Ends(i, counted)
        PROVE  RolloutInv'
    BY <1>4, FailureStep
  <1>5. CASE UNCHANGED vars
    <2>1. UNCHANGED <<insts, deps, active, tick, faults, deploys, revived>>
      BY <1>5 DEF vars
    <2>2. TypeOK' /\ Known' = Known
      BY <2>1 DEF RolloutInv, TypeOK, Known
    <2>3. active' \in Known' \cup {0}
      BY <2>1, <2>2 DEF RolloutInv, PopulationOK
    <2> QED
      BY <2>1, <2>2, <2>3, AsideStep
  <1> QED
    BY <1>1, <1>2, <1>3, <1>4, <1>5 DEF Next

\* The inductive invariant, and with it the types, hold in every reachable state.
THEOREM Invariant == Spec => []RolloutInv
  <1>1. Init => RolloutInv
    BY RolloutInvInit
  <1>2. RolloutInv /\ [Next]_vars => RolloutInv'
    BY RolloutInvStep
  <1> QED
    BY <1>1, <1>2, PTL DEF Spec

\* Once a tick has ended, what it leaves in service is within the replicas and
\* surge of the deployment it found active, plus the instances that late reports
\* brought back: for any numbers in each deployment's specification, although the
\* tick works with two lists of the instances and anything may happen between.
THEOREM SurgeHolds == Spec => []TickEndsWithinSurge
  <1>1. RolloutInv => TickEndsWithinSurge
    BY TickEnds DEF TickEndsWithinSurge
  <1> QED
    BY <1>1, Invariant, PTL

\* A plain rolling update that finds Replicas - MaxUnavailable instances serving
\* leaves that many in every state from its list to the next one, unless an
\* instance fails meanwhile.
THEOREM AvailabilityHolds == Spec => []TickKeepsAvailable
  <1>1. RolloutInv => TickKeepsAvailable
    <2> SUFFICES ASSUME RolloutInv, tick.plain, tick.enough
                 PROVE  Cardinality(Serving) >= minAvailable(tick.active)
      BY DEF TickKeepsAvailable
    <2>1. TypeOK /\ AvailabilityOK
      BY DEF RolloutInv
    <2>2. PICK a \in Deployments : a = tick.active
      BY <2>1, TickFields DEF AvailabilityOK
    <2>3. PICK o \in (Deployments \cup {0}) \ {a} : Counted(a) + Counted(o) >= minAvailable(a)
      BY <2>1, <2>2 DEF AvailabilityOK
    <2>4. /\ KeptServing(a) \cup KeptServing(o) \in SUBSET Serving
          /\ KeptServing(a) \cap KeptServing(o) = {}
          /\ KeptServing(a) \in SUBSET Instances /\ KeptServing(o) \in SUBSET Instances
          /\ Serving \in SUBSET Instances
      BY DEF KeptServing, Kept, ViableOf, Of, Serving
    <2>5. /\ Counted(a) \in Nat /\ Counted(a) <= Cardinality(KeptServing(a))
          /\ Counted(o) \in Nat /\ Counted(o) <= Cardinality(KeptServing(o))
      BY <2>1, CountedNat
    <2>6. /\ Cardinality(KeptServing(a) \cup KeptServing(o))
                = Cardinality(KeptServing(a)) + Cardinality(KeptServing(o))
          /\ Cardinality(KeptServing(a)) \in Nat /\ Cardinality(KeptServing(o)) \in Nat
      BY <2>4, UnionCounts
    <2>7. /\ Cardinality(KeptServing(a) \cup KeptServing(o)) <= Cardinality(Serving)
          /\ Cardinality(Serving) \in Nat
      BY <2>4, SubsetCounts
    <2>8. minAvailable(a) \in Nat
      BY LimitsAreNat
    <2>9. Cardinality(Serving) >= minAvailable(a)
      BY <2>3, <2>5, <2>6, <2>7, <2>8
    <2> QED
      BY <2>2, <2>9
  <1> QED
    BY <1>1, Invariant, PTL

\* While the tick is one of a degraded deployment, no step takes an instance out
\* of service by draining it: what the tick compares its targets with may have
\* grown since they were computed, but only by draining instances.
THEOREM SparesHolds == Spec => DegradedSpares
  <1>1. RolloutInv /\ [Next]_vars =>
          [tick.degraded =>
             \A i \in Instances : (Viable(i) /\ ~Draining(i)) =>
                 insts'[i].drain = "nil" /\ insts'[i].phase # "stopping"]_vars
    <2> DEFINE Stays(j) == insts'[j].drain = "nil" /\ insts'[j].phase # "stopping"
    <2> SUFFICES ASSUME RolloutInv, Next, tick.degraded, NEW i \in Instances,
                        Viable(i), ~Draining(i)
                 PROVE  Stays(i)
      OBVIOUS
    <2>1. /\ insts \in [Instances -> Instance] /\ Drains = {} /\ insts[i] \in Instance
          /\ insts[i].drain = "nil" /\ insts[i].phase \in {"starting", "ready"}
          /\ <<"stop", i>> \notin tick.todo
      BY DEF RolloutInv, TypeOK, KeptOK, PopulationOK, Draining, Viable
    <2>2. CASE ComputeTargets
      BY <2>1, <2>2 DEF ComputeTargets
    <2>3. ASSUME NEW d \in Deployments, Scale(d) PROVE Stays(i)
      <3>1. PICK new \in SUBSET Unused : insts' = [j \in Instances |->
                IF j \in new THEN [dep |-> d, phase |-> "starting", drain |-> "nil"]
                ELSE insts[j]]
        BY <2>3 DEF Scale
      <3> QED
        BY <2>1, <3>1
    <2>4. ASSUME NEW op \in {"drain", "stop"}, NEW j \in Instances, Do(op, j)
          PROVE  Stays(i)
      <3>1. CASE j # i
        BY <2>1, <2>4, <3>1 DEF Do
      <3>2. j # i
        BY <2>1, <2>4 DEF Do, Drains
      <3> QED
        BY <3>1, <3>2
    <2>5. ASSUME NEW d \in Deployments,
                 Deploy(d) \/ ResetCrashCounter(d) \/ \E force \in BOOLEAN : RollbackApp(d, force)
          PROVE  Stays(i)
      BY <2>1, <2>5 DEF Deploy, ResetCrashCounter, RollbackApp
    <2>6. ASSUME NEW j \in Instances,
                 \/ BecomesReady(j) \/ BecomesUnready(j) \/ Stops(j) \/ Revives(j)
                 \/ DrainTimeoutPasses(j) \/ \E counted \in BOOLEAN : Ends(j, counted)
          PROVE  Stays(i)
      <3>1. \/ insts' = [insts EXCEPT ![j] = NoInstance]
            \/ \E p \in {"starting", "ready"} : insts' = [insts EXCEPT ![j].phase = p]
            \/ insts[j].drain = "recent" /\ insts' = [insts EXCEPT ![j].drain = "elapsed"]
        BY <2>6, Zenon DEF BecomesReady, BecomesUnready, Stops, Revives, DrainTimeoutPasses, Ends
      <3> QED
        BY <2>1, <3>1 DEF NoInstance, Instance
    <2> QED
      BY <2>2, <2>3, <2>4, <2>5, <2>6 DEF Next, Reconcile
  <1> QED
    BY <1>1, Invariant, PTL DEF Spec, DegradedSpares
=============================================================================
