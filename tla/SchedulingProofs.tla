-------------------------- MODULE SchedulingProofs --------------------------
(***************************************************************************)
(* Theorems about the placement of instances (module Scheduling) for every *)
(* number of nodes, instances, deployments, resources and outages.         *)
(***************************************************************************)
EXTENDS Scheduling, TLAPS, FiniteSetTheorems, WellFoundedInduction

-----------------------------------------------------------------------------
(* What a finite set of instances asks for.  A fold over a set is reasoned *)
(* about by a smallest set for which a claim fails.                        *)

\* A set of numbers that is not empty has a least element.
LEMMA LeastNat ==
    ASSUME NEW S \in SUBSET Nat, S # {}
    PROVE  \E x \in S : \A y \in S : x <= y
  <1> DEFINE R == OpToRel(<, Nat)
  <1>1. PICK x \in S : \A y \in S : ~(<<y, x>> \in R)
    BY WFMin, NatLessThanWellFounded
  <1>2. R = {ss \in Nat \X Nat : ss[1] < ss[2]}
    BY DEF OpToRel
  <1> HIDE DEF R
  <1>3. ASSUME NEW y \in S PROVE x <= y
    <2>1. <<y, x>> \in Nat \X Nat /\ <<y, x>>[1] = y /\ <<y, x>>[2] = x
      OBVIOUS
    <2> QED BY <1>1, <1>2, <2>1
  <1> QED BY <1>3

\* Among finite sets there is one that includes no other.
LEMMA SmallestSet ==
    ASSUME NEW B, B # {}, \A s \in B : IsFiniteSet(s)
    PROVE  \E s \in B : \A x \in s : s \ {x} \notin B
  <1> DEFINE sizes == {Cardinality(s) : s \in B}
  <1>1. sizes \in SUBSET Nat /\ sizes # {}
    BY FS_CardinalityType
  <1>2. PICK m \in sizes : \A k \in sizes : m <= k
    <2> HIDE DEF sizes
    <2> QED BY <1>1, LeastNat
  <1>3. PICK s \in B : m = Cardinality(s)
    OBVIOUS
  <1>4. ASSUME NEW x \in s, s \ {x} \in B PROVE FALSE
    <2>1. Cardinality(s \ {x}) = Cardinality(s) - 1 /\ Cardinality(s) \in Nat
      BY FS_RemoveElement, FS_CardinalityType
    <2>2. m <= Cardinality(s \ {x})
      BY <1>2, <1>4
    <2> QED BY <1>3, <2>1, <2>2
  <1> QED BY <1>4

\* g adds up what the instances of each subset of S ask for.
Additive(g, S, r) ==
    /\ g \in [SUBSET S -> Nat] /\ g[{}] = 0
    /\ \A s \in SUBSET S : \A i \in s : g[s] = Asks(i)[r] + g[s \ {i}]

\* A request is a number of each resource.
LEMMA AsksType ==
    ASSUME NEW i \in Instances, NEW r \in Resources
    PROVE  Asks(i)[r] \in Nat
  BY SchedulingAssumption DEF Asks

\* There is such a function for every finite set: a smallest set without one would
\* have one, extended from the set without one of its elements.
LEMMA AdditiveExists ==
    ASSUME NEW r \in Resources,
           NEW S \in SUBSET Instances, IsFiniteSet(S)
    PROVE  \E g : Additive(g, S, r)
  <1> SUFFICES ASSUME ~\E g : Additive(g, S, r) PROVE FALSE
    OBVIOUS
  <1> DEFINE bad == {T \in SUBSET S : ~\E g : Additive(g, T, r)}
  <1>1. bad # {} /\ \A T \in bad : IsFiniteSet(T)
    BY FS_Subset
  <1>2. PICK T \in bad : \A x \in T : T \ {x} \notin bad
    <2> HIDE DEF bad
    <2> QED BY <1>1, SmallestSet
  <1>3. T \subseteq Instances /\ T \subseteq S /\ ~\E g : Additive(g, T, r)
    OBVIOUS
  <1>4. T # {}
    <2>1. Additive([s \in SUBSET {} |-> 0], {}, r)
      BY DEF Additive
    <2> QED BY <1>3, <2>1
  <1>5. PICK x \in T : TRUE
    BY <1>4
  <1> DEFINE U == T \ {x}
             W == Asks(x)[r]
  <1>6. W \in Nat
    BY <1>3, AsksType
  <1>7. PICK g : Additive(g, U, r)
    BY <1>2, <1>3
  <1> DEFINE h == [s \in SUBSET T |-> IF x \in s THEN g[s \ {x}] + W ELSE g[s]]
  <1>8. \A s \in SUBSET T : s \ {x} \in SUBSET U /\ (x \notin s => s \in SUBSET U)
    OBVIOUS
  <1>9. g \in [SUBSET U -> Nat] /\ g[{}] = 0
        /\ \A s \in SUBSET U : \A i \in s : g[s] = Asks(i)[r] + g[s \ {i}]
    BY <1>7 DEF Additive
  <1> HIDE DEF U, W
  <1>10. h \in [SUBSET T -> Nat] /\ h[{}] = 0
    BY <1>6, <1>8, <1>9
  <1>11. ASSUME NEW s \in SUBSET T, NEW i \in s PROVE h[s] = Asks(i)[r] + h[s \ {i}]
    <2>0. s \ {i} \in SUBSET T
      OBVIOUS
    <2>1. CASE x \notin s
      BY <1>8, <1>9, <2>0, <2>1
    <2>2. CASE i = x
      <3>1. s \ {i} = s \ {x} /\ Asks(i)[r] = W
        BY <2>2 DEF W
      <3>2. h[s] = g[s \ {x}] + W
        BY <2>2
      <3>3. h[s \ {i}] = g[s \ {x}]
        BY <2>0, <3>1
      <3>4. g[s \ {x}] + W = W + g[s \ {x}]
        BY <1>6, <1>8, <1>9
      <3> HIDE DEF h
      <3> QED BY <3>1, <3>2, <3>3, <3>4, Zenon
    <2>3. CASE x \in s /\ i # x
      <3>1. h[s] = g[s \ {x}] + W /\ h[s \ {i}] = g[(s \ {i}) \ {x}] + W
        BY <2>0, <2>3
      <3>2. (s \ {i}) \ {x} = (s \ {x}) \ {i} /\ i \in s \ {x}
        BY <2>3
      <3>3. g[s \ {x}] = Asks(i)[r] + g[(s \ {x}) \ {i}]
        BY <1>8, <1>9, <3>2
      <3>4. Asks(i)[r] \in Nat /\ g[(s \ {x}) \ {i}] \in Nat
        <4>1. (s \ {x}) \ {i} \in SUBSET U
          BY <1>8
        <4> QED BY <1>3, <1>9, <4>1, AsksType
      <3>5. h[s] = (Asks(i)[r] + g[(s \ {x}) \ {i}]) + W
        BY <3>1, <3>3
      <3>6. h[s \ {i}] = g[(s \ {x}) \ {i}] + W
        BY <3>1, <3>2
      <3> HIDE DEF h
      <3> QED BY <1>6, <3>4, <3>5, <3>6
    <2> QED BY <2>1, <2>2, <2>3
  <1>12. Additive(h, T, r)
    <2> HIDE DEF h
    <2> QED BY <1>10, <1>11 DEF Additive
  <1> QED BY <1>3, <1>12

\* The sum that the model computes by recursion is the additive function.
LEMMA LoadIsAdditive ==
    ASSUME NEW r \in Resources,
           NEW S \in SUBSET Instances, IsFiniteSet(S),
           NEW g, Additive(g, S, r)
    PROVE  Load(S, r) = g[S]
  <1> DEFINE ch(s) == CHOOSE x \in s : TRUE
             eqn(f) == f = [s \in SUBSET S |-> IF s = {} THEN 0
                                               ELSE Asks(ch(s))[r] + f[s \ {ch(s)}]]
             f0 == CHOOSE f : eqn(f)
  <1>1. Load(S, r) = f0[S]
    BY Zenon DEF Load, MapThenSumSet, MapThenFoldSet
  <1>2. \A s : s # {} => ch(s) \in s
    OBVIOUS
  <1>3. eqn(g)
    <2> HIDE DEF ch
    <2> QED BY <1>2 DEF Additive
  <1>4. eqn(f0)
    <2> HIDE DEF eqn
    <2> QED BY <1>3
  <1> HIDE DEF ch, f0
  <1>5. ASSUME NEW s \in SUBSET S, s # {}
        PROVE  /\ f0[s] = Asks(ch(s))[r] + f0[s \ {ch(s)}]
               /\ g[s] = Asks(ch(s))[r] + g[s \ {ch(s)}]
               /\ ch(s) \in s
    BY <1>2, <1>3, <1>4, <1>5
  <1>6. f0[{}] = g[{}]
    BY <1>3, <1>4
  <1> HIDE DEF eqn
  <1>7. \A s \in SUBSET S : f0[s] = g[s]
    <2> SUFFICES ASSUME ~\A s \in SUBSET S : f0[s] = g[s] PROVE FALSE
      OBVIOUS
    <2> DEFINE bad == {s \in SUBSET S : f0[s] # g[s]}
    <2>1. bad # {} /\ \A s \in bad : IsFiniteSet(s)
      BY FS_Subset
    <2>2. PICK s \in bad : \A x \in s : s \ {x} \notin bad
      <3> HIDE DEF bad
      <3> QED BY <2>1, SmallestSet
    <2>3. s # {} /\ s \in SUBSET S /\ f0[s] # g[s]
      BY <1>6
    <2>4. s \ {ch(s)} \in SUBSET S /\ f0[s \ {ch(s)}] = g[s \ {ch(s)}]
      BY <1>5, <2>2, <2>3
    <2> QED BY <1>5, <2>3, <2>4
  <1> QED BY <1>1, <1>7

\* One more instance adds what it asks for.
LEMMA LoadAdds ==
    ASSUME NEW r \in Resources,
           NEW S \in SUBSET Instances, IsFiniteSet(S), NEW i \in S
    PROVE  /\ Load(S, r) \in Nat /\ Load(S \ {i}, r) \in Nat
           /\ Load(S, r) = Load(S \ {i}, r) + Asks(i)[r]
  <1> DEFINE T == S \ {i}
  <1>1. T \in SUBSET Instances /\ IsFiniteSet(T) /\ T \subseteq S
    BY FS_Subset
  <1>2. PICK g : Additive(g, S, r)
    BY AdditiveExists
  <1> DEFINE h == [s \in SUBSET T |-> g[s]]
  <1>3. Additive(h, T, r)
    <2>1. \A s \in SUBSET T : s \in SUBSET S
      BY <1>1
    <2> HIDE DEF T
    <2>2. h \in [SUBSET T -> Nat] /\ h[{}] = 0
      BY <1>2, <2>1 DEF Additive
    <2>3. ASSUME NEW s \in SUBSET T, NEW k \in s PROVE h[s] = Asks(k)[r] + h[s \ {k}]
      BY <1>2, <2>1 DEF Additive
    <2> HIDE DEF h
    <2> QED BY <2>2, <2>3 DEF Additive
  <1>4. Load(S, r) = g[S] /\ Load(T, r) = h[T]
    <2> HIDE DEF h, T
    <2> QED BY <1>1, <1>2, <1>3, LoadIsAdditive
  <1>5. h[T] = g[T]
    OBVIOUS
  <1>6. g[S] = Asks(i)[r] + g[T] /\ g[S] \in Nat /\ g[T] \in Nat
    BY <1>1, <1>2 DEF Additive
  <1>7. Asks(i)[r] \in Nat
    BY AsksType
  <1> QED BY <1>4, <1>5, <1>6, <1>7

\* No instance asks for nothing.
LEMMA LoadEmpty ==
    ASSUME NEW r \in Resources PROVE Load({}, r) = 0
  <1>1. PICK g : Additive(g, {}, r)
    BY AdditiveExists, FS_EmptySet
  <1> QED BY <1>1, LoadIsAdditive, FS_EmptySet DEF Additive

\* Fewer instances ask for no more.
LEMMA LoadShrinks ==
    ASSUME NEW r \in Resources,
           NEW S \in SUBSET Instances, IsFiniteSet(S), NEW i
    PROVE  /\ Load(S, r) \in Nat /\ Load(S \ {i}, r) \in Nat
           /\ Load(S \ {i}, r) <= Load(S, r)
  <1>1. CASE i \in S
    <2>1. /\ Load(S, r) \in Nat /\ Load(S \ {i}, r) \in Nat
          /\ Load(S, r) = Load(S \ {i}, r) + Asks(i)[r]
      BY <1>1, LoadAdds
    <2>2. Asks(i)[r] \in Nat
      BY <1>1, AsksType
    <2> QED BY <2>1, <2>2
  <1>2. CASE i \notin S
    <2>1. S \ {i} = S
      BY <1>2
    <2>2. CASE S = {}
      BY <2>1, <2>2, LoadEmpty
    <2>3. ASSUME S # {} PROVE Load(S, r) \in Nat
      <3>1. PICK k \in S : TRUE
        BY <2>3
      <3> QED BY <3>1, LoadAdds
    <2> QED BY <2>1, <2>2, <2>3
  <1> QED BY <1>1, <1>2

-----------------------------------------------------------------------------
(* What the steps do to the instances on a node                            *)

\* The instances that consume capacity of a node.
On(n) == {i \in Instances : insts[i].node = n /\ Consuming(i)}

\* Finitely many instances have been created.
LEMMA CreatedFinite ==
    ASSUME SchedulingInv
    PROVE  IsFiniteSet({i \in Instances : insts[i].status # "none"})
  BY DEF SchedulingInv

\* They are finitely many, so what they ask for is a number.
LEMMA OnFinite ==
    ASSUME SchedulingInv, NEW n \in Nodes, NEW r \in Resources
    PROVE  /\ On(n) \in SUBSET Instances /\ IsFiniteSet(On(n))
           /\ Used(n, r) = Load(On(n), r) /\ Used(n, r) \in Nat
  <1>1. On(n) \in SUBSET {i \in Instances : insts[i].status # "none"}
    BY DEF On, Consuming
  <1>2. IsFiniteSet(On(n))
    BY <1>1, FS_Subset, CreatedFinite
  <1>3. Used(n, r) = Load(On(n), r)
    BY DEF Used, On
  <1>4. On(n) \in SUBSET Instances
    BY DEF On
  <1> QED BY <1>2, <1>3, <1>4, LoadShrinks

\* What a node is used for is what the instances on it ask for.
LEMMA UsedIsLoad ==
    ASSUME NEW n, NEW r
    PROVE  Used(n, r) = Load(On(n), r) /\ Used(n, r)' = Load(On(n)', r)
  BY DEF Used, On

\* It depends on the instances only.
LEMMA UsedUnchanged ==
    ASSUME UNCHANGED insts, NEW n, NEW r
    PROVE  Used(n, r)' = Used(n, r)
  <1>1. On(n)' = On(n)
    BY DEF On, Consuming
  <1> QED BY <1>1, UsedIsLoad

\* The least of a set of numbers is one of them.
LEMMA MinIn ==
    ASSUME NEW S \in SUBSET Nat, S # {}
    PROVE  Min(S) \in S
  <1>1. \E x \in S : \A y \in S : x <= y
    BY LeastNat
  <1> QED BY <1>1 DEF Min

\* The node that is selected is eligible.
LEMMA SelectIn ==
    ASSUME NEW S \in SUBSET Nodes, S # {}
    PROVE  Select(S) \in S
  <1> DEFINE later == {n \in S : n > loop.last}
  <1>1. S \in SUBSET Nat /\ later \in SUBSET Nat
    BY SchedulingAssumption
  <1>2. later # {} => Min(later) \in later
    <2> HIDE DEF later
    <2> QED BY <1>1, MinIn
  <1>3. Min(S) \in S
    BY <1>1, MinIn
  <1> QED BY <1>2, <1>3 DEF Select

\* A status that an instance may take from another, outside the scheduler: it
\* does not come to consume capacity, and it becomes, or stops being, PENDING
\* only between two ticks of the scheduler.
Allowed(from, to) ==
    /\ to \in Statuses \ {"none"}
    /\ to \notin Terminal \cup {"PENDING"} =>
          from \notin Terminal \cup {"none", "PENDING"}
    /\ to = "PENDING" \/ from = "PENDING" => loop.pc = "reconcile"
    /\ to = "PENDING" => from = "none"

\* Instance steps of reconciler and agents keep the invariant.
LEMMA InstanceStepKeeps ==
    ASSUME SchedulingInv, NEW i \in Instances, NEW s,
           Becomes(i, s), Allowed(insts[i].status, s),
           UNCHANGED <<online, loop, blocked, outages>>
    PROVE  SchedulingInv'
  <1>1. /\ TypeOK /\ insts[i] \in [status: Statuses, node: Nodes \cup {0}]
        /\ insts' = [insts EXCEPT ![i].status = s]
    BY DEF SchedulingInv, TypeOK, Becomes
  <1>2. /\ insts' \in [Instances -> [status: Statuses, node: Nodes \cup {0}]]
        /\ insts'[i].status = s /\ insts'[i].node = insts[i].node
        /\ \A j \in Instances \ {i} : insts'[j] = insts[j]
    BY <1>1 DEF TypeOK, Allowed
  <1>3. TypeOK'
    BY <1>1, <1>2 DEF TypeOK
  <1>4. IsFiniteSet({j \in Instances : insts'[j].status # "none"})
    <2> DEFINE old == {j \in Instances : insts[j].status # "none"}
               new == {j \in Instances : insts'[j].status # "none"}
    <2>1. IsFiniteSet(old)
      BY CreatedFinite
    <2>2. IsFiniteSet(old \cup {i})
      <3> HIDE DEF old
      <3> QED BY <2>1, FS_AddElement
    <2>3. new \subseteq old \cup {i}
      BY <1>2
    <2> HIDE DEF old, new
    <2>4. IsFiniteSet(new)
      BY <2>2, <2>3, FS_Subset
    <2> QED BY <2>4 DEF new
  <1>5. \A j \in Instances : insts'[j].status \in {"none", "PENDING"} => insts'[j].node = 0
    BY <1>1, <1>2 DEF SchedulingInv, Allowed
  <1>6. ASSUME NEW n \in Nodes, NEW r \in Resources
        PROVE  /\ Used(n, r)' \in Nat /\ Used(n, r) \in Nat
               /\ Used(n, r)' <= Used(n, r)
    <2>1. On(n)' = On(n) \/ On(n)' = On(n) \ {i}
      BY <1>1, <1>2 DEF On, Consuming, Allowed, Terminal, Statuses
    <2>2. Used(n, r)' = Load(On(n)', r) /\ Used(n, r) = Load(On(n), r)
      BY UsedIsLoad
    <2>3. On(n) \in SUBSET Instances /\ IsFiniteSet(On(n))
      BY OnFinite
    <2>4. /\ Load(On(n), r) \in Nat /\ Load(On(n) \ {i}, r) \in Nat
          /\ Load(On(n) \ {i}, r) <= Load(On(n), r)
      BY <2>3, LoadShrinks
    <2> QED BY <2>1, <2>2, <2>4
  <1>7. ASSUME NEW n \in Nodes, NEW r \in Resources
        PROVE  /\ Used(n, r)' <= Capacity[n][r]
               /\ loop'.pc \in {"pending", "assign"} =>
                     loop'.caps[n][r] + Used(n, r)' <= Capacity[n][r]
    <2>1. loop.caps[n][r] \in Int /\ Capacity[n][r] \in Nat
      BY <1>1, SchedulingAssumption DEF TypeOK, Loop
    <2>2. /\ Used(n, r) <= Capacity[n][r]
          /\ loop.pc \in {"pending", "assign"} =>
                loop.caps[n][r] + Used(n, r) <= Capacity[n][r]
      BY DEF SchedulingInv
    <2>3. /\ Used(n, r)' \in Nat /\ Used(n, r) \in Nat
          /\ Used(n, r)' <= Used(n, r)
      BY <1>6
    <2> HIDE DEF Used
    <2> QED BY <2>1, <2>2, <2>3
  <1>8. \A j \in loop'.todo : loop'.pc = "assign" /\ insts'[j].status = "PENDING"
    BY <1>1, <1>2 DEF SchedulingInv, Allowed, TypeOK, Loop
  <1>9. \A j \in loop'.listed \ loop'.todo :
           loop'.pc = "assign" /\ (insts'[j].status = "PENDING" => Eligible(j)' = {})
    BY <1>1, <1>2 DEF SchedulingInv, Allowed, TypeOK, Loop,
       Eligible, Fits, Asks
  <1> QED BY <1>3, <1>4, <1>5, <1>7, <1>8, <1>9 DEF SchedulingInv

\* Steps that change neither instances nor the loop.
LEMMA OtherStepKeeps ==
    ASSUME SchedulingInv, TypeOK', UNCHANGED <<insts, loop>>
    PROVE  SchedulingInv'
  <1>1. \A n \in Nodes, r \in Resources : Used(n, r)' = Used(n, r)
    BY UsedUnchanged
  <1>2. \A i \in Instances : Eligible(i)' = Eligible(i)
    BY DEF Eligible, Fits, Asks
  <1>3. loop \in Loop
    BY DEF SchedulingInv, TypeOK
  <1> QED BY <1>1, <1>2, <1>3 DEF SchedulingInv, Loop

-----------------------------------------------------------------------------
(* The tick                                                                *)

\* Listing nodes and the end of a tick touch nothing that is used.
LEMMA TickEndsKeep ==
    ASSUME SchedulingInv, ListNodes \/ TickDone
    PROVE  SchedulingInv'
  <1>1. /\ loop \in Loop /\ Capacity \in [Nodes -> [Resources -> Int]]
        /\ UNCHANGED <<insts, online, blocked, outages>>
    BY SchedulingAssumption DEF SchedulingInv, TypeOK, ListNodes, TickDone
  <1>2. /\ loop' \in Loop /\ loop'.pc \in {"capacity", "reconcile"}
        /\ loop'.todo = {} /\ loop'.listed = {}
    BY <1>1 DEF ListNodes, TickDone, Loop, SchedulingInv, TypeOK
  <1>3. TypeOK'
    BY <1>1, <1>2 DEF SchedulingInv, TypeOK
  <1>4. \A n \in Nodes, r \in Resources : Used(n, r)' = Used(n, r)
    BY <1>1, UsedUnchanged
  <1> QED BY <1>1, <1>2, <1>3, <1>4 DEF SchedulingInv

\* The capacity is computed from the instances as they are.
LEMMA CalculateAllKeeps ==
    ASSUME SchedulingInv, CalculateAll
    PROVE  SchedulingInv'
  <1>1. /\ loop \in Loop /\ UNCHANGED <<insts, online, blocked, outages>>
        /\ loop.todo = {} /\ loop.listed = {}
    BY DEF SchedulingInv, TypeOK, CalculateAll
  <1>2. \A n \in Nodes, r \in Resources :
           Used(n, r) \in Nat /\ Capacity[n][r] \in Nat /\ Used(n, r) <= Capacity[n][r]
    BY OnFinite, SchedulingAssumption DEF SchedulingInv
  <1>3. /\ Free \in [Nodes -> [Resources -> Int]]
        /\ \A n \in Nodes, r \in Resources : Free[n][r] = Capacity[n][r] - Used(n, r)
    BY <1>2 DEF Free
  <1>4. /\ loop' \in Loop /\ loop'.pc = "pending" /\ loop'.caps = Free
        /\ loop'.todo = {} /\ loop'.listed = {}
    BY <1>1, <1>3 DEF CalculateAll, Loop
  <1>5. TypeOK'
    BY <1>1, <1>4 DEF SchedulingInv, TypeOK
  <1>6. \A n \in Nodes, r \in Resources : Used(n, r)' = Used(n, r)
    BY <1>1, UsedUnchanged
  <1>7. \A n \in Nodes, r \in Resources :
           /\ Used(n, r)' <= Capacity[n][r]
           /\ loop'.caps[n][r] + Used(n, r)' <= Capacity[n][r]
    BY <1>2, <1>3, <1>4, <1>6
  <1> QED BY <1>1, <1>4, <1>5, <1>7 DEF SchedulingInv

\* What is listed is PENDING, and all of it is still to do.
LEMMA ListPendingKeeps ==
    ASSUME SchedulingInv, ListPending
    PROVE  SchedulingInv'
  <1> DEFINE pending == {i \in Instances : insts[i].status = "PENDING"}
  <1>1. /\ loop \in Loop /\ UNCHANGED <<insts, online, blocked, outages>>
        /\ loop.pc = "pending"
    BY DEF SchedulingInv, TypeOK, ListPending
  <1>2. /\ loop' \in Loop /\ loop'.pc = "assign" /\ loop'.caps = loop.caps
        /\ loop'.todo = pending /\ loop'.listed = pending
    BY <1>1 DEF ListPending, Loop
  <1>3. TypeOK'
    BY <1>1, <1>2 DEF SchedulingInv, TypeOK
  <1>4. \A n \in Nodes, r \in Resources : Used(n, r)' = Used(n, r)
    BY <1>1, UsedUnchanged
  <1> QED BY <1>1, <1>2, <1>3, <1>4 DEF SchedulingInv

\* The next instance is in the list, PENDING and on no node.
LEMMA NextToPlace ==
    ASSUME SchedulingInv, loop.todo # {}
    PROVE  /\ Min(loop.todo) \in loop.todo /\ Min(loop.todo) \in Instances
           /\ insts[Min(loop.todo)] = [status |-> "PENDING", node |-> 0]
  <1>1. loop.todo \in SUBSET Instances /\ Instances \subseteq Nat
    BY SchedulingAssumption DEF SchedulingInv, TypeOK, Loop
  <1>2. Min(loop.todo) \in loop.todo
    BY <1>1, MinIn
  <1> QED BY <1>1, <1>2 DEF SchedulingInv, TypeOK

\* The two ways an assignment goes: nowhere, or on node n.
Blocks(i) ==
    /\ Eligible(i) = {} /\ blocked' = blocked \cup {DeploymentOf[i]}
    /\ loop' = [loop EXCEPT !.todo = @ \ {i}] /\ UNCHANGED insts

Places(i, n) ==
    /\ n \in Eligible(i)
    /\ insts' = [insts EXCEPT ![i] = [status |-> "ASSIGNED", node |-> n]]
    /\ blocked' = blocked \ {DeploymentOf[i]}
    /\ loop' = [[loop EXCEPT !.todo = @ \ {i}] EXCEPT
                  !.last = n, !.caps = Deduct(loop.caps, n, i)]

\* One that fits nowhere stays PENDING, and is known to fit nowhere.
LEMMA BlockedKeeps ==
    ASSUME SchedulingInv, loop.pc = "assign", loop.todo # {},
           NEW i, i = Min(loop.todo), Blocks(i), UNCHANGED <<online, outages>>
    PROVE  SchedulingInv'
  <1>0. /\ Eligible(i) = {} /\ blocked' = blocked \cup {DeploymentOf[i]}
        /\ loop' = [loop EXCEPT !.todo = @ \ {i}] /\ UNCHANGED insts
    BY DEF Blocks
  <1>1. i \in loop.todo /\ i \in Instances /\ loop \in Loop
    BY NextToPlace DEF SchedulingInv, TypeOK
  <1>2. /\ loop' \in Loop /\ loop'.pc = "assign" /\ loop'.todo = loop.todo \ {i}
        /\ loop'.listed = loop.listed /\ loop'.nodes = loop.nodes /\ loop'.caps = loop.caps
    BY <1>0, <1>1 DEF Loop
  <1>3. TypeOK'
    BY <1>0, <1>1, <1>2, SchedulingAssumption DEF SchedulingInv, TypeOK
  <1>4. \A n \in Nodes, r \in Resources : Used(n, r)' = Used(n, r)
    BY <1>0, UsedUnchanged
  <1>5. \A j : Eligible(j)' = Eligible(j)
    BY <1>2 DEF Eligible, Fits, Asks
  <1>6. \A j \in loop'.listed \ loop'.todo :
           insts'[j].status = "PENDING" => Eligible(j)' = {}
    BY <1>0, <1>2, <1>5 DEF SchedulingInv
  <1>7. \A j \in loop'.todo : insts'[j].status = "PENDING"
    BY <1>0, <1>2 DEF SchedulingInv
  <1>8. \A n \in Nodes, r \in Resources :
          /\ Used(n, r)' <= Capacity[n][r]
          /\ loop'.caps[n][r] + Used(n, r)' <= Capacity[n][r]
    BY <1>2, <1>4 DEF SchedulingInv
  <1>9. /\ IsFiniteSet({j \in Instances : insts'[j].status # "none"})
        /\ \A j \in Instances : insts'[j].status \in {"none", "PENDING"} => insts'[j].node = 0
    BY <1>0 DEF SchedulingInv
  <1> QED BY <1>2, <1>3, <1>6, <1>7, <1>8, <1>9 DEF SchedulingInv

\* The copy after an assignment: less on the node that was selected.
LEMMA DeductFacts ==
    ASSUME loop \in Loop, NEW i \in Instances, NEW n \in Nodes
    PROVE  /\ Deduct(loop.caps, n, i) \in [Nodes -> [Resources -> Int]]
           /\ \A m \in Nodes, r \in Resources :
                 /\ loop.caps[m][r] \in Int /\ Asks(i)[r] \in Nat
                 /\ Deduct(loop.caps, n, i)[m][r]
                      = IF m = n THEN loop.caps[m][r] - Asks(i)[r] ELSE loop.caps[m][r]
  <1>1. loop.caps \in [Nodes -> [Resources -> Int]]
    BY DEF Loop
  <1>2. \A r \in Resources : Asks(i)[r] \in Nat
    BY AsksType
  <1>3. Deduct(loop.caps, n, i) =
          [loop.caps EXCEPT ![n] = [r \in Resources |-> @[r] - Asks(i)[r]]]
    BY DEF Deduct
  <1> QED BY <1>1, <1>2, <1>3

\* One that fits on the selected node is placed there and deducted.
LEMMA PlacedKeeps ==
    ASSUME SchedulingInv, loop.pc = "assign", loop.todo # {},
           NEW i, i = Min(loop.todo), NEW n, Places(i, n), UNCHANGED <<online, outages>>
    PROVE  SchedulingInv'
  <1>0. /\ n \in Eligible(i)
        /\ insts' = [insts EXCEPT ![i] = [status |-> "ASSIGNED", node |-> n]]
        /\ blocked' = blocked \ {DeploymentOf[i]}
        /\ loop' = [[loop EXCEPT !.todo = @ \ {i}] EXCEPT
                      !.last = n, !.caps = Deduct(loop.caps, n, i)]
    BY DEF Places
  <1>1. /\ i \in loop.todo /\ i \in Instances /\ loop \in Loop
        /\ insts[i] = [status |-> "PENDING", node |-> 0]
        /\ insts \in [Instances -> [status: Statuses, node: Nodes \cup {0}]]
    BY NextToPlace DEF SchedulingInv, TypeOK
  <1>2. /\ n \in Nodes /\ n # 0
        /\ \A r \in Resources : loop.caps[n][r] >= Asks(i)[r]
    BY <1>0, <1>1, SchedulingAssumption DEF Eligible, Fits, Loop
  <1>3. /\ Deduct(loop.caps, n, i) \in [Nodes -> [Resources -> Int]]
        /\ \A m \in Nodes, r \in Resources :
              /\ loop.caps[m][r] \in Int /\ Asks(i)[r] \in Nat
              /\ Deduct(loop.caps, n, i)[m][r]
                   = IF m = n THEN loop.caps[m][r] - Asks(i)[r] ELSE loop.caps[m][r]
    BY <1>1, <1>2, DeductFacts
  <1>4. /\ loop' \in Loop /\ loop'.pc = "assign" /\ loop'.todo = loop.todo \ {i}
        /\ loop'.listed = loop.listed /\ loop'.nodes = loop.nodes
        /\ loop'.caps = Deduct(loop.caps, n, i)
    BY <1>0, <1>1, <1>2, <1>3 DEF Loop
  <1>5. /\ insts' \in [Instances -> [status: Statuses, node: Nodes \cup {0}]]
        /\ insts'[i] = [status |-> "ASSIGNED", node |-> n]
        /\ \A j \in Instances \ {i} : insts'[j] = insts[j]
    BY <1>0, <1>1, <1>2 DEF Statuses
  <1>6. TypeOK'
    BY <1>0, <1>4, <1>5 DEF SchedulingInv, TypeOK
  <1>7. IsFiniteSet({j \in Instances : insts'[j].status # "none"})
    <2>1. {j \in Instances : insts'[j].status # "none"}
             = {j \in Instances : insts[j].status # "none"}
      BY <1>1, <1>5
    <2> QED BY <2>1 DEF SchedulingInv
  <1>8. \A j \in Instances : insts'[j].status \in {"none", "PENDING"} => insts'[j].node = 0
    BY <1>5 DEF SchedulingInv
  <1>9. ASSUME NEW m \in Nodes, NEW r \in Resources
        PROVE  /\ Used(m, r)' <= Capacity[m][r]
               /\ loop'.caps[m][r] + Used(m, r)' <= Capacity[m][r]
    <2>1. /\ On(m) \in SUBSET Instances /\ IsFiniteSet(On(m))
          /\ Used(m, r) = Load(On(m), r) /\ Used(m, r) \in Nat
      BY OnFinite
    <2>2. /\ Used(m, r) <= Capacity[m][r]
          /\ loop.caps[m][r] + Used(m, r) <= Capacity[m][r]
      BY DEF SchedulingInv
    <2>3. Used(m, r)' = Load(On(m)', r)
      BY UsedIsLoad
    <2>4. Capacity[m][r] \in Nat
      BY SchedulingAssumption
    <2>5. CASE m # n
      <3>1. On(m)' = On(m)
        BY <1>1, <1>5, <2>5 DEF On, Consuming
      <3>2. Used(m, r)' = Used(m, r)
        BY <2>1, <2>3, <3>1
      <3> QED BY <1>3, <1>4, <2>2, <2>5, <3>2
    <2>6. CASE m = n
      <3>1. On(m)' = On(m) \cup {i} /\ i \notin On(m)
        BY <1>1, <1>2, <1>5, <2>6 DEF On, Consuming
      <3>2. /\ On(m)' \in SUBSET Instances /\ IsFiniteSet(On(m)') /\ i \in On(m)'
            /\ On(m)' \ {i} = On(m)
        BY <1>1, <2>1, <3>1, FS_AddElement
      <3>3. Load(On(m)', r) = Load(On(m), r) + Asks(i)[r]
        BY <3>2, LoadAdds
      <3>4. Used(m, r)' = Used(m, r) + Asks(i)[r]
        BY <2>1, <2>3, <3>3
      <3>5. /\ loop'.caps[m][r] = loop.caps[m][r] - Asks(i)[r]
            /\ loop.caps[m][r] \in Int /\ Asks(i)[r] \in Nat
            /\ loop.caps[m][r] >= Asks(i)[r]
        BY <1>2, <1>3, <1>4, <2>6
      <3> QED BY <2>1, <2>2, <2>4, <3>4, <3>5
    <2> QED BY <2>5, <2>6
  <1>10. \A j \in loop'.todo : insts'[j].status = "PENDING"
    BY <1>1, <1>4, <1>5 DEF SchedulingInv, Loop
  <1>11. ASSUME NEW j \in loop'.listed \ loop'.todo, insts'[j].status = "PENDING"
         PROVE  Eligible(j)' = {}
    <2>1. j \in loop.listed \ loop.todo /\ j \in Instances /\ insts[j].status = "PENDING"
      BY <1>1, <1>4, <1>5, <1>11 DEF Loop
    <2>2. Eligible(j) = {}
      BY <2>1 DEF SchedulingInv
    <2>3. \A r \in Resources : Asks(j)[r] \in Nat
      BY <2>1, AsksType
    <2>4. ASSUME NEW m \in Eligible(j)' PROVE FALSE
      <3>1. /\ m \in loop.nodes /\ m \in Nodes
            /\ \A r \in Resources : loop'.caps[m][r] >= Asks(j)[r]
        BY <1>1, <1>4, <2>4 DEF Eligible, Fits, Asks, Loop
      <3>2. ASSUME NEW r \in Resources PROVE loop.caps[m][r] >= Asks(j)[r]
        BY <1>3, <1>4, <2>3, <3>1
      <3> QED BY <2>2, <3>1, <3>2 DEF Eligible, Fits
    <2> QED BY <2>4
  <1> QED BY <1>4, <1>6, <1>7, <1>8, <1>9, <1>10, <1>11 DEF SchedulingInv

\* What an assignment does, in its two cases.
LEMMA AssignCases ==
    ASSUME SchedulingInv, Assign
    PROVE  \E i : /\ i = Min(loop.todo) /\ i \in loop.todo
                  /\ loop.pc = "assign" /\ loop.todo # {} /\ UNCHANGED <<online, outages>>
                  /\ Blocks(i) \/ \E n : Places(i, n)
  <1> DEFINE i == Min(loop.todo)
             n == Select(Eligible(i))
  <1>1. loop.pc = "assign" /\ loop.todo # {} /\ UNCHANGED <<online, outages>>
    BY DEF Assign
  <1>2. i \in loop.todo /\ loop \in Loop
    BY <1>1, NextToPlace DEF SchedulingInv, TypeOK
  <1>3. Eligible(i) # {} => n \in Eligible(i)
    <2>1. Eligible(i) \in SUBSET Nodes
      BY <1>2 DEF Eligible, Loop
    <2> QED BY <2>1, SelectIn
  <1>4. \/ Blocks(i)
        \/ /\ Eligible(i) # {}
           /\ insts' = [insts EXCEPT ![i] = [status |-> "ASSIGNED", node |-> n]]
           /\ blocked' = blocked \ {DeploymentOf[i]}
           /\ loop' = [[loop EXCEPT !.todo = @ \ {i}] EXCEPT
                         !.last = n, !.caps = Deduct(loop.caps, n, i)]
    BY DEF Assign, Blocks
  <1> HIDE DEF i, n
  <1>5. Blocks(i) \/ Places(i, n)
    BY <1>3, <1>4 DEF Places
  <1> QED BY <1>1, <1>2, <1>5, Zenon DEF i

\* Both cases keep the invariant.
LEMMA AssignKeeps ==
    ASSUME SchedulingInv, Assign
    PROVE  SchedulingInv'
  <1>1. PICK i : /\ i = Min(loop.todo) /\ i \in loop.todo
                 /\ loop.pc = "assign" /\ loop.todo # {} /\ UNCHANGED <<online, outages>>
                 /\ Blocks(i) \/ \E n : Places(i, n)
    BY AssignCases
  <1>2. CASE Blocks(i)
    BY <1>1, <1>2, BlockedKeeps
  <1>3. ASSUME NEW n, Places(i, n) PROVE SchedulingInv'
    BY <1>1, <1>3, PlacedKeeps
  <1> QED BY <1>1, <1>2, <1>3

-----------------------------------------------------------------------------
(* Reconciler, agents and nodes                                            *)

\* The reconciler runs between two ticks of the scheduler.
LEMMA ReconcilerKeeps ==
    ASSUME SchedulingInv, NEW i \in Instances,
           ReconcilerCreates(i) \/ ReconcilerUpdates(i)
    PROVE  SchedulingInv'
  <1>1. /\ loop.pc = "reconcile" /\ UNCHANGED <<online, loop, blocked, outages>>
        /\ insts[i].status \in Statuses
        /\ insts[i].status = "PENDING" => insts[i].node = 0
    BY DEF ReconcilerCreates, ReconcilerUpdates, SchedulingInv, TypeOK
  <1>2. \E s : Becomes(i, s) /\ Allowed(insts[i].status, s)
    <2> DEFINE st == insts[i].status
    <2>1. CASE ReconcilerCreates(i)
      <3>1. st = "none" /\ Becomes(i, "PENDING")
        BY <2>1 DEF ReconcilerCreates
      <3>2. Allowed(st, "PENDING")
        BY <1>1, <3>1 DEF Allowed, Terminal, Statuses
      <3> QED BY <3>1, <3>2
    <2>2. CASE ReconcilerUpdates(i)
      <3>1. /\ st \notin Terminal \cup {"none"}
            /\ \/ st # "PENDING" /\ Becomes(i, "UNKNOWN")
               \/ Becomes(i, "CRASHED") \/ Becomes(i, "STOPPED")
               \/ st # "PENDING" /\ Becomes(i, "STOPPING")
        BY <1>1, <2>2 DEF ReconcilerUpdates
      <3>2. /\ Allowed(st, "CRASHED") /\ Allowed(st, "STOPPED")
            /\ st # "PENDING" => Allowed(st, "UNKNOWN") /\ Allowed(st, "STOPPING")
        BY <1>1, <3>1 DEF Allowed, Terminal, Statuses
      <3> QED BY <3>1, <3>2
    <2> QED BY <2>1, <2>2
  <1> QED BY <1>1, <1>2, InstanceStepKeeps

\* Agents report at any time, and never make an instance PENDING or placed.
LEMMA AgentUpdatesKeeps ==
    ASSUME SchedulingInv, NEW i \in Instances,
           AgentUpdates(i)
    PROVE  SchedulingInv'
  <1>1. UNCHANGED <<online, loop, blocked, outages>> /\ insts[i].status \in Statuses
    BY DEF AgentUpdates, SchedulingInv, TypeOK
  <1>2. \E s : Becomes(i, s) /\ Allowed(insts[i].status, s)
    BY <1>1 DEF AgentUpdates, Allowed, Terminal, Statuses
  <1> QED BY <1>1, <1>2, InstanceStepKeeps

\* Nodes that come and go, and reasons cleared by others, disturb nothing.
LEMMA NodesAndReasonsKeep ==
    ASSUME SchedulingInv,
           \/ \E n \in Nodes : NodeLost(n) \/ NodeReturns(n)
           \/ \E d \in Deployments : ReasonCleared(d)
    PROVE  SchedulingInv'
  <1>1. TypeOK' /\ UNCHANGED <<insts, loop>>
    <2>0. TypeOK /\ MaxOutages \in Nat
      BY SchedulingAssumption DEF SchedulingInv
    <2>1. CASE \E n \in Nodes : NodeLost(n)
      BY <2>0, <2>1 DEF TypeOK, NodeLost
    <2>2. CASE \E n \in Nodes : NodeReturns(n)
      BY <2>0, <2>2 DEF TypeOK, NodeReturns
    <2>3. CASE \E d \in Deployments : ReasonCleared(d)
      BY <2>0, <2>3 DEF TypeOK, ReasonCleared
    <2> QED BY <2>1, <2>2, <2>3
  <1> QED BY <1>1, OtherStepKeeps

-----------------------------------------------------------------------------
(* Theorems about the placement                                            *)

\* At first nothing is placed.
LEMMA SchedulingStarts ==
    ASSUME Init PROVE SchedulingInv
  <1>1. TypeOK
    BY SchedulingAssumption DEF Init, TypeOK, Statuses, Loop
  <1>2. /\ \A i \in Instances : insts[i].status = "none" /\ insts[i].node = 0
        /\ loop.pc = "reconcile" /\ loop.todo = {} /\ loop.listed = {}
    BY DEF Init
  <1>3. IsFiniteSet({i \in Instances : insts[i].status # "none"})
    <2>1. {i \in Instances : insts[i].status # "none"} = {}
      BY <1>2
    <2>2. IsFiniteSet({})
      BY FS_EmptySet
    <2> QED BY <2>1, <2>2
  <1>4. ASSUME NEW n \in Nodes, NEW r \in Resources PROVE Used(n, r) <= Capacity[n][r]
    <2>1. On(n) = {}
      BY <1>2 DEF On, Consuming
    <2>2. Used(n, r) = 0
      BY <2>1, UsedIsLoad, LoadEmpty
    <2>3. Capacity[n][r] \in Nat
      BY SchedulingAssumption
    <2> QED BY <2>2, <2>3
  <1> QED BY <1>1, <1>2, <1>3, <1>4 DEF SchedulingInv

\* Every step keeps the invariant.
LEMMA SchedulingSteps ==
    ASSUME SchedulingInv, [Next]_vars
    PROVE  SchedulingInv'
  <1>1. CASE ListNodes \/ TickDone
    BY <1>1, TickEndsKeep
  <1>2. CASE CalculateAll
    BY <1>2, CalculateAllKeeps
  <1>3. CASE ListPending
    BY <1>3, ListPendingKeeps
  <1>4. CASE Assign
    BY <1>4, AssignKeeps
  <1>5. ASSUME NEW i \in Instances, ReconcilerCreates(i) \/ ReconcilerUpdates(i)
        PROVE  SchedulingInv'
    BY <1>5, ReconcilerKeeps
  <1>6. ASSUME NEW i \in Instances, AgentUpdates(i) PROVE SchedulingInv'
    BY <1>6, AgentUpdatesKeeps
  <1>7. CASE \/ \E n \in Nodes : NodeLost(n) \/ NodeReturns(n)
             \/ \E d \in Deployments : ReasonCleared(d)
    BY <1>7, NodesAndReasonsKeep
  <1>8. CASE UNCHANGED vars
    <2>1. TypeOK' /\ UNCHANGED <<insts, loop>>
      BY <1>8 DEF vars, SchedulingInv, TypeOK
    <2> QED BY <2>1, OtherStepKeeps
  <1> QED BY <1>1, <1>2, <1>3, <1>4, <1>5, <1>6, <1>7, <1>8, Zenon DEF Next, Scheduler

\* From the computation of the capacity to the end of the tick, the scheduler's
\* copy is no larger than what is free, what it still has to place is PENDING and
\* what it could not place fits nowhere; nodes are never over-committed.
THEOREM SchedulingInvariant == Spec => []SchedulingInv
  <1>1. Init => SchedulingInv
    BY SchedulingStarts
  <1>2. SchedulingInv /\ [Next]_vars => SchedulingInv'
    BY SchedulingSteps
  <1> QED BY <1>1, <1>2, PTL DEF Spec

\* What the instances placed on a node ask for never exceeds what it has, for any
\* number of nodes, instances and resources, whatever agents report during a tick.
THEOREM NodesNeverOvercommitted == Spec => []NeverOvercommitted
  <1>1. SchedulingInv => NeverOvercommitted
    <2> SUFFICES ASSUME SchedulingInv, NEW n \in Nodes, NEW r \in Resources
                 PROVE  Load({i \in Instances : insts[i].node = n /\
                           insts[i].status \notin Terminal \cup {"none", "PENDING"}}, r)
                        <= Capacity[n][r]
      BY DEF NeverOvercommitted
    <2> DEFINE here == {i \in Instances : insts[i].node = n /\
                            insts[i].status \notin Terminal \cup {"none", "PENDING"}}
    <2>1. here = On(n)
      BY DEF On, Consuming, SchedulingInv, TypeOK, Statuses, Terminal
    <2>2. Used(n, r) = Load(On(n), r) /\ Used(n, r) <= Capacity[n][r]
      BY UsedIsLoad DEF SchedulingInv
    <2> HIDE DEF here
    <2>3. Load(here, r) <= Capacity[n][r]
      BY <2>1, <2>2
    <2> QED BY <2>3 DEF here
  <1> QED BY <1>1, SchedulingInvariant, PTL

\* Placing an instance never clears the reason of a deployment with an instance
\* that the same tick found no node for.
THEOREM PlacingHidesNoReason == Spec => ReasonNotHidden
  <1> DEFINE Kept == loop' # loop =>
               \A i \in loop.listed \ loop'.todo :
                  (insts'[i].status = "PENDING" /\ DeploymentOf[i] \in blocked)
                     => DeploymentOf[i] \in blocked'
  <1>1. ASSUME SchedulingInv, [Next]_vars PROVE [Kept]_vars
    <2> SUFFICES ASSUME loop' # loop, NEW k \in loop.listed \ loop'.todo,
                        insts'[k].status = "PENDING", DeploymentOf[k] \in blocked
                 PROVE  DeploymentOf[k] \in blocked'
      OBVIOUS
    <2>1. CASE Assign
      <3>1. PICK i : i \in loop.todo /\ (Blocks(i) \/ \E n : Places(i, n))
        BY <1>1, <2>1, AssignCases
      <3>2. CASE Blocks(i)
        BY <3>2 DEF Blocks
      <3>3. ASSUME NEW n, Places(i, n)
            PROVE  /\ blocked' = blocked \ {DeploymentOf[i]}
                   /\ DeploymentOf[k] # DeploymentOf[i]
        <4>0. /\ n \in Eligible(i)
              /\ insts' = [insts EXCEPT ![i] = [status |-> "ASSIGNED", node |-> n]]
              /\ blocked' = blocked \ {DeploymentOf[i]}
              /\ loop' = [[loop EXCEPT !.todo = @ \ {i}] EXCEPT
                            !.last = n, !.caps = Deduct(loop.caps, n, i)]
          BY <3>3 DEF Places
        <4>1. /\ insts \in [Instances -> [status: Statuses, node: Nodes \cup {0}]]
              /\ loop \in Loop /\ i \in Instances /\ k \in Instances
          BY <1>1, <3>1 DEF SchedulingInv, TypeOK, Loop
        <4>2. loop'.todo = loop.todo \ {i}
          BY <4>0, <4>1 DEF Loop
        <4>3. k # i /\ k \in loop.listed \ loop.todo /\ insts[k].status = "PENDING"
          BY <4>0, <4>1, <4>2
        <4>4. Eligible(k) = {}
          BY <1>1, <4>3 DEF SchedulingInv
        <4>5. DeploymentOf[k] = DeploymentOf[i] => Eligible(k) = Eligible(i)
          BY DEF Eligible, Fits, Asks
        <4> QED BY <4>0, <4>4, <4>5
      <3> QED BY <3>1, <3>2, <3>3
    <2>2. CASE ~Assign
      <3>1. UNCHANGED blocked
        BY <1>1, <2>2
        DEF Next, Scheduler, ListNodes, CalculateAll, ListPending,
            TickDone, ReconcilerCreates, ReconcilerUpdates, AgentUpdates,
            NodeLost, NodeReturns, ReasonCleared, vars
      <3> QED BY <3>1
    <2> QED BY <2>1, <2>2
  <1>2. Spec => [][Kept]_vars
    BY <1>1, SchedulingInvariant, PTL DEF Spec
  <1> QED BY <1>2 DEF ReasonNotHidden
=============================================================================
