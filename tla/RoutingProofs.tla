--------------------------- MODULE RoutingProofs ----------------------------
(***************************************************************************)
(* Theorems about Routing, for any applications, instances, host names,    *)
(* paths and ports and any number of registry calls.                       *)
(***************************************************************************)
EXTENDS Routing, TLAPS

-----------------------------------------------------------------------------
(* Registry calls                                                          *)

\* The calls of the service and domain registries keep their records well
\* formed.
LEMMA CallTypes ==
    ASSUME services \in Seq(Service), domains \in Seq(Domain)
    PROVE  /\ \A a \in Apps, p \in Ports : AddService(a, p) => services' \in Seq(Service)
           /\ \A p \in Ports : \A s \in DOMAIN services :
                 SetPort(s, p) => services' \in Seq(Service)
           /\ \A s \in DOMAIN services : DropService(s) => services' \in Seq(Service)
           /\ \A n \in Names, a \in Apps : AddDomain(n, a) => domains' \in Seq(Domain)
           /\ \A d \in DOMAIN domains : DropDomain(d) => domains' \in Seq(Domain)
  <1>1. \A a \in Apps, p \in Ports : AddService(a, p) => services' \in Seq(Service)
    BY DEF AddService, Service
  <1>2. ASSUME NEW p \in Ports, NEW s \in DOMAIN services, SetPort(s, p)
        PROVE  services' \in Seq(Service)
    <2>1. CASE s \in LiveServices(services)
      <3>1. services[s] \in [app: Apps, port: Ports]
        BY <2>1 DEF LiveServices, Service
      <3>2. [services[s] EXCEPT !.port = p] \in Service
        BY <3>1 DEF Service
      <3> QED BY <1>2, <2>1, <3>2 DEF SetPort
    <2> QED BY <1>2, <2>1 DEF SetPort
  <1>3. \A s \in DOMAIN services : DropService(s) => services' \in Seq(Service)
    BY DEF DropService, Service
  <1>4. \A n \in Names, a \in Apps : AddDomain(n, a) => domains' \in Seq(Domain)
    BY DEF AddDomain, Domain
  <1>5. \A d \in DOMAIN domains : DropDomain(d) => domains' \in Seq(Domain)
    BY DEF DropDomain, Domain
  <1> QED BY <1>1, <1>2, <1>3, <1>4, <1>5

\* DropIngress blanks a record or does nothing.
LEMMA DropIngressKeeps ==
    ASSUME ingresses \in Seq(Ingress), NEW g, DropIngress(g)
    PROVE  /\ ingresses' \in Seq(Ingress)
           /\ \A x \in LiveIngresses' : x \in LiveIngresses /\ ingresses'[x] = ingresses[x]
  <1>1. NoIngress \in Ingress
    BY NetAssumption DEF NoIngress, Ingress
  <1>2. CASE g \in LiveIngresses
    <2>1. ingresses' = [ingresses EXCEPT ![g] = NoIngress]
      BY <1>2 DEF DropIngress
    <2>2. ingresses' \in Seq(Ingress) /\ DOMAIN ingresses' = DOMAIN ingresses
      BY <1>1, <1>2, <2>1 DEF LiveIngresses
    <2>3. \A x \in DOMAIN ingresses : x # g => ingresses'[x] = ingresses[x]
      BY <2>1
    <2>4. ingresses'[g] = NoIngress
      BY <1>2, <2>1 DEF LiveIngresses
    <2>5. QED
      BY <2>2, <2>3, <2>4 DEF LiveIngresses
  <1>3. CASE g \notin LiveIngresses
    BY <1>3 DEF DropIngress, LiveIngresses
  <1>4. QED
    BY <1>2, <1>3

\* A registry call keeps what the invariant says of the registries and of
\* who owned which host.
ConfigKept ==
    /\ ConfigTypeOK' /\ UniqueNames(domains)' /\ UniquePaths'
    /\ owners \subseteq owners' /\ owners' \subseteq Names \X Apps
    /\ OwnedIn(domains)' \subseteq OwnedIn(domains) \cup owners'

\* A registry call that keeps its part keeps the whole invariant.
LEMMA ChangedKeeps ==
    ASSUME RoutingInv, Changed, ConfigKept
    PROVE  RoutingInv'
  <1>1. changes' \in 0..MaxChanges
    BY RoutingAssumption DEF RoutingInv, TypeOK, Changed
  <1>2. TypeOK'
    BY <1>1 DEF RoutingInv, TypeOK, Changed, ConfigKept
  <1>3. UniqueNames(loop.domains)' /\ OneRulePerPath'
    BY DEF RoutingInv, Changed, UniqueNames, LiveDomains, OneRulePerPath
  <1>4. loop.pc \in {"instances", "domains", "swap"} => OwnedIn(domains)' \subseteq owners'
    BY DEF RoutingInv, ConfigKept
  <1>5. loop.pc = "swap" => OwnedIn(loop.domains)' \subseteq owners'
    BY DEF RoutingInv, Changed, ConfigKept, OwnedIn, LiveDomains
  <1>6. QED
    BY <1>2, <1>3, <1>4, <1>5 DEF RoutingInv, Changed, ConfigKept

\* DomainRegistry.Create refuses a name that is taken.
LEMMA CreateDomainKeeps ==
    ASSUME RoutingInv, NEW s \in Spellings, NEW a \in Apps, CreateDomain(s, a)
    PROVE  RoutingInv'
  <1> DEFINE n == Normalize[s]
             k == Len(domains) + 1
  <1>1. /\ domains \in Seq(Domain) /\ services \in Seq(Service) /\ ingresses \in Seq(Ingress)
        /\ UniqueNames(domains) /\ UniquePaths /\ owners \subseteq Names \X Apps
    BY DEF RoutingInv, TypeOK, ConfigTypeOK
  <1>2. /\ n \in Names /\ ~NameTaken(n) /\ AddDomain(n, a)
        /\ owners' = owners \cup {<<n, a>>} /\ Changed
        /\ UNCHANGED services /\ UNCHANGED ingresses
    BY DEF CreateDomain, NewDomain, Names
  <1> HIDE DEF n
  <1>3. domains' \in Seq(Domain)
    BY <1>1, <1>2, CallTypes
  <1>4. /\ DOMAIN domains' = DOMAIN domains \cup {k} /\ k \notin DOMAIN domains
        /\ \A d \in DOMAIN domains : domains'[d] = domains[d]
        /\ domains'[k].name = n /\ domains'[k].app = a
    BY <1>1, <1>2 DEF AddDomain
  <1>5. \A d \in LiveDomains(domains) : domains[d].name # n
    BY <1>2 DEF NameTaken, Named
  <1>6. UniqueNames(domains)'
    BY <1>1, <1>4, <1>5 DEF UniqueNames, LiveDomains
  <1>7. OwnedIn(domains)' \subseteq OwnedIn(domains) \cup owners'
    BY <1>2, <1>4 DEF OwnedIn, LiveDomains
  <1>8. ConfigKept
    BY <1>1, <1>2, <1>3, <1>6, <1>7 DEF ConfigKept, ConfigTypeOK, UniquePaths, LiveIngresses
  <1>9. QED
    BY <1>2, <1>8, ChangedKeeps

\* Services play no part in names, paths and owners.
LEMMA ServiceCallsKeep ==
    ASSUME RoutingInv, Changed, services' \in Seq(Service),
           UNCHANGED <<domains, ingresses, owners>>
    PROVE  RoutingInv'
  <1>1. ConfigKept
    BY DEF RoutingInv, TypeOK, ConfigTypeOK, ConfigKept, UniqueNames, UniquePaths, OwnedIn,
           LiveDomains, LiveIngresses
  <1>2. QED
    BY <1>1, ChangedKeeps

\* IngressRegistry.Create refuses a domain's path that is taken.
LEMMA CreateIngressKeeps ==
    ASSUME RoutingInv, NEW d \in DOMAIN domains, NEW s \in DOMAIN services, NEW p \in Paths,
           CreateIngress(d, s, p)
    PROVE  RoutingInv'
  <1> DEFINE k == Len(ingresses) + 1
  <1>1. /\ domains \in Seq(Domain) /\ services \in Seq(Service) /\ ingresses \in Seq(Ingress)
        /\ UniqueNames(domains) /\ UniquePaths /\ owners \subseteq Names \X Apps
    BY DEF RoutingInv, TypeOK, ConfigTypeOK
  <1>2. /\ ~PathTaken(d, p) /\ AddIngress(d, s, p) /\ Changed
        /\ UNCHANGED domains /\ UNCHANGED services /\ UNCHANGED owners
    BY DEF CreateIngress, NewIngress
  <1>3. d \in Nat /\ s \in Nat
    BY <1>1
  <1>4. [domain |-> d, service |-> s, path |-> p] \in Ingress
    BY <1>3 DEF Ingress
  <1>5. /\ ingresses' \in Seq(Ingress)
        /\ DOMAIN ingresses' = DOMAIN ingresses \cup {k} /\ k \notin DOMAIN ingresses
        /\ \A g \in DOMAIN ingresses : ingresses'[g] = ingresses[g]
        /\ ingresses'[k].domain = d /\ ingresses'[k].path = p
    BY <1>1, <1>2, <1>4 DEF AddIngress
  <1>6. \A g \in LiveIngresses : ~(ingresses[g].domain = d /\ ingresses[g].path = p)
    BY <1>2 DEF PathTaken, IngressesOf
  <1>7. UniquePaths'
    <2> HIDE DEF k
    <2>1. \A g \in LiveIngresses' :
             g # k => g \in LiveIngresses /\ ingresses'[g] = ingresses[g]
      BY <1>5 DEF LiveIngresses
    <2>2. ASSUME NEW g \in LiveIngresses', NEW h \in LiveIngresses',
                 ingresses'[g].domain = ingresses'[h].domain,
                 ingresses'[g].path = ingresses'[h].path
          PROVE  g = h
      <3>1. CASE g = k /\ h # k
        BY <1>5, <1>6, <2>1, <2>2, <3>1
      <3>2. CASE g # k /\ h = k
        BY <1>5, <1>6, <2>1, <2>2, <3>2
      <3>3. CASE g # k /\ h # k
        BY <1>1, <2>1, <2>2, <3>3 DEF UniquePaths
      <3>4. QED
        BY <3>1, <3>2, <3>3
    <2>3. QED
      BY <2>2 DEF UniquePaths
  <1>8. ConfigKept
    BY <1>1, <1>2, <1>5, <1>7 DEF ConfigKept, ConfigTypeOK, UniqueNames, OwnedIn, LiveDomains
  <1>9. QED
    BY <1>2, <1>8, ChangedKeeps

\* Deleting only takes records away.
LEMMA DeleteKeeps ==
    ASSUME RoutingInv, Delete
    PROVE  RoutingInv'
  <1>1. /\ domains \in Seq(Domain) /\ services \in Seq(Service) /\ ingresses \in Seq(Ingress)
        /\ UniqueNames(domains) /\ UniquePaths /\ owners \subseteq Names \X Apps
    BY DEF RoutingInv, TypeOK, ConfigTypeOK
  <1>2. Changed /\ UNCHANGED owners
    BY DEF Delete
  <1>3. ASSUME NEW d \in LiveDomains(domains), DropDomain(d),
               UNCHANGED services, UNCHANGED ingresses
        PROVE  ConfigKept
    <2>1. domains' \in Seq(Domain)
      BY <1>1, <1>3, CallTypes DEF LiveDomains
    <2>2. \A e \in LiveDomains(domains') : e \in LiveDomains(domains) /\ domains'[e] = domains[e]
      BY <1>1, <1>3 DEF DropDomain, LiveDomains
    <2>3. UniqueNames(domains)' /\ OwnedIn(domains)' \subseteq OwnedIn(domains)
      BY <1>1, <2>2 DEF UniqueNames, OwnedIn
    <2>4. QED
      BY <1>1, <1>2, <1>3, <2>1, <2>3 DEF ConfigKept, ConfigTypeOK, UniquePaths, LiveIngresses
  <1>4. ASSUME NEW g \in LiveIngresses, DropIngress(g), UNCHANGED domains, UNCHANGED services
        PROVE  ConfigKept
    <2>1. /\ ingresses' \in Seq(Ingress)
          /\ \A x \in LiveIngresses' : x \in LiveIngresses /\ ingresses'[x] = ingresses[x]
      BY <1>1, <1>4, DropIngressKeeps
    <2>2. UniquePaths'
      BY <1>1, <2>1 DEF UniquePaths
    <2>3. QED
      BY <1>1, <1>2, <1>4, <2>1, <2>2
         DEF ConfigKept, ConfigTypeOK, UniqueNames, OwnedIn, LiveDomains
  <1>5. ASSUME NEW s \in LiveServices(services), DropService(s),
               UNCHANGED domains, UNCHANGED ingresses
        PROVE  RoutingInv'
    BY <1>1, <1>2, <1>5, CallTypes, ServiceCallsKeep DEF LiveServices
  <1>6. QED
    BY <1>2, <1>3, <1>4, <1>5, ChangedKeeps DEF Delete, Removal

-----------------------------------------------------------------------------
(* The routing round                                                       *)

\* What a step of the loop or of an instance leaves alone keeps its part.
LEMMA NotConfigKeeps ==
    ASSUME RoutingInv, NotConfig
    PROVE  /\ ConfigTypeOK' /\ changes' \in 0..MaxChanges
           /\ UniqueNames(domains)' /\ UniquePaths' /\ OwnedIn(domains)' = OwnedIn(domains)
  BY DEF RoutingInv, TypeOK, ConfigTypeOK, NotConfig, UniqueNames, UniquePaths, OwnedIn,
         LiveDomains, LiveIngresses

\* The instance reconciler: what it marks as draining is still in the table,
\* and the round that it opens takes it out.
LEMMA ReconcileInstancesKeeps ==
    ASSUME RoutingInv, ReconcileInstances
    PROVE  RoutingInv'
  <1>1. insts' \in [Instances -> InstanceStates]
    BY DEF RoutingInv, TypeOK, ReconcileInstances, InstanceStates
  <1>2. /\ loop' \in Loop /\ loop'.pc = "services" /\ loop'.domains = loop.domains
    BY DEF RoutingInv, TypeOK, ReconcileInstances, Loop
  <1>3. UNCHANGED table /\ UNCHANGED owners /\ NotConfig
    BY DEF ReconcileInstances
  <1>4. UniqueNames(loop.domains)' /\ OneRulePerPath'
    BY <1>2, <1>3 DEF RoutingInv, UniqueNames, LiveDomains, OneRulePerPath
  <1>5. TypeOK'
    BY <1>1, <1>2, <1>3, NotConfigKeeps DEF RoutingInv, TypeOK
  <1>6. QED
    BY <1>2, <1>3, <1>4, <1>5, NotConfigKeeps DEF RoutingInv

\* The lists: services, instances and domains are copied one after the other.
LEMMA ListsKeep ==
    ASSUME RoutingInv, ListServices \/ ListInstances \/ ListDomains
    PROVE  RoutingInv'
  <1>1. UNCHANGED insts /\ UNCHANGED table /\ NotConfig
    BY DEF ListServices, ListInstances, ListDomains
  <1>2. OneRulePerPath'
    BY <1>1 DEF RoutingInv, OneRulePerPath
  <1>3. /\ domains \in Seq(Domain) /\ services \in Seq(Service) /\ loop \in Loop
        /\ owners \subseteq Names \X Apps
    BY DEF RoutingInv, TypeOK, ConfigTypeOK
  <1>4. CASE ListServices
    <2>1. /\ loop' \in Loop /\ loop'.pc = "instances" /\ loop'.domains = loop.domains
      BY <1>3, <1>4 DEF ListServices, Loop
    <2>2. owners' = OwnedIn(domains)
      BY <1>4 DEF ListServices, OwnedIn
    <2>3. OwnedIn(domains) \subseteq Names \X Apps
      BY <1>3 DEF OwnedIn, LiveDomains, Domain
    <2>4. UniqueNames(loop.domains)'
      BY <2>1 DEF RoutingInv, UniqueNames, LiveDomains
    <2>5. TypeOK'
      BY <1>1, <2>1, <2>2, <2>3, NotConfigKeeps DEF RoutingInv, TypeOK
    <2>6. QED
      BY <1>1, <1>2, <2>1, <2>2, <2>4, <2>5, NotConfigKeeps DEF RoutingInv
  <1>5. CASE ListInstances
    <2>1. /\ loop' \in Loop /\ loop'.pc = "domains" /\ loop'.domains = loop.domains
          /\ loop'.insts = {i \in Instances : Routable(i)} /\ loop.pc = "instances"
          /\ UNCHANGED owners
      BY <1>3, <1>5 DEF ListInstances, Loop
    <2>2. \A i \in loop'.insts : insts'[i] # "draining"
      BY <1>1, <2>1 DEF Routable
    <2>3. UniqueNames(loop.domains)'
      BY <2>1 DEF RoutingInv, UniqueNames, LiveDomains
    <2>4. TypeOK'
      BY <1>1, <2>1, NotConfigKeeps DEF RoutingInv, TypeOK
    <2>5. QED
      BY <1>1, <1>2, <2>1, <2>2, <2>3, <2>4, NotConfigKeeps DEF RoutingInv
  <1>6. CASE ListDomains
    <2>1. /\ loop' \in Loop /\ loop'.pc = "swap" /\ loop'.domains = domains
          /\ loop'.insts = loop.insts /\ loop.pc = "domains" /\ UNCHANGED owners
      BY <1>3, <1>6 DEF ListDomains, Loop
    <2>2. UniqueNames(loop.domains)' /\ OwnedIn(loop.domains)' = OwnedIn(domains)
      BY <2>1 DEF RoutingInv, UniqueNames, OwnedIn, LiveDomains
    <2>3. TypeOK'
      BY <1>1, <2>1, NotConfigKeeps DEF RoutingInv, TypeOK
    <2>4. QED
      BY <1>1, <1>2, <2>1, <2>2, <2>3, NotConfigKeeps DEF RoutingInv
  <1>7. QED
    BY <1>4, <1>5, <1>6

\* The rules of a round: well formed, one per host and path, to instances of an
\* application that owned the host during the round, none of them draining.
LEMMA RulesFacts ==
    ASSUME RoutingInv, loop.pc = "swap"
    PROVE  /\ Rules \subseteq Rule
           /\ \A r, q \in Rules : (r.host = q.host /\ r.path = q.path) => r = q
           /\ \A r \in Rules : \A i \in r.ends :
                 <<r.host, AppOf[i]>> \in owners /\ insts[i] # "draining"
  <1>1. /\ loop \in Loop /\ ingresses \in Seq(Ingress)
        /\ loop.domains \in Seq(Domain) /\ loop.insts \subseteq Instances
    BY DEF RoutingInv, TypeOK, ConfigTypeOK, Loop
  <1>2. ASSUME NEW g \in LiveIngresses, HasRule(g)
        PROVE  /\ RuleOf(g) \in Rule
               /\ \A i \in RuleOf(g).ends :
                     <<RuleOf(g).host, AppOf[i]>> \in owners /\ insts[i] # "draining"
    <2> DEFINE d == ingresses[g].domain
               s == ingresses[g].service
    <2>1. /\ d \in LiveDomains(loop.domains)
          /\ loop.services[s].app = loop.domains[d].app
      BY <1>2 DEF HasRule
    <2>2. loop.domains[d].name \in Names
      BY <1>1, <2>1 DEF LiveDomains, Domain
    <2>3. ingresses[g].path \in Paths
      <3>1. ingresses[g] \in Ingress
        BY <1>1 DEF LiveIngresses
      <3>2. QED
        BY <3>1 DEF Ingress
    <2>4. /\ Endpoints(s) \subseteq loop.insts
          /\ \A i \in Endpoints(s) : AppOf[i] = loop.services[s].app
      BY DEF Endpoints
    <2>5. RuleOf(g).host = loop.domains[d].name /\ RuleOf(g).ends = Endpoints(s)
      BY DEF RuleOf
    <2>6. RuleOf(g) \in Rule
      BY <1>1, <2>2, <2>3, <2>4 DEF RuleOf, Rule
    <2>7. <<loop.domains[d].name, loop.domains[d].app>> \in owners
      <3>1. <<loop.domains[d].name, loop.domains[d].app>> \in OwnedIn(loop.domains)
        BY <2>1 DEF OwnedIn
      <3>2. OwnedIn(loop.domains) \subseteq owners
        BY DEF RoutingInv
      <3>3. QED
        BY <3>1, <3>2
    <2>8. \A i \in loop.insts : insts[i] # "draining"
      BY DEF RoutingInv
    <2>9. QED
      BY <2>1, <2>4, <2>5, <2>6, <2>7, <2>8
  <1>3. ASSUME NEW g \in LiveIngresses, NEW h \in LiveIngresses, HasRule(g), HasRule(h),
               RuleOf(g).host = RuleOf(h).host, RuleOf(g).path = RuleOf(h).path
        PROVE  g = h
    <2>1. ingresses[g].domain = ingresses[h].domain
      BY <1>3 DEF HasRule, RuleOf, RoutingInv, UniqueNames
    <2>2. ingresses[g].path = ingresses[h].path
      BY <1>3 DEF RuleOf
    <2>3. QED
      BY <2>1, <2>2 DEF RoutingInv, UniquePaths
  <1>4. QED
    BY <1>2, <1>3 DEF Rules

\* The swap.
LEMMA UpdateRoutesKeeps ==
    ASSUME RoutingInv, UpdateRoutes
    PROVE  RoutingInv'
  <1>1. /\ loop.pc = "swap" /\ loop' = NoCopies /\ table' = Rules /\ NotConfig
        /\ UNCHANGED insts /\ UNCHANGED owners
    BY DEF UpdateRoutes
  <1>2. NoCopies \in Loop /\ NoCopies.pc = "reconcile" /\ NoCopies.domains = <<>>
    BY DEF NoCopies, Loop
  <1>3. UniqueNames(loop.domains)'
    BY <1>1, <1>2 DEF UniqueNames, LiveDomains
  <1>4. TypeOK'
    BY <1>1, <1>2, RulesFacts, NotConfigKeeps DEF RoutingInv, TypeOK
  <1>5. OneRulePerPath'
    BY <1>1, RulesFacts DEF OneRulePerPath
  <1>6. \A i \in Instances : insts'[i] = "draining" => \A r \in table' : i \notin r.ends
    BY <1>1, RulesFacts
  <1>7. QED
    BY <1>1, <1>2, <1>3, <1>4, <1>5, <1>6, NotConfigKeeps DEF RoutingInv

\* An instance that becomes healthy or ends by itself is not draining then.
LEMMA InstanceStepKeeps ==
    ASSUME RoutingInv, NEW i \in Instances, InstanceStep(i)
    PROVE  RoutingInv'
  <1>1. UNCHANGED <<loop, table, owners>> /\ NotConfig
    BY DEF InstanceStep, NotConfig
  <1>2. /\ insts' \in [Instances -> InstanceStates]
        /\ \A j \in Instances : insts'[j] = "draining" => insts[j] = "draining"
    BY DEF InstanceStep, InstanceStates, RoutingInv, TypeOK
  <1>3. /\ UniqueNames(loop.domains)' /\ OneRulePerPath'
        /\ OwnedIn(loop.domains)' = OwnedIn(loop.domains)
    BY <1>1 DEF RoutingInv, UniqueNames, LiveDomains, OneRulePerPath, OwnedIn
  <1>4. TypeOK'
    BY <1>1, <1>2, NotConfigKeeps DEF RoutingInv, TypeOK
  <1>5. loop.insts \subseteq Instances
    BY DEF RoutingInv, TypeOK, Loop
  <1>6. QED
    BY <1>1, <1>2, <1>3, <1>4, <1>5, NotConfigKeeps DEF RoutingInv

-----------------------------------------------------------------------------
(* Theorems                                                                *)

\* The initial state has the inductive invariant.
LEMMA InitRouting == Init => RoutingInv
  <1> SUFFICES ASSUME Init PROVE RoutingInv
    OBVIOUS
  <1>1. NoCopies \in Loop /\ NoCopies.pc = "reconcile" /\ NoCopies.domains = <<>>
    BY DEF NoCopies, Loop
  <1>2. TypeOK
    BY <1>1, RoutingAssumption DEF Init, ConfigInit, TypeOK, ConfigTypeOK, InstanceStates
  <1>3. UniqueNames(domains) /\ UniqueNames(loop.domains) /\ UniquePaths /\ OneRulePerPath
    BY <1>1 DEF Init, ConfigInit, UniqueNames, UniquePaths, LiveDomains, LiveIngresses,
                OneRulePerPath
  <1>4. QED
    BY <1>1, <1>2, <1>3 DEF Init, RoutingInv

\* Every step keeps the inductive invariant.
LEMMA NextRouting == RoutingInv /\ [Next]_vars => RoutingInv'
  <1> SUFFICES ASSUME RoutingInv, [Next]_vars PROVE RoutingInv'
    OBVIOUS
  <1>1. CASE UNCHANGED vars
    BY <1>1 DEF vars, RoutingInv, TypeOK, ConfigTypeOK, UniqueNames, UniquePaths, OwnedIn,
                LiveDomains, LiveIngresses, OneRulePerPath
  <1>2. ASSUME NEW a \in Apps, NEW p \in Ports, CreateService(a, p)
        PROVE  RoutingInv'
    <2>1. services' \in Seq(Service)
      BY <1>2, CallTypes DEF CreateService, NewService, RoutingInv, TypeOK, ConfigTypeOK
    <2>2. QED
      BY <1>2, <2>1, ServiceCallsKeep DEF CreateService, NewService
  <1>3. ASSUME NEW s \in DOMAIN services, NEW p \in Ports, UpdateService(s, p)
        PROVE  RoutingInv'
    <2>1. services' \in Seq(Service)
      BY <1>3, CallTypes DEF UpdateService, NewPort, RoutingInv, TypeOK, ConfigTypeOK
    <2>2. QED
      BY <1>3, <2>1, ServiceCallsKeep DEF UpdateService, NewPort
  <1>4. CASE LoopStep
    BY <1>4, ReconcileInstancesKeeps, ListsKeep, UpdateRoutesKeeps DEF LoopStep
  <1>5. QED
    BY <1>1, <1>2, <1>3, <1>4, InstanceStepKeeps, CreateDomainKeeps, CreateIngressKeeps,
       DeleteKeeps DEF Next

\* The registries, the copies and the table stay well formed (Reconcile).
THEOREM RoutingTypes == Spec => []TypeOK
  <1>1. RoutingInv => TypeOK
    BY DEF RoutingInv
  <1>2. QED
    BY <1>1, InitRouting, NextRouting, PTL DEF Spec

\* The table never has two different rules for a host and path, although each
\* round reads the registries one after the other (Reconcile, UpdateRoutes).
THEOREM OneRuleHolds == Spec => []OneRulePerPath
  <1>1. RoutingInv => OneRulePerPath
    BY DEF RoutingInv
  <1>2. QED
    BY <1>1, InitRouting, NextRouting, PTL DEF Spec

\* Only the swap changes the table.
LEMMA TableChanges ==
    ASSUME [Next]_vars, table' # table
    PROVE  loop.pc = "swap" /\ table' = Rules
  BY DEF Next, LoopStep, InstanceStep, ReconcileInstances, ListServices, ListInstances,
         ListDomains, UpdateRoutes, CreateDomain, CreateService, UpdateService, CreateIngress,
         Delete, Changed, vars

\* Only the instance reconciler stops an instance, one that was draining.
LEMMA ReconcilerStops ==
    ASSUME RoutingInv, [Next]_vars, NEW i \in Instances,
           insts'[i] = "stopping", insts[i] # "stopping"
    PROVE  loop.pc = "reconcile" /\ insts[i] = "draining"
  <1>1. insts \in [Instances -> InstanceStates]
    BY DEF RoutingInv, TypeOK
  <1>2. ASSUME NEW j \in Instances, InstanceStep(j)
        PROVE  FALSE
    BY <1>1, <1>2 DEF InstanceStep
  <1>3. CASE ReconcileInstances
    BY <1>1, <1>3 DEF ReconcileInstances
  <1>4. QED
    BY <1>2, <1>3 DEF Next, LoopStep, ListServices, ListInstances, ListDomains, UpdateRoutes,
         CreateDomain, CreateService, UpdateService, CreateIngress, Delete, Changed, vars

\* A new table sends a host's requests only to an application that owned the
\* host since the round began, whatever clients do during the round (Reconcile).
THEOREM RoutesTrue == Spec => RoutesWereTrue
  <1>1. RoutingInv /\ [Next]_vars =>
          [table' # table =>
             \A r \in table' : \A i \in r.ends : <<r.host, AppOf[i]>> \in owners]_vars
    BY TableChanges, RulesFacts
  <1>2. QED
    BY <1>1, InitRouting, NextRouting, PTL DEF Spec, RoutesWereTrue

\* An instance is stopped only after the proxy's table has dropped it (the order
\* of the two reconcilers in the control plane's loop, cp.go).
THEOREM DrainThenStop == Spec => DrainedBeforeStop
  <1>1. RoutingInv /\ [Next]_vars =>
          [\A i \in Instances : insts'[i] = "stopping" /\ insts[i] # "stopping" =>
              \A r \in table : i \notin r.ends]_vars
    BY ReconcilerStops DEF RoutingInv
  <1>2. QED
    BY <1>1, InitRouting, NextRouting, PTL DEF Spec, DrainedBeforeStop
=============================================================================
