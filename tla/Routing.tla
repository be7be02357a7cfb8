------------------------------ MODULE Routing -------------------------------
(***************************************************************************)
(* From configuration and instances to the proxy's routing table:          *)
(* RoutingReconciler.Reconcile (internal/scheduler/routing_reconciler.go)  *)
(* and HTTPProxy.UpdateRoutes (internal/route/proxy_impl.go).              *)
(*                                                                         *)
(* A routing round lists services, instances, domains and ingresses one    *)
(* after the other, each under its own lock, and the registries change in  *)
(* between.  Clients are any sequence of the calls that the requests of    *)
(* Networking make (RegistryCall).  An endpoint, an address and a port,    *)
(* stands for its instance.                                                *)
(***************************************************************************)
EXTENDS NetRegistries, FiniteSets

CONSTANTS Instances,
          AppOf,        \* the application of each instance
          PortOf,       \* the container port each instance publishes
          MaxChanges    \* bound on registry calls

ASSUME RoutingAssumption ==
    /\ AppOf \in [Instances -> Apps] /\ PortOf \in [Instances -> Ports]
    /\ MaxChanges \in Nat

VARIABLES changes,   \* number of registry calls so far
          insts,     \* what routing sees of each instance
          loop,      \* the control-plane loop: position and copies
          table,     \* HTTPProxy.routes
          owners     \* history: who owned which host since the round began

vars == <<domains, services, ingresses, changes, insts, loop, table, owners>>

\* serving: RUNNING and HEALTHY on a node, not draining.
InstanceStates == {"starting", "serving", "draining", "stopping", "crashed"}
Rule == [host: Names, path: Paths, ends: SUBSET Instances]
Loop == [pc: {"reconcile", "services", "instances", "domains", "swap"},
         services: Seq(Service), insts: SUBSET Instances, domains: Seq(Domain)]
NoCopies == [pc |-> "reconcile", services |-> <<>>, insts |-> {}, domains |-> <<>>]

TypeOK ==
    /\ ConfigTypeOK /\ changes \in 0..MaxChanges
    /\ insts \in [Instances -> InstanceStates]
    /\ loop \in Loop
    /\ table \subseteq Rule
    /\ owners \subseteq Names \X Apps

Init ==
    /\ ConfigInit /\ changes = 0
    /\ insts = [i \in Instances |-> "starting"]
    /\ loop = NoCopies /\ table = {} /\ owners = {}

-----------------------------------------------------------------------------
(* Registry calls                                                          *)

Changed ==
    /\ changes < MaxChanges /\ changes' = changes + 1
    /\ UNCHANGED <<insts, loop, table>>

CreateDomain(s, a) ==
    NewDomain(s, a) /\ Changed /\ owners' = owners \cup {<<Normalize[s], a>>}

CreateService(a, p) == NewService(a, p) /\ Changed /\ UNCHANGED owners

UpdateService(s, p) == NewPort(s, p) /\ Changed /\ UNCHANGED owners

CreateIngress(d, s, p) == NewIngress(d, s, p) /\ Changed /\ UNCHANGED owners

Delete == Removal /\ Changed /\ UNCHANGED owners

-----------------------------------------------------------------------------
(* The control-plane loop: instance reconciler, then routing reconciler    *)

NotConfig == UNCHANGED <<domains, services, ingresses, changes>>

\* Reconcile looks at an instance once per tick: it is marked as draining in
\* one tick and stopped in a later one.
ReconcileInstances ==
    /\ loop.pc = "reconcile"
    /\ \E S \in SUBSET {i \in Instances : insts[i] \in {"serving", "draining"}} :
          insts' = [i \in Instances |->
                      IF i \notin S THEN insts[i]
                      ELSE IF insts[i] = "serving" THEN "draining" ELSE "stopping"]
    /\ loop' = [loop EXCEPT !.pc = "services"]
    /\ NotConfig /\ UNCHANGED <<table, owners>>

ListServices ==
    /\ loop.pc = "services"
    /\ loop' = [loop EXCEPT !.pc = "instances", !.services = services]
    /\ owners' = {<<domains[d].name, domains[d].app>> : d \in LiveDomains(domains)}
    /\ NotConfig /\ UNCHANGED <<insts, table>>

\* Mutant of Routable: draining instances keep their traffic.
RoutableRunning(i) == insts[i] \in {"serving", "draining"}

Routable(i) == insts[i] = "serving"

\* Nodes are listed too; every instance here is on a registered node.
ListInstances ==
    /\ loop.pc = "instances"
    /\ loop' = [loop EXCEPT !.pc = "domains", !.insts = {i \in Instances : Routable(i)}]
    /\ NotConfig /\ UNCHANGED <<insts, table, owners>>

ListDomains ==
    /\ loop.pc = "domains"
    /\ loop' = [loop EXCEPT !.pc = "swap", !.domains = domains]
    /\ NotConfig /\ UNCHANGED <<insts, table, owners>>

\* Mutant of Endpoints: instances are chosen by their port only.
EndpointsOnPort(s) == {i \in loop.insts : PortOf[i] = loop.services[s].port}

Endpoints(s) == {i \in loop.insts : /\ AppOf[i] = loop.services[s].app
                                    /\ PortOf[i] = loop.services[s].port}

\* The rule of ingress g, if its domain and service are in the copies and
\* belong to one application.
HasRule(g) ==
    LET d == ingresses[g].domain  s == ingresses[g].service IN
    /\ d \in LiveDomains(loop.domains) /\ s \in LiveServices(loop.services)
    /\ loop.services[s].app = loop.domains[d].app
RuleOf(g) == [host |-> loop.domains[ingresses[g].domain].name, path |-> ingresses[g].path,
              ends |-> Endpoints(ingresses[g].service)]
Rules == {RuleOf(g) : g \in {x \in LiveIngresses : HasRule(x)}}

\* Mutant of UpdateRoutes: rules are only replaced by rules for their host.
UpdateRoutesMerging ==
    /\ loop.pc = "swap" /\ loop' = NoCopies
    /\ table' = Rules \cup {r \in table : \A q \in Rules : q.host # r.host}
    /\ NotConfig /\ UNCHANGED <<insts, owners>>

\* The ingresses are listed and the table is replaced.
UpdateRoutes ==
    /\ loop.pc = "swap" /\ loop' = NoCopies
    /\ table' = Rules
    /\ NotConfig /\ UNCHANGED <<insts, owners>>

LoopStep == ReconcileInstances \/ ListServices \/ ListInstances \/ ListDomains \/ UpdateRoutes

\* An instance becomes healthy, or ends by itself, at any time.
InstanceStep(i) ==
    /\ \/ insts[i] = "starting" /\ insts' = [insts EXCEPT ![i] = "serving"]
       \/ /\ insts[i] \in {"starting", "serving", "draining"}
          /\ insts' = [insts EXCEPT ![i] = "crashed"]
    /\ UNCHANGED <<domains, services, ingresses, changes, loop, table, owners>>

Next ==
    \/ LoopStep
    \/ \E i \in Instances : InstanceStep(i)
    \/ \E s \in Spellings, a \in Apps : CreateDomain(s, a)
    \/ \E a \in Apps, p \in Ports : CreateService(a, p)
    \/ \E s \in DOMAIN services, p \in Ports : UpdateService(s, p)
    \/ \E d \in DOMAIN domains, s \in DOMAIN services, p \in Paths : CreateIngress(d, s, p)
    \/ Delete

\* The loop ticks every second.
Spec == Init /\ [][Next]_vars /\ WF_vars(LoopStep)

-----------------------------------------------------------------------------
(* Properties                                                              *)

\* One host and path never has two rules with different endpoints, although
\* domains, services and ingresses are listed one after the other while a path is
\* deleted and mapped again (DomainRegistry.Create and IngressRegistry.Create).
\* It says nothing of a path and a longer one, such as / and /api: the proxy takes
\* the first rule whose path is a prefix of the request's, in the order of a Go
\* map, so there the order decides.
OneRulePerPath ==
    \A r, q \in table : (r.host = q.host /\ r.path = q.path) => r = q

\* What the proofs of the three safety properties need.  Names and paths are
\* unique among what lives in the registries and in the copy of the domains; who
\* owns a host now, or did when the domains were listed, has owned it since the
\* round began; no draining instance is in the copy, nor, between rounds, in the
\* table.
UniqueNames(ds) == \A d, e \in LiveDomains(ds) : ds[d].name = ds[e].name => d = e
UniquePaths ==
    \A g, h \in LiveIngresses :
        (ingresses[g].domain = ingresses[h].domain /\ ingresses[g].path = ingresses[h].path)
            => g = h
OwnedIn(ds) == {<<ds[d].name, ds[d].app>> : d \in LiveDomains(ds)}
RoutingInv ==
    /\ TypeOK
    /\ UniqueNames(domains) /\ UniqueNames(loop.domains) /\ UniquePaths
    /\ OneRulePerPath
    /\ loop.pc \in {"instances", "domains", "swap"} => OwnedIn(domains) \subseteq owners
    /\ loop.pc = "swap" => OwnedIn(loop.domains) \subseteq owners
    /\ loop.pc \in {"domains", "swap"} => \A i \in loop.insts : insts[i] # "draining"
    /\ loop.pc = "reconcile" =>
          \A i \in Instances : insts[i] = "draining" => \A r \in table : i \notin r.ends

\* A rule sends a host's requests only to instances of an application that
\* owned the host at some time since the round began, also when the host
\* changes hands during the round (Reconcile joins copies by id).
RoutesWereTrue ==
    [][table' # table => \A r \in table' : \A i \in r.ends : <<r.host, AppOf[i]>> \in owners]_vars

\* When the reconciler stops an instance that was draining, the proxy does not
\* send it requests any more: routing runs after the reconciler in each tick.
DrainedBeforeStop ==
    [][\A i \in Instances : insts'[i] = "stopping" /\ insts[i] # "stopping" =>
          \A r \in table : i \notin r.ends]_vars

Desired ==
    {[host |-> domains[ingresses[g].domain].name, path |-> ingresses[g].path,
      ends |-> {i \in Instances : /\ insts[i] = "serving"
                                  /\ AppOf[i] = services[ingresses[g].service].app
                                  /\ PortOf[i] = services[ingresses[g].service].port}] :
        g \in {x \in LiveIngresses : /\ ingresses[x].domain \in LiveDomains(domains)
                                     /\ ingresses[x].service \in LiveServices(services)}}

\* Once clients and instances are at rest, the proxy routes exactly what is
\* configured and serving (Reconcile rebuilds the table on every tick).
TableConverges == <>[](table = Desired)
=============================================================================
