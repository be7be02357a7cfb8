----------------------------- MODULE Networking -----------------------------
(***************************************************************************)
(* The requests that change what is routed: the service, domain and        *)
(* ingress handlers (internal/api/route.go, domain.go, ingress.go) and the *)
(* networking part of ApplyHandler.Apply (internal/api/apply.go), which    *)
(* module Apps leaves out.  A handler makes several registry calls, so     *)
(* requests of several clients interleave call by call.                    *)
(***************************************************************************)
EXTENDS NetRegistries, FiniteSets

CONSTANTS Clients,       \* clients, each with one request at a time
          Ops,           \* the operations clients use
          MaxRequests    \* bound on requests

ASSUME NetworkingAssumption ==
    Ops \subseteq {"domain", "service", "ingress", "delete", "apply"} /\ MaxRequests \in Nat

VARIABLES reqs,      \* the request of each client and its copies
          requests   \* number of requests so far

vars == <<domains, services, ingresses, reqs, requests>>

\* A request: todo are the manifest's names still to map, current the domains
\* listed before that; alone: no other request has been under way meanwhile.
Request == [pc: {"idle", "ingress", "service", "create service", "update service",
                 "list", "domain", "create domain", "find ingress", "create ingress",
                 "delete ingress", "replace ingress", "prune ingress", "prune domain"},
            app: Apps \cup {None}, want: SUBSET Spellings, port: Ports \cup {0},
            service: Nat, todo: SUBSET Spellings, name: Spellings \cup {None},
            domain: Nat, ingress: Nat, path: Paths, current: SUBSET (Nat \X Names),
            alone: BOOLEAN]
Idle == [pc |-> "idle", app |-> None, want |-> {}, port |-> 0, service |-> 0,
         todo |-> {}, name |-> None, domain |-> 0, ingress |-> 0, path |-> "/",
         current |-> {}, alone |-> TRUE]

TypeOK == ConfigTypeOK /\ reqs \in [Clients -> Request] /\ requests \in 0..MaxRequests

Init == ConfigInit /\ reqs = [c \in Clients |-> Idle] /\ requests = 0

-----------------------------------------------------------------------------
(* Requests                                                                *)

Busy(c) == reqs[c].pc # "idle"
At(c, pc) == reqs[c].pc = pc
Becomes(c, r) == reqs' = [reqs EXCEPT ![c] = r]

\* A request arrives; it and those under way overlap.
Arrives(c, r) ==
    /\ ~Busy(c) /\ requests < MaxRequests /\ requests' = requests + 1
    /\ LET others == {o \in Clients \ {c} : Busy(o)} IN
       reqs' = [o \in Clients |-> IF o = c THEN [r EXCEPT !.alone = (others = {})]
                                  ELSE [reqs[o] EXCEPT !.alone = @ /\ o \notin others]]

\* Handlers that make one registry call on what they check.
CreateDomain(c, s, a) ==
    LET n == Normalize[s] IN
    /\ "domain" \in Ops /\ ~NameTaken(n)
    /\ Arrives(c, Idle) /\ AddDomain(n, a) /\ UNCHANGED <<services, ingresses>>

CreateService(c, a, p) ==
    /\ "service" \in Ops /\ Arrives(c, Idle)
    /\ AddService(a, p) /\ UNCHANGED <<domains, ingresses>>

UpdateService(c, s, p) ==
    /\ "service" \in Ops /\ s \in LiveServices(services) /\ Arrives(c, Idle)
    /\ SetPort(s, p)
    /\ UNCHANGED <<domains, ingresses>>

DeleteDomain(c, d) ==
    /\ "delete" \in Ops /\ d \in LiveDomains(domains) /\ Arrives(c, Idle)
    /\ DropDomain(d) /\ UNCHANGED <<services, ingresses>>

DeleteService(c, s) ==
    /\ "delete" \in Ops /\ s \in LiveServices(services) /\ Arrives(c, Idle)
    /\ DropService(s)
    /\ UNCHANGED <<domains, ingresses>>

DeleteIngress(c, g) ==
    /\ "delete" \in Ops /\ g \in LiveIngresses /\ Arrives(c, Idle)
    /\ DropIngress(g) /\ UNCHANGED <<domains, services>>

\* IngressHandler.Create: domain and service of one application, then Create.
IngressChecks(c, d, s, p) ==
    /\ "ingress" \in Ops /\ d \in LiveDomains(domains) /\ s \in LiveServices(services)
    /\ domains[d].app = services[s].app
    /\ Arrives(c, [Idle EXCEPT !.pc = "ingress", !.domain = d, !.service = s, !.path = p])
    /\ UNCHANGED config

IngressCreates(c) ==
    LET r == reqs[c] IN
    /\ At(c, "ingress") /\ Becomes(c, Idle)
    /\ IF PathTaken(r.domain, r.path) THEN UNCHANGED ingresses
       ELSE AddIngress(r.domain, r.service, r.path)
    /\ UNCHANGED <<domains, services, requests>>

-----------------------------------------------------------------------------
(* Apply: the service                                                      *)

\* A manifest without a service has no domains.
RequestApply(c, a, want, p) ==
    /\ "apply" \in Ops /\ (p = 0 => want = {})
    /\ Arrives(c, [Idle EXCEPT !.pc = IF p = 0 THEN "list" ELSE "service",
                               !.app = a, !.want = want, !.port = p])
    /\ UNCHANGED config

\* Any service of the application, in the map's order.
ApplyFindsService(c) ==
    LET r == reqs[c]
        mine == {s \in LiveServices(services) : services[s].app = r.app} IN
    /\ At(c, "service")
    /\ \/ mine = {} /\ Becomes(c, [r EXCEPT !.pc = "create service"])
       \/ \E s \in mine :
             Becomes(c, [r EXCEPT !.service = s,
                          !.pc = IF services[s].port = r.port THEN "list" ELSE "update service"])
    /\ UNCHANGED <<config, requests>>

ApplyCreatesService(c) ==
    LET r == reqs[c] IN
    /\ At(c, "create service")
    /\ AddService(r.app, r.port)
    /\ Becomes(c, [r EXCEPT !.pc = "list", !.service = Len(services) + 1])
    /\ UNCHANGED <<domains, ingresses, requests>>

\* The error of an update of a service deleted meanwhile is dropped.
ApplyUpdatesService(c) ==
    LET r == reqs[c] IN
    /\ At(c, "update service")
    /\ SetPort(r.service, r.port)
    /\ Becomes(c, [r EXCEPT !.pc = "list"])
    /\ UNCHANGED <<domains, ingresses, requests>>

-----------------------------------------------------------------------------
(* Apply: domains and ingresses                                            *)

\* Mutant of ApplyListsDomains: those of other applications too.
ApplyListsAllDomains(c) ==
    LET r == reqs[c] IN
    /\ At(c, "list")
    /\ Becomes(c, [r EXCEPT !.pc = "domain", !.todo = r.want,
                    !.current = {<<d, domains[d].name>> : d \in LiveDomains(domains)}])
    /\ UNCHANGED <<config, requests>>

ApplyListsDomains(c) ==
    LET r == reqs[c] IN
    /\ At(c, "list")
    /\ Becomes(c, [r EXCEPT !.pc = "domain", !.todo = r.want,
                    !.current = {<<d, domains[d].name>> :
                        d \in {x \in LiveDomains(domains) : domains[x].app = r.app}}])
    /\ UNCHANGED <<config, requests>>

\* Mutant of ApplyLooksUp: the owner of the domain is not looked at.
ApplyLooksUpAny(c) ==
    LET r == reqs[c] IN
    /\ At(c, "domain")
    /\ \E s \in r.todo :
          LET found == Named(Normalize[s]) IN
          \/ found = {} /\ Becomes(c, [r EXCEPT !.pc = "create domain", !.name = s])
          \/ \E d \in found :
                Becomes(c, [r EXCEPT !.pc = "find ingress", !.name = s, !.domain = d])
    /\ UNCHANGED <<config, requests>>

\* GetByName; a domain of another application ends the request.
ApplyLooksUp(c) ==
    LET r == reqs[c] IN
    /\ At(c, "domain")
    /\ \E s \in r.todo :
          LET found == Named(Normalize[s]) IN
          \/ found = {} /\ Becomes(c, [r EXCEPT !.pc = "create domain", !.name = s])
          \/ \E d \in found :
                Becomes(c, IF domains[d].app # r.app THEN Idle
                           ELSE [r EXCEPT !.pc = "find ingress", !.name = s, !.domain = d])
    /\ UNCHANGED <<config, requests>>

ApplyCreatesDomain(c) ==
    LET r == reqs[c]  n == Normalize[r.name] IN
    /\ At(c, "create domain")
    /\ \/ NameTaken(n) /\ Becomes(c, Idle) /\ UNCHANGED domains
       \/ /\ ~NameTaken(n) /\ AddDomain(n, r.app)
          /\ Becomes(c, [r EXCEPT !.pc = "find ingress", !.domain = Len(domains) + 1])
    /\ UNCHANGED <<services, ingresses, requests>>

NextName(r) == [r EXCEPT !.pc = "domain", !.todo = @ \ {r.name}, !.name = None,
                         !.domain = 0, !.ingress = 0]

\* Any ingress of the domain, whatever its path.
ApplyFindsIngress(c) ==
    LET r == reqs[c] IN
    /\ At(c, "find ingress")
    /\ \/ IngressesOf(r.domain) = {} /\ Becomes(c, [r EXCEPT !.pc = "create ingress"])
       \/ \E g \in IngressesOf(r.domain) :
             Becomes(c, IF ingresses[g].service = r.service THEN NextName(r)
                        ELSE [r EXCEPT !.pc = "delete ingress", !.ingress = g])
    /\ UNCHANGED <<config, requests>>

ApplyDeletesIngress(c) ==
    /\ At(c, "delete ingress")
    /\ DropIngress(reqs[c].ingress)
    /\ Becomes(c, [reqs[c] EXCEPT !.pc = "replace ingress"])
    /\ UNCHANGED <<domains, services, requests>>

\* A failure ends the request, unless an ingress is being replaced.
ApplyCreatesIngress(c) ==
    LET r == reqs[c]  taken == PathTaken(r.domain, "/") IN
    /\ r.pc \in {"create ingress", "replace ingress"}
    /\ IF taken THEN UNCHANGED ingresses ELSE AddIngress(r.domain, r.service, "/")
    /\ Becomes(c, IF taken /\ r.pc = "create ingress" THEN Idle ELSE NextName(r))
    /\ UNCHANGED <<domains, services, requests>>

-----------------------------------------------------------------------------
(* Apply: pruning                                                          *)

\* Mutant of Pruned: domains that have no ingress are forgotten.
PrunedIngresses(r) == {e \in r.current : e[2] \notin r.want /\ IngressesOf(e[1]) # {}}

\* The listed domains that are not in the manifest, as the manifest spells them.
Pruned(r) == {e \in r.current : e[2] \notin r.want}

ApplyPrunes(c) ==
    LET r == reqs[c] IN
    /\ At(c, "domain") /\ r.todo = {}
    /\ \/ Pruned(r) = {} /\ Becomes(c, Idle)
       \/ \E d \in {e[1] : e \in Pruned(r)} :
             \/ /\ IngressesOf(d) = {}
                /\ Becomes(c, [r EXCEPT !.pc = "prune domain", !.domain = d])
             \/ \E g \in IngressesOf(d) :
                   Becomes(c, [r EXCEPT !.pc = "prune ingress", !.domain = d, !.ingress = g])
    /\ UNCHANGED <<config, requests>>

ApplyPrunesIngress(c) ==
    /\ At(c, "prune ingress") /\ DropIngress(reqs[c].ingress)
    /\ Becomes(c, [reqs[c] EXCEPT !.pc = "prune domain", !.ingress = 0])
    /\ UNCHANGED <<domains, services, requests>>

ApplyPrunesDomain(c) ==
    LET r == reqs[c] IN
    /\ At(c, "prune domain") /\ DropDomain(r.domain)
    /\ Becomes(c, [r EXCEPT !.pc = "domain", !.domain = 0, !.current = {e \in @ : e[1] # r.domain}])
    /\ UNCHANGED <<services, ingresses, requests>>

ApplyStep(c) ==
    \/ ApplyFindsService(c) \/ ApplyCreatesService(c) \/ ApplyUpdatesService(c)
    \/ ApplyListsDomains(c) \/ ApplyLooksUp(c) \/ ApplyCreatesDomain(c)
    \/ ApplyFindsIngress(c) \/ ApplyDeletesIngress(c) \/ ApplyCreatesIngress(c)
    \/ ApplyPrunes(c) \/ ApplyPrunesIngress(c) \/ ApplyPrunesDomain(c)

Next ==
    \E c \in Clients :
       \/ \E s \in Spellings, a \in Apps : CreateDomain(c, s, a)
       \/ \E a \in Apps, p \in Ports : CreateService(c, a, p)
       \/ \E s \in DOMAIN services, p \in Ports : UpdateService(c, s, p)
       \/ \E d \in DOMAIN domains : DeleteDomain(c, d)
       \/ \E s \in DOMAIN services : DeleteService(c, s)
       \/ \E g \in DOMAIN ingresses : DeleteIngress(c, g)
       \/ \E d \in DOMAIN domains, s \in DOMAIN services, p \in Paths : IngressChecks(c, d, s, p)
       \/ IngressCreates(c)
       \/ \E a \in Apps, want \in SUBSET Spellings, p \in Ports \cup {0} :
             RequestApply(c, a, want, p)
       \/ ApplyStep(c)

Spec == Init /\ [][Next]_vars

-----------------------------------------------------------------------------
(* Properties                                                              *)

\* Whatever requests overlap, an ingress never joins a domain and a service of
\* different applications: each writer checks, or creates, the domain and the
\* service in calls of its own before it creates the ingress
\* (IngressHandler.Create, Apply).
IngressWithinApplication ==
    \A g \in LiveIngresses :
        LET d == ingresses[g].domain  s == ingresses[g].service IN
        (d \in LiveDomains(domains) /\ s \in LiveServices(services))
            => domains[d].app = services[s].app

\* What makes it inductive.  Ids are not reused and records keep their
\* application, so what a request has found out stays true until the record is
\* deleted: the domain and the service the ingress handler compared, the service
\* and the domain an apply looked up or created.
ApplyPcs == {"service", "create service", "update service", "list", "domain",
             "create domain", "find ingress", "create ingress", "delete ingress",
             "replace ingress", "prune ingress", "prune domain"}
ServicePcs == {"service", "create service", "update service"}
MappingPcs == {"find ingress", "create ingress", "delete ingress", "replace ingress"}
OwnsDomain(d, a) ==
    d \in DOMAIN domains /\ (d \in LiveDomains(domains) => domains[d].app = a)
OwnsService(s, a) ==
    s \in 0..Len(services) /\ (s \in LiveServices(services) => services[s].app = a)
Together(d, s) ==
    /\ d \in DOMAIN domains /\ s \in 0..Len(services)
    /\ (d \in LiveDomains(domains) /\ s \in LiveServices(services))
          => domains[d].app = services[s].app
Held(r) ==
    /\ r.pc = "ingress" => Together(r.domain, r.service)
    /\ r.pc \in ApplyPcs => OwnsService(r.service, r.app)
    /\ r.pc \in MappingPcs => OwnsDomain(r.domain, r.app)
    /\ r.pc \in ApplyPcs => r.app \in Apps
    /\ r.pc \in ServicePcs => r.port \in Ports
    /\ r.pc = "create domain" => r.name \in Spellings
WithinInv ==
    /\ TypeOK
    /\ \A g \in LiveIngresses : Together(ingresses[g].domain, ingresses[g].service)
    /\ \A c \in Clients : Held(reqs[c])

\* No step of an apply touches a domain of another application or an ingress of
\* one, not even when hosts change hands between its calls (the owner check,
\* the listing before the prune, Create's own check).
ApplyStaysWithin ==
    [][\A c \in Clients : (reqs[c].app # None /\ reqs'[c].pc # reqs[c].pc) =>
          \A d \in LiveDomains(domains) : domains[d].app # reqs[c].app =>
              /\ domains'[d] = domains[d]
              /\ \A g \in IngressesOf(d) : ingresses'[g] = ingresses[g]]_vars

\* What makes it inductive: whatever changes hands meanwhile, the domains an apply
\* listed and the one it prunes are its application's as long as they live, and
\* the ingress it is about to delete is one of that domain.
OnDomain(g, d) ==
    g \in DOMAIN ingresses /\ (g \in LiveIngresses => ingresses[g].domain = d)
Listed(r) ==
    /\ r.pc \notin ApplyPcs => r.app = None
    /\ r.pc \in ApplyPcs => \A e \in r.current : OwnsDomain(e[1], r.app)
    /\ r.pc \in {"prune ingress", "prune domain"} => OwnsDomain(r.domain, r.app)
    /\ r.pc \in {"delete ingress", "prune ingress"} => OnDomain(r.ingress, r.domain)
StaysInv == WithinInv /\ \A c \in Clients : Listed(reqs[c])

\* An apply that overlaps no other request and succeeds leaves the application
\* with exactly the manifest's domains, each with an ingress, whatever was
\* configured before (find, create, replace and prune of Apply), if the manifest
\* spells the names as the registry does.
Normalized(r) == \A s \in r.want : Normalize[s] = s
Mine(a) == {d \in LiveDomains(domains) : domains[d].app = a}
ApplyConfigures ==
    [][\A c \in Clients :
        (/\ At(c, "domain") /\ reqs[c].todo = {} /\ reqs'[c].pc = "idle"
         /\ reqs[c].alone /\ Normalized(reqs[c])) =>
          /\ {domains[d].name : d \in Mine(reqs[c].app)} = {Normalize[s] : s \in reqs[c].want}
          /\ \A d \in Mine(reqs[c].app) : IngressesOf(d) # {}]_vars

\* What makes it inductive.  Names are unique; while an apply is alone, each domain
\* of the application is still listed, or is mapped already, or is being mapped;
\* what is mapped has its ingress, and what is pruned is not in the manifest.
NamesUnique ==
    \A d, e \in LiveDomains(domains) : domains[d].name = domains[e].name => d = e
AloneMeansAlone ==
    \A c \in Clients : Busy(c) /\ reqs[c].alone => \A o \in Clients \ {c} : ~Busy(o)
AfterListing == MappingPcs \cup {"domain", "create domain", "prune ingress", "prune domain"}
Mapped(r) == r.want \ r.todo
Accounted(r) ==
    /\ r.todo \subseteq r.want
    /\ \A e \in r.current : e[1] \in LiveDomains(domains) /\ domains[e[1]].name = e[2]
    /\ r.pc \in MappingPcs \cup {"create domain"} => r.name \in r.todo
    /\ r.pc \in MappingPcs => r.domain \in Mine(r.app) /\ domains[r.domain].name = r.name
    /\ r.pc \in {"prune ingress", "prune domain"} =>
          /\ r.todo = {} /\ r.domain \in LiveDomains(domains)
          /\ domains[r.domain].name \notin r.want
    /\ \A d \in Mine(r.app) : \/ <<d, domains[d].name>> \in r.current
                              \/ domains[d].name \in Mapped(r)
                              \/ r.pc \in MappingPcs /\ d = r.domain
    /\ \A s \in Mapped(r) : \E d \in Mine(r.app) : domains[d].name = s /\ IngressesOf(d) # {}
ConfiguresInv ==
    /\ StaysInv /\ NamesUnique /\ AloneMeansAlone
    /\ \A c \in Clients :
          reqs[c].pc \in AfterListing /\ reqs[c].alone /\ Normalized(reqs[c]) => Accounted(reqs[c])

\* Whatever requests overlap, all they do to the registries is a sequence of the
\* calls that Routing runs beside: names and paths stay unique, and an ingress is
\* for a domain and a service that once were of one application.
OnlyRegistryCalls == [][RegistryCall]_config

\* What makes it inductive: who maps a name has chosen a service.
Chosen(r) ==
    /\ r.pc = "ingress" => r.service # 0
    /\ r.pc \in ApplyPcs /\ r.want # {} => r.port # 0
    /\ r.pc \in ApplyPcs \ {"service", "create service"} /\ r.port # 0 => r.service # 0
    /\ r.pc \in AfterListing => r.todo \subseteq r.want
    /\ r.pc \in MappingPcs \cup {"create domain"} => r.want # {}
CallsInv == WithinInv /\ \A c \in Clients : Chosen(reqs[c])

-----------------------------------------------------------------------------
(* What documents say and the code does not do                             *)

\* MILESTONE_8M, "domains and service update the networking registries
\* immediately": after an apply that overlaps no other request, the root path of
\* each domain leads to a service with the manifest's port.
ApplyMapsRoot ==
    [][\A c \in Clients :
        (/\ At(c, "domain") /\ reqs[c].todo = {} /\ reqs'[c].pc = "idle"
         /\ reqs[c].alone /\ reqs[c].want # {}) =>
          \A d \in LiveDomains(domains) : domains[d].app = reqs[c].app =>
             \E g \in IngressesOf(d) :
                /\ ingresses[g].path = "/" /\ ingresses[g].service \in LiveServices(services)
                /\ services[ingresses[g].service].port = reqs[c].port]_vars

\* MILESTONE_8M, "runstack apply is strictly idempotent": an apply that overlaps
\* no other request never deletes a domain of its own manifest, however the
\* manifest spells it.
ApplyKeepsDomains ==
    [][\A c \in Clients : \A d \in LiveDomains(domains) :
        (At(c, "prune domain") /\ reqs[c].alone /\ domains'[d] # domains[d]) =>
           domains[d].name \notin {Normalize[s] : s \in reqs[c].want}]_vars
=============================================================================
