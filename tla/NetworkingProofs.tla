-------------------------- MODULE NetworkingProofs --------------------------
(***************************************************************************)
(* Theorems about Networking, for any number of clients, applications,     *)
(* host names, paths, ports and requests.                                  *)
(***************************************************************************)
EXTENDS Networking, TLAPS

-----------------------------------------------------------------------------
(* What the calls of the three registries keep.                            *)

\* What every registry call does to the records that exist: a domain, or a
\* service, that lives afterwards lived before, for the same application.
KeepsDomains ==
    /\ DOMAIN domains \subseteq DOMAIN domains'
    /\ \A d \in DOMAIN domains : d \in LiveDomains(domains') =>
          d \in LiveDomains(domains) /\ domains'[d].app = domains[d].app
KeepsServices ==
    /\ Len(services) <= Len(services')
    /\ \A s \in DOMAIN services : s \in LiveServices(services') =>
          s \in LiveServices(services) /\ services'[s].app = services[s].app

\* AddDomain appends a record of the registry and keeps the others.
LEMMA AddDomainKeeps ==
    ASSUME domains \in Seq(Domain), NEW n \in Names, NEW a \in Apps, AddDomain(n, a)
    PROVE  /\ domains' \in Seq(Domain) /\ KeepsDomains
           /\ Len(domains') = Len(domains) + 1
           /\ domains'[Len(domains) + 1].app = a
  BY DEF AddDomain, KeepsDomains, LiveDomains, Domain

\* DropDomain blanks a record or does nothing.
LEMMA DropDomainKeeps ==
    ASSUME domains \in Seq(Domain), NEW d, DropDomain(d)
    PROVE  domains' \in Seq(Domain) /\ KeepsDomains
  BY DEF DropDomain, KeepsDomains, LiveDomains, Domain

\* AddService appends a record of the registry and keeps the others.
LEMMA AddServiceKeeps ==
    ASSUME services \in Seq(Service), NEW a \in Apps, NEW p \in Ports, AddService(a, p)
    PROVE  /\ services' \in Seq(Service) /\ KeepsServices
           /\ Len(services') = Len(services) + 1
           /\ services'[Len(services) + 1].app = a
  BY DEF AddService, KeepsServices, LiveServices, Service

\* DropService blanks a record or does nothing.
LEMMA DropServiceKeeps ==
    ASSUME services \in Seq(Service), NEW s, DropService(s)
    PROVE  services' \in Seq(Service) /\ KeepsServices
  BY DEF DropService, KeepsServices, LiveServices, Service

\* SetPort changes no record's application.
LEMMA SetPortKeeps ==
    ASSUME services \in Seq(Service), NEW s, NEW p \in Ports, SetPort(s, p)
    PROVE  services' \in Seq(Service) /\ KeepsServices
  <1>1. CASE s \in LiveServices(services)
    <2>1. services[s] \in [app: Apps, port: Ports]
      BY <1>1 DEF LiveServices, Service
    <2>2. /\ services' = [services EXCEPT ![s].port = p]
          /\ [services[s] EXCEPT !.port = p] \in [app: Apps, port: Ports]
          /\ [services[s] EXCEPT !.port = p].app = services[s].app
      BY <1>1, <2>1 DEF SetPort
    <2>3. QED
      BY <1>1, <2>1, <2>2 DEF KeepsServices, LiveServices, Service
  <1>2. CASE s \notin LiveServices(services)
    BY <1>2 DEF SetPort, KeepsServices
  <1>3. QED
    BY <1>1, <1>2

\* DropIngress blanks a record or does nothing.
LEMMA DropIngressKeeps ==
    ASSUME ingresses \in Seq(Ingress), NEW g, DropIngress(g)
    PROVE  /\ ingresses' \in Seq(Ingress)
           /\ \A x \in LiveIngresses' : x \in LiveIngresses /\ ingresses'[x] = ingresses[x]
  <1>1. NoIngress \in Ingress
    BY NetAssumption DEF NoIngress, Ingress
  <1>2. CASE g \in LiveIngresses
    <2>1. ingresses' = [ingresses EXCEPT ![g] = NoIngress]
      BY <1>2 DEF DropIngress
    <2>2. ingresses' \in Seq(Ingress) /\ DOMAIN ingresses' = DOMAIN ingresses
      BY <1>1, <1>2, <2>1 DEF LiveIngresses
    <2>3. \A x \in DOMAIN ingresses : x # g => ingresses'[x] = ingresses[x]
      BY <2>1
    <2>4. ingresses'[g] = NoIngress
      BY <1>2, <2>1 DEF LiveIngresses
    <2>5. QED
      BY <2>2, <2>3, <2>4 DEF LiveIngresses
  <1>3. CASE g \notin LiveIngresses
    BY <1>3 DEF DropIngress, LiveIngresses
  <1>4. QED
    BY <1>2, <1>3

\* Every ingress afterwards was there before, or joins what belongs together.
NewIngressesTogether ==
    \A g \in LiveIngresses' :
        \/ g \in LiveIngresses /\ ingresses'[g] = ingresses[g]
        \/ Together(ingresses'[g].domain, ingresses'[g].service)

\* A registry that is left alone keeps its records.
LEMMA UnchangedKeeps ==
    /\ UNCHANGED domains => KeepsDomains
    /\ services \in Seq(Service) /\ UNCHANGED services => KeepsServices
    /\ UNCHANGED ingresses => NewIngressesTogether
  BY DEF KeepsDomains, KeepsServices, NewIngressesTogether, LiveIngresses

\* AddIngress of a domain and a service that belong together.
LEMMA AddIngressTogether ==
    ASSUME ingresses \in Seq(Ingress), NEW d \in Nat, NEW s \in Nat, NEW p \in Paths,
           AddIngress(d, s, p), Together(d, s)
    PROVE  ingresses' \in Seq(Ingress) /\ NewIngressesTogether
  BY DEF AddIngress, NewIngressesTogether, LiveIngresses, Ingress

\* DropIngress adds no ingress.
LEMMA DropIngressTogether ==
    ASSUME ingresses \in Seq(Ingress), NEW g, DropIngress(g)
    PROVE  ingresses' \in Seq(Ingress) /\ NewIngressesTogether
  BY DropIngressKeeps DEF NewIngressesTogether

-----------------------------------------------------------------------------
(* The inductive step                                                      *)

\* A step keeps the inductive invariant if it keeps the records, adds only
\* ingresses of what belongs together, and leaves each request with what it has
\* found out.
LEMMA StepKeeps ==
    ASSUME WithinInv, TypeOK', KeepsDomains, KeepsServices, NewIngressesTogether,
           \A c \in Clients : Held(reqs'[c]) \/ Held(reqs[c])'
    PROVE  WithinInv'
  <1>1. /\ domains \in Seq(Domain) /\ domains' \in Seq(Domain)
        /\ services \in Seq(Service) /\ services' \in Seq(Service)
    BY DEF WithinInv, TypeOK, ConfigTypeOK
  <1>2. ASSUME NEW d, NEW s, Together(d, s)
        PROVE  Together(d, s)'
    BY <1>1, <1>2 DEF Together, KeepsDomains, KeepsServices, LiveServices
  <1>3. ASSUME NEW d, NEW a, OwnsDomain(d, a)
        PROVE  OwnsDomain(d, a)'
    BY <1>1, <1>3 DEF OwnsDomain, KeepsDomains
  <1>4. ASSUME NEW s, NEW a, OwnsService(s, a)
        PROVE  OwnsService(s, a)'
    BY <1>1, <1>4 DEF OwnsService, KeepsServices, LiveServices
  <1>5. ASSUME NEW c \in Clients
        PROVE  Held(reqs[c])'
    BY <1>2, <1>3, <1>4 DEF Held
  <1>6. ASSUME NEW g \in LiveIngresses'
        PROVE  Together(ingresses[g].domain, ingresses[g].service)'
    BY <1>2 DEF NewIngressesTogether, WithinInv
  <1>7. QED
    BY <1>5, <1>6 DEF WithinInv

-----------------------------------------------------------------------------
(* Requests                                                                *)

\* A client without a request holds nothing.
LEMMA IdleFacts == Idle \in Request /\ Held(Idle)
  <1>1. Idle \in Request
    BY NetAssumption DEF Idle, Request
  <1>2. Idle.pc = "idle"
    BY DEF Idle
  <1>3. QED
    BY <1>1, <1>2 DEF Held, ApplyPcs, ServicePcs, MappingPcs

\* A request arrives with what it has found out.
LEMMA ArrivesKeeps ==
    ASSUME WithinInv, NEW c \in Clients, NEW r \in Request, Arrives(c, r), Held(r)
    PROVE  /\ reqs' \in [Clients -> Request] /\ requests' \in 0..MaxRequests
           /\ \A o \in Clients : Held(reqs'[o])
  <1> DEFINE others == {o \in Clients \ {c} : Busy(o)}
             now(o) == IF o = c THEN [r EXCEPT !.alone = (others = {})]
                       ELSE [reqs[o] EXCEPT !.alone = @ /\ o \notin others]
  <1>1. reqs' = [o \in Clients |-> now(o)]
    BY DEF Arrives
  <1>2. requests' \in 0..MaxRequests
    BY NetworkingAssumption DEF WithinInv, TypeOK, Arrives
  <1>3. ASSUME NEW q \in Request, NEW b \in BOOLEAN
        PROVE  /\ [q EXCEPT !.alone = b] \in Request
               /\ Held(q) => Held([q EXCEPT !.alone = b])
    <2>1. [q EXCEPT !.alone = b] \in Request
      BY ZenonT(40) DEF Request
    <2>2. /\ [q EXCEPT !.alone = b].pc = q.pc
          /\ [q EXCEPT !.alone = b].app = q.app
          /\ [q EXCEPT !.alone = b].domain = q.domain
          /\ [q EXCEPT !.alone = b].service = q.service
          /\ [q EXCEPT !.alone = b].port = q.port
          /\ [q EXCEPT !.alone = b].name = q.name
      BY DEF Request
    <2>3. QED
      BY <2>1, <2>2 DEF Held
  <1>4. ASSUME NEW o \in Clients
        PROVE  now(o) \in Request /\ Held(now(o))
    <2>1. CASE o = c
      BY <2>1, <1>3
    <2>2. CASE o # c
      <3>1. reqs[o] \in Request /\ Held(reqs[o])
        BY DEF WithinInv, TypeOK
      <3>2. reqs[o].alone \in BOOLEAN
        BY <3>1 DEF Request
      <3>3. (reqs[o].alone /\ o \notin others) \in BOOLEAN
        OBVIOUS
      <3>4. now(o) = [reqs[o] EXCEPT !.alone = (reqs[o].alone /\ o \notin others)]
        BY <2>2
      <3>5. QED
        BY <1>3, <3>1, <3>3, <3>4
    <2>3. QED
      BY <2>1, <2>2
  <1>5. QED
    BY <1>1, <1>2, <1>4

\* A request goes on with what it has found out.
LEMMA BecomesKeeps ==
    ASSUME WithinInv, NEW c \in Clients, NEW r \in Request, Becomes(c, r), UNCHANGED requests
    PROVE  /\ reqs' \in [Clients -> Request] /\ requests' \in 0..MaxRequests
           /\ reqs'[c] = r
           /\ Held(r) => \A o \in Clients : Held(reqs'[o])
           /\ \A o \in Clients \ {c} : Held(reqs'[o])
  BY DEF WithinInv, TypeOK, Becomes

-----------------------------------------------------------------------------
(* The handlers of services, domains and ingresses                         *)

\* A handler that makes one registry call and keeps no request.
LEMMA SimpleHandlersKeep ==
    ASSUME WithinInv, NEW c \in Clients,
           \/ \E s \in Spellings, a \in Apps : CreateDomain(c, s, a)
           \/ \E a \in Apps, p \in Ports : CreateService(c, a, p)
           \/ \E s \in DOMAIN services, p \in Ports : UpdateService(c, s, p)
           \/ \E d \in DOMAIN domains : DeleteDomain(c, d)
           \/ \E s \in DOMAIN services : DeleteService(c, s)
           \/ \E g \in DOMAIN ingresses : DeleteIngress(c, g)
    PROVE  WithinInv'
  <1>1. /\ domains \in Seq(Domain) /\ services \in Seq(Service) /\ ingresses \in Seq(Ingress)
    BY DEF WithinInv, TypeOK, ConfigTypeOK
  <1>2. Arrives(c, Idle)
    BY DEF CreateDomain, CreateService, UpdateService, DeleteDomain, DeleteService,
           DeleteIngress
  <1>3. /\ reqs' \in [Clients -> Request] /\ requests' \in 0..MaxRequests
        /\ \A o \in Clients : Held(reqs'[o])
    BY <1>2, IdleFacts, ArrivesKeeps
  <1>4. \A s \in Spellings : Normalize[s] \in Names
    BY DEF Names
  <1>5. /\ domains' \in Seq(Domain) /\ services' \in Seq(Service) /\ ingresses' \in Seq(Ingress)
        /\ KeepsDomains /\ KeepsServices /\ NewIngressesTogether
    <2>1. CASE \E s \in Spellings, a \in Apps : CreateDomain(c, s, a)
      BY <2>1, <1>1, <1>4, AddDomainKeeps, UnchangedKeeps DEF CreateDomain
    <2>2. CASE \E a \in Apps, p \in Ports : CreateService(c, a, p)
      BY <2>2, <1>1, AddServiceKeeps, UnchangedKeeps DEF CreateService
    <2>3. CASE \E s \in DOMAIN services, p \in Ports : UpdateService(c, s, p)
      BY <2>3, <1>1, SetPortKeeps, UnchangedKeeps DEF UpdateService
    <2>4. CASE \E d \in DOMAIN domains : DeleteDomain(c, d)
      BY <2>4, <1>1, DropDomainKeeps, UnchangedKeeps DEF DeleteDomain
    <2>5. CASE \E s \in DOMAIN services : DeleteService(c, s)
      BY <2>5, <1>1, DropServiceKeeps, UnchangedKeeps DEF DeleteService
    <2>6. CASE \E g \in DOMAIN ingresses : DeleteIngress(c, g)
      BY <2>6, <1>1, DropIngressTogether, UnchangedKeeps DEF DeleteIngress
    <2>7. QED
      BY <2>1, <2>2, <2>3, <2>4, <2>5, <2>6
  <1>6. TypeOK'
    BY <1>3, <1>5 DEF TypeOK, ConfigTypeOK
  <1>7. QED
    BY <1>3, <1>5, <1>6, StepKeeps

\* The ingress handler compares the applications and holds the comparison.
LEMMA IngressChecksKeeps ==
    ASSUME WithinInv, NEW c \in Clients, NEW d \in DOMAIN domains, NEW s \in DOMAIN services,
           NEW p \in Paths, IngressChecks(c, d, s, p)
    PROVE  WithinInv'
  <1> DEFINE r == [Idle EXCEPT !.pc = "ingress", !.domain = d, !.service = s, !.path = p]
  <1>1. /\ domains \in Seq(Domain) /\ services \in Seq(Service) /\ ingresses \in Seq(Ingress)
    BY DEF WithinInv, TypeOK, ConfigTypeOK
  <1>2. r \in Request /\ r.pc = "ingress" /\ r.domain = d /\ r.service = s
    <2>1. d \in Nat /\ s \in Nat
      BY <1>1
    <2>2. QED
      BY <2>1, IdleFacts DEF Request
  <1>3. Held(r)
    BY <1>1, <1>2 DEF IngressChecks, Held, Together, ApplyPcs, ServicePcs, MappingPcs
  <1>4. /\ reqs' \in [Clients -> Request] /\ requests' \in 0..MaxRequests
        /\ \A o \in Clients : Held(reqs'[o])
    BY <1>2, <1>3, ArrivesKeeps DEF IngressChecks
  <1>5. UNCHANGED domains /\ UNCHANGED services /\ UNCHANGED ingresses
    BY DEF IngressChecks, config
  <1>6. TypeOK'
    BY <1>1, <1>4, <1>5 DEF TypeOK, ConfigTypeOK
  <1>7. QED
    BY <1>1, <1>4, <1>5, <1>6, UnchangedKeeps, StepKeeps

\* The ingress handler creates what it compared, whatever happened meanwhile.
LEMMA IngressCreatesKeeps ==
    ASSUME WithinInv, NEW c \in Clients, IngressCreates(c)
    PROVE  WithinInv'
  <1>1. /\ domains \in Seq(Domain) /\ services \in Seq(Service) /\ ingresses \in Seq(Ingress)
        /\ reqs[c] \in Request
    BY DEF WithinInv, TypeOK, ConfigTypeOK
  <1>2. Together(reqs[c].domain, reqs[c].service)
    BY DEF WithinInv, Held, IngressCreates, At
  <1>3. /\ reqs' \in [Clients -> Request] /\ requests' \in 0..MaxRequests
        /\ \A o \in Clients : Held(reqs'[o])
    BY IdleFacts, BecomesKeeps DEF IngressCreates
  <1>4. ingresses' \in Seq(Ingress) /\ NewIngressesTogether
    <2>1. reqs[c].domain \in Nat /\ reqs[c].service \in Nat /\ reqs[c].path \in Paths
      BY <1>1 DEF Request
    <2>2. QED
      BY <1>1, <1>2, <2>1, AddIngressTogether, UnchangedKeeps DEF IngressCreates
  <1>5. UNCHANGED domains /\ UNCHANGED services
    BY DEF IngressCreates
  <1>6. TypeOK'
    BY <1>1, <1>3, <1>4, <1>5 DEF TypeOK, ConfigTypeOK
  <1>7. QED
    BY <1>1, <1>3, <1>4, <1>5, <1>6, UnchangedKeeps, StepKeeps

-----------------------------------------------------------------------------
(* Apply                                                                   *)

\* A step of an apply: one registry call, and the request goes on with what it
\* has found out.
LEMMA ApplyStepKeeps ==
    ASSUME WithinInv, NEW c \in Clients, NEW r \in Request, Becomes(c, r), UNCHANGED requests,
           domains' \in Seq(Domain), services' \in Seq(Service), ingresses' \in Seq(Ingress),
           KeepsDomains, KeepsServices, NewIngressesTogether,
           Held(r) \/ Held(reqs[c])'
    PROVE  WithinInv'
  <1>1. /\ reqs' \in [Clients -> Request] /\ requests' \in 0..MaxRequests
        /\ reqs'[c] = r
        /\ Held(r) => \A o \in Clients : Held(reqs'[o])
        /\ \A o \in Clients \ {c} : Held(reqs'[o])
    BY BecomesKeeps
  <1>2. TypeOK'
    BY <1>1 DEF TypeOK, ConfigTypeOK
  <1>3. \A o \in Clients : Held(reqs'[o]) \/ Held(reqs[o])'
    <2>1. CASE Held(r)
      BY <2>1, <1>1
    <2>2. CASE Held(reqs[c])'
      BY <2>2, <1>1
    <2>3. QED
      BY <2>1, <2>2
  <1>4. QED
    BY <1>2, <1>3, StepKeeps

\* A step of an apply that only reads.
LEMMA ApplyReadKeeps ==
    ASSUME WithinInv, NEW c \in Clients, NEW r \in Request, Becomes(c, r), Held(r),
           UNCHANGED <<config, requests>>
    PROVE  WithinInv'
  <1>1. /\ domains \in Seq(Domain) /\ services \in Seq(Service) /\ ingresses \in Seq(Ingress)
    BY DEF WithinInv, TypeOK, ConfigTypeOK
  <1>2. UNCHANGED domains /\ UNCHANGED services /\ UNCHANGED ingresses /\ UNCHANGED requests
    BY DEF config
  <1>3. QED
    BY <1>1, <1>2, UnchangedKeeps, ApplyStepKeeps

\* A manifest arrives: no service has been looked up yet.
LEMMA RequestApplyKeeps ==
    ASSUME WithinInv, NEW c \in Clients, NEW a \in Apps, NEW want \in SUBSET Spellings,
           NEW p \in Ports \cup {0}, RequestApply(c, a, want, p)
    PROVE  WithinInv'
  <1> DEFINE r == [Idle EXCEPT !.pc = IF p = 0 THEN "list" ELSE "service",
                               !.app = a, !.want = want, !.port = p]
  <1>1. /\ domains \in Seq(Domain) /\ services \in Seq(Service) /\ ingresses \in Seq(Ingress)
    BY DEF WithinInv, TypeOK, ConfigTypeOK
  <1>2. /\ r \in Request /\ r.pc = (IF p = 0 THEN "list" ELSE "service")
        /\ r.app = a /\ r.port = p /\ r.service = 0
    BY IdleFacts, ZenonT(40) DEF Idle, Request
  <1>3. OwnsService(0, a)
    BY <1>1 DEF OwnsService, LiveServices
  <1>4. Held(r)
    BY <1>2, <1>3 DEF Held, ApplyPcs, ServicePcs, MappingPcs
  <1>5. /\ reqs' \in [Clients -> Request] /\ requests' \in 0..MaxRequests
        /\ \A o \in Clients : Held(reqs'[o])
    BY <1>2, <1>4, ArrivesKeeps DEF RequestApply
  <1>6. UNCHANGED domains /\ UNCHANGED services /\ UNCHANGED ingresses
    BY DEF RequestApply, config
  <1>7. TypeOK'
    BY <1>1, <1>5, <1>6 DEF TypeOK, ConfigTypeOK
  <1>8. QED
    BY <1>1, <1>5, <1>6, <1>7, UnchangedKeeps, StepKeeps

\* The service of an apply: found for its application, or created for it.
LEMMA ApplyServiceKeeps ==
    ASSUME WithinInv, NEW c \in Clients,
           ApplyFindsService(c) \/ ApplyCreatesService(c) \/ ApplyUpdatesService(c)
    PROVE  WithinInv'
  <1> DEFINE r == reqs[c]
  <1>1. /\ domains \in Seq(Domain) /\ services \in Seq(Service) /\ ingresses \in Seq(Ingress)
        /\ r \in Request /\ Held(r)
    BY DEF WithinInv, TypeOK, ConfigTypeOK
  <1>2. OwnsService(r.service, r.app) /\ r.app \in Apps /\ r.port \in Ports
    BY <1>1 DEF Held, ApplyPcs, ServicePcs, At, ApplyFindsService, ApplyCreatesService,
                ApplyUpdatesService
  <1>3. CASE ApplyFindsService(c)
    <2>1. CASE Becomes(c, [r EXCEPT !.pc = "create service"])
      <3>1. /\ [r EXCEPT !.pc = "create service"] \in Request
            /\ Held([r EXCEPT !.pc = "create service"])
        BY <1>1, <1>2 DEF Request, Held, ApplyPcs, ServicePcs, MappingPcs
      <3>2. QED
        BY <1>3, <2>1, <3>1, ApplyReadKeeps DEF ApplyFindsService
    <2>2. CASE \E s \in {x \in LiveServices(services) : services[x].app = r.app} :
                 Becomes(c, [r EXCEPT !.service = s,
                     !.pc = IF services[s].port = r.port THEN "list" ELSE "update service"])
      <3>1. PICK s \in LiveServices(services) :
               /\ services[s].app = r.app
               /\ Becomes(c, [r EXCEPT !.service = s,
                     !.pc = IF services[s].port = r.port THEN "list" ELSE "update service"])
        BY <2>2
      <3> DEFINE q == [r EXCEPT !.service = s,
                     !.pc = IF services[s].port = r.port THEN "list" ELSE "update service"]
      <3>2. s \in Nat /\ OwnsService(s, r.app)
        BY <1>1, <3>1 DEF OwnsService, LiveServices
      <3>3. /\ q \in Request /\ q.service = s /\ q.app = r.app /\ q.port = r.port
            /\ q.pc = "list" \/ q.pc = "update service"
        BY <1>1, <3>2, ZenonT(40) DEF Request
      <3>4. Held(q)
        BY <1>2, <3>2, <3>3 DEF Held, ApplyPcs, ServicePcs, MappingPcs
      <3>5. QED
        BY <1>3, <3>1, <3>3, <3>4, ApplyReadKeeps DEF ApplyFindsService
    <2>3. QED
      BY <1>3, <2>1, <2>2 DEF ApplyFindsService
  <1>4. CASE ApplyCreatesService(c)
    <2> DEFINE q == [r EXCEPT !.pc = "list", !.service = Len(services) + 1]
    <2>1. /\ q \in Request /\ q.pc = "list" /\ q.service = Len(services) + 1 /\ q.app = r.app
      <3>1. Len(services) + 1 \in Nat
        BY <1>1
      <3>2. QED
        BY <1>1, <3>1 DEF Request
    <2>2. /\ services' \in Seq(Service) /\ KeepsServices
          /\ Len(services') = Len(services) + 1
          /\ services'[Len(services) + 1].app = r.app
      BY <1>1, <1>2, <1>4, AddServiceKeeps DEF ApplyCreatesService
    <2>3. reqs'[c] = q
      BY <1>4, <2>1, BecomesKeeps DEF ApplyCreatesService
    <2>4. OwnsService(reqs[c].service, reqs[c].app)'
      BY <1>1, <2>1, <2>2, <2>3 DEF OwnsService
    <2>5. Held(reqs[c])'
      BY <1>2, <2>1, <2>3, <2>4 DEF Held, ApplyPcs, ServicePcs, MappingPcs
    <2>6. QED
      BY <1>1, <1>4, <2>1, <2>2, <2>5, UnchangedKeeps, ApplyStepKeeps DEF ApplyCreatesService
  <1>5. CASE ApplyUpdatesService(c)
    <2>1. /\ [r EXCEPT !.pc = "list"] \in Request
          /\ Held([r EXCEPT !.pc = "list"])
      BY <1>1, <1>2 DEF Request, Held, ApplyPcs, ServicePcs, MappingPcs
    <2>2. services' \in Seq(Service) /\ KeepsServices
      BY <1>1, <1>2, <1>5, SetPortKeeps DEF ApplyUpdatesService
    <2>3. QED
      BY <1>1, <1>5, <2>1, <2>2, UnchangedKeeps, ApplyStepKeeps DEF ApplyUpdatesService
  <1>6. QED
    BY <1>3, <1>4, <1>5

\* A request past its service goes on with the same service.
LEMMA HeldOn ==
    ASSUME NEW r, Held(r), r.pc \in ApplyPcs, NEW q,
           q.service = r.service, q.app = r.app, q.pc \in ApplyPcs \ ServicePcs,
           q.pc \in MappingPcs => OwnsDomain(q.domain, r.app),
           q.pc = "create domain" => q.name \in Spellings
    PROVE  Held(q)
  BY DEF Held, ApplyPcs, ServicePcs

\* Listing the application's domains and looking up one of the manifest's.
LEMMA ApplyLooksKeeps ==
    ASSUME WithinInv, NEW c \in Clients, ApplyListsDomains(c) \/ ApplyLooksUp(c)
    PROVE  WithinInv'
  <1> DEFINE r == reqs[c]
  <1>1. /\ domains \in Seq(Domain) /\ r \in Request /\ Held(r)
    BY DEF WithinInv, TypeOK, ConfigTypeOK
  <1>2. r.pc \in ApplyPcs
    BY DEF ApplyListsDomains, ApplyLooksUp, At, ApplyPcs
  <1>3. CASE ApplyListsDomains(c)
    <2> DEFINE mine == {x \in LiveDomains(domains) : domains[x].app = r.app}
               cur == {<<d, domains[d].name>> : d \in mine}
               q == [r EXCEPT !.pc = "domain", !.todo = r.want, !.current = cur]
    <2>1. cur \in SUBSET (Nat \X Names)
      BY <1>1 DEF LiveDomains, Domain
    <2>2. /\ q \in Request /\ q.pc = "domain" /\ q.service = r.service /\ q.app = r.app
      <3> HIDE DEF cur
      <3>1. QED
        BY <1>1, <2>1 DEF Request
    <2>3. Held(q)
      <3> HIDE DEF q
      <3>1. QED
        BY <1>1, <1>2, <2>2, HeldOn DEF ApplyPcs, ServicePcs, MappingPcs
    <2>4. QED
      BY <1>3, <2>2, <2>3, ApplyReadKeeps DEF ApplyListsDomains
  <1>4. CASE ApplyLooksUp(c)
    <2>1. PICK s \in r.todo :
             \/ Becomes(c, [r EXCEPT !.pc = "create domain", !.name = s])
             \/ \E d \in Named(Normalize[s]) :
                   Becomes(c, IF domains[d].app # r.app THEN Idle
                              ELSE [r EXCEPT !.pc = "find ingress", !.name = s, !.domain = d])
      BY <1>4 DEF ApplyLooksUp
    <2>2. s \in Spellings
      BY <1>1 DEF Request
    <2>3. UNCHANGED <<config, requests>>
      BY <1>4 DEF ApplyLooksUp
    <2>4. CASE Becomes(c, [r EXCEPT !.pc = "create domain", !.name = s])
      <3> DEFINE q == [r EXCEPT !.pc = "create domain", !.name = s]
      <3>1. /\ q \in Request /\ q.pc = "create domain" /\ q.service = r.service
            /\ q.app = r.app /\ q.name = s
        BY <1>1, <2>2 DEF Request
      <3>2. Held(q)
        <4> HIDE DEF q
        <4>1. QED
          BY <1>1, <1>2, <2>2, <3>1, HeldOn DEF ApplyPcs, ServicePcs, MappingPcs
      <3>3. QED
        BY <2>3, <2>4, <3>1, <3>2, ApplyReadKeeps
    <2>5. ASSUME NEW d \in Named(Normalize[s]),
                 Becomes(c, IF domains[d].app # r.app THEN Idle
                            ELSE [r EXCEPT !.pc = "find ingress", !.name = s, !.domain = d])
          PROVE  WithinInv'
      <3>1. CASE domains[d].app # r.app
        BY <2>3, <2>5, <3>1, IdleFacts, ApplyReadKeeps
      <3>2. CASE domains[d].app = r.app
        <4> DEFINE q == [r EXCEPT !.pc = "find ingress", !.name = s, !.domain = d]
        <4>1. d \in Nat /\ OwnsDomain(d, r.app)
          BY <1>1, <3>2 DEF Named, LiveDomains, OwnsDomain
        <4>2. /\ q \in Request /\ q.pc = "find ingress" /\ q.service = r.service
              /\ q.app = r.app /\ q.domain = d
          BY <1>1, <2>2, <4>1 DEF Request
        <4>3. Held(q)
          <5> HIDE DEF q
          <5>1. QED
            BY <1>1, <1>2, <4>1, <4>2, HeldOn DEF ApplyPcs, ServicePcs
        <4>4. QED
          BY <2>3, <2>5, <3>2, <4>2, <4>3, ApplyReadKeeps
      <3>3. QED
        BY <3>1, <3>2
    <2>6. QED
      BY <2>1, <2>4, <2>5
  <1>5. QED
    BY <1>3, <1>4

\* A host created for the application is the application's.
LEMMA ApplyCreatesDomainKeeps ==
    ASSUME WithinInv, NEW c \in Clients, ApplyCreatesDomain(c)
    PROVE  WithinInv'
  <1> DEFINE r == reqs[c]
             n == Normalize[r.name]
             q == [r EXCEPT !.pc = "find ingress", !.domain = Len(domains) + 1]
  <1>1. /\ domains \in Seq(Domain) /\ services \in Seq(Service) /\ ingresses \in Seq(Ingress)
        /\ r \in Request /\ Held(r)
    BY DEF WithinInv, TypeOK, ConfigTypeOK
  <1>2. r.app \in Apps /\ OwnsService(r.service, r.app) /\ n \in Names
    BY <1>1 DEF Held, ApplyPcs, At, ApplyCreatesDomain, Names
  <1>3. CASE Becomes(c, Idle) /\ UNCHANGED domains
    BY <1>1, <1>3, IdleFacts, UnchangedKeeps, ApplyStepKeeps DEF ApplyCreatesDomain
  <1>4. CASE AddDomain(n, r.app) /\ Becomes(c, q)
    <2>1. /\ q \in Request /\ q.pc = "find ingress" /\ q.domain = Len(domains) + 1
          /\ q.app = r.app /\ q.service = r.service
      <3>1. Len(domains) + 1 \in Nat
        BY <1>1
      <3>2. QED
        BY <1>1, <3>1 DEF Request
    <2>2. /\ domains' \in Seq(Domain) /\ KeepsDomains
          /\ Len(domains') = Len(domains) + 1
          /\ domains'[Len(domains) + 1].app = r.app
      <3> HIDE DEF n
      <3>1. QED
        BY <1>1, <1>2, <1>4, AddDomainKeeps
    <2>3. reqs'[c] = q /\ UNCHANGED services /\ UNCHANGED ingresses /\ UNCHANGED requests
      BY <1>4, <2>1, BecomesKeeps DEF ApplyCreatesDomain
    <2>4. OwnsDomain(reqs[c].domain, reqs[c].app)'
      BY <1>1, <2>1, <2>2, <2>3 DEF OwnsDomain
    <2>5. OwnsService(reqs[c].service, reqs[c].app)'
      BY <1>2, <2>1, <2>3 DEF OwnsService, LiveServices
    <2>6. Held(reqs[c])'
      BY <1>2, <2>1, <2>3, <2>4, <2>5 DEF Held, ApplyPcs, ServicePcs, MappingPcs
    <2>7. QED
      BY <1>1, <1>4, <2>1, <2>2, <2>3, <2>6, UnchangedKeeps, ApplyStepKeeps
  <1>5. QED
    BY <1>3, <1>4 DEF ApplyCreatesDomain

\* The ingress of a mapped domain: found, or replaced by one that joins the
\* domain and the service of the application.
LEMMA ApplyIngressKeeps ==
    ASSUME WithinInv, NEW c \in Clients,
           ApplyFindsIngress(c) \/ ApplyDeletesIngress(c) \/ ApplyCreatesIngress(c)
    PROVE  WithinInv'
  <1> DEFINE r == reqs[c]
  <1>1. /\ domains \in Seq(Domain) /\ services \in Seq(Service) /\ ingresses \in Seq(Ingress)
        /\ r \in Request /\ Held(r)
    BY DEF WithinInv, TypeOK, ConfigTypeOK
  <1>2. r.pc \in ApplyPcs /\ r.pc \in MappingPcs
    BY DEF ApplyFindsIngress, ApplyDeletesIngress, ApplyCreatesIngress, At, ApplyPcs, MappingPcs
  <1>3. OwnsDomain(r.domain, r.app) /\ OwnsService(r.service, r.app)
    BY <1>1, <1>2 DEF Held
  <1>4. NextName(r) \in Request /\ Held(NextName(r))
    <2>1. /\ NextName(r) \in Request /\ NextName(r).pc = "domain"
          /\ NextName(r).service = r.service /\ NextName(r).app = r.app
      BY <1>1 DEF NextName, Request
    <2>2. QED
      BY <1>1, <1>2, <2>1, HeldOn DEF ApplyPcs, ServicePcs, MappingPcs
  <1>5. ASSUME NEW pc \in MappingPcs, NEW g \in Nat
        PROVE  /\ [r EXCEPT !.pc = pc, !.ingress = g] \in Request
               /\ Held([r EXCEPT !.pc = pc, !.ingress = g])
    <2> DEFINE q == [r EXCEPT !.pc = pc, !.ingress = g]
    <2>1. /\ q \in Request /\ q.pc = pc /\ q.service = r.service /\ q.app = r.app
          /\ q.domain = r.domain
      BY <1>1 DEF Request, MappingPcs
    <2>2. Held(q)
      <3> HIDE DEF q
      <3>1. QED
        BY <1>1, <1>2, <1>3, <2>1, HeldOn DEF ApplyPcs, ServicePcs, MappingPcs
    <2>3. QED
      BY <2>1, <2>2
  <1>6. ASSUME NEW pc \in MappingPcs
        PROVE  [r EXCEPT !.pc = pc] \in Request /\ Held([r EXCEPT !.pc = pc])
    <2>1. [r EXCEPT !.pc = pc] = [r EXCEPT !.pc = pc, !.ingress = r.ingress]
      BY <1>1 DEF Request
    <2>2. r.ingress \in Nat
      BY <1>1 DEF Request
    <2>3. QED
      BY <1>5, <2>1, <2>2
  <1>7. CASE ApplyFindsIngress(c)
    <2>1. CASE Becomes(c, [r EXCEPT !.pc = "create ingress"])
      BY <1>6, <1>7, <2>1, ApplyReadKeeps DEF ApplyFindsIngress, MappingPcs
    <2>2. ASSUME NEW g \in IngressesOf(r.domain),
                 Becomes(c, IF ingresses[g].service = r.service THEN NextName(r)
                            ELSE [r EXCEPT !.pc = "delete ingress", !.ingress = g])
          PROVE  WithinInv'
      <3>1. g \in Nat /\ "delete ingress" \in MappingPcs
        BY <1>1 DEF IngressesOf, LiveIngresses, MappingPcs
      <3>2. QED
        BY <1>4, <1>5, <1>7, <2>2, <3>1, ApplyReadKeeps DEF ApplyFindsIngress
    <2>3. QED
      BY <1>7, <2>1, <2>2 DEF ApplyFindsIngress
  <1>8. CASE ApplyDeletesIngress(c)
    <2>1. ingresses' \in Seq(Ingress) /\ NewIngressesTogether
      BY <1>1, <1>8, DropIngressTogether DEF ApplyDeletesIngress
    <2>2. "replace ingress" \in MappingPcs
      BY DEF MappingPcs
    <2>3. QED
      BY <1>1, <1>6, <1>8, <2>1, <2>2, UnchangedKeeps, ApplyStepKeeps DEF ApplyDeletesIngress
  <1>9. CASE ApplyCreatesIngress(c)
    <2>1. Together(r.domain, r.service)
      BY <1>3 DEF Together, OwnsDomain, OwnsService
    <2>2. r.domain \in Nat /\ r.service \in Nat
      BY <1>1 DEF Request
    <2>3. ingresses' \in Seq(Ingress) /\ NewIngressesTogether
      BY <1>1, <1>9, <2>1, <2>2, NetAssumption, AddIngressTogether, UnchangedKeeps
         DEF ApplyCreatesIngress
    <2>4. Becomes(c, Idle) \/ Becomes(c, NextName(r))
      BY <1>9 DEF ApplyCreatesIngress
    <2>5. QED
      BY <1>1, <1>4, <1>9, <2>3, <2>4, IdleFacts, UnchangedKeeps, ApplyStepKeeps
         DEF ApplyCreatesIngress
  <1>10. QED
    BY <1>7, <1>8, <1>9

\* Pruning only deletes.
LEMMA ApplyPruneKeeps ==
    ASSUME WithinInv, NEW c \in Clients,
           ApplyPrunes(c) \/ ApplyPrunesIngress(c) \/ ApplyPrunesDomain(c)
    PROVE  WithinInv'
  <1> DEFINE r == reqs[c]
  <1>1. /\ domains \in Seq(Domain) /\ services \in Seq(Service) /\ ingresses \in Seq(Ingress)
        /\ r \in Request /\ Held(r)
    BY DEF WithinInv, TypeOK, ConfigTypeOK
  <1>2. r.pc \in ApplyPcs
    BY DEF ApplyPrunes, ApplyPrunesIngress, ApplyPrunesDomain, At, ApplyPcs
  <1>3. ASSUME NEW q \in Request, q.service = r.service, q.app = r.app,
               q.pc \in {"domain", "prune ingress", "prune domain"}
        PROVE  Held(q)
    BY <1>1, <1>2, <1>3, HeldOn DEF ApplyPcs, ServicePcs, MappingPcs
  <1>4. CASE ApplyPrunes(c)
    <2>1. CASE Becomes(c, Idle)
      BY <1>4, <2>1, IdleFacts, ApplyReadKeeps DEF ApplyPrunes
    <2>2. ASSUME NEW e \in Pruned(r),
                 \/ Becomes(c, [r EXCEPT !.pc = "prune domain", !.domain = e[1]])
                 \/ \E g \in IngressesOf(e[1]) :
                       Becomes(c, [r EXCEPT !.pc = "prune ingress", !.domain = e[1],
                                            !.ingress = g])
          PROVE  WithinInv'
      <3>1. e[1] \in Nat
        BY <1>1 DEF Pruned, Request
      <3>2. CASE Becomes(c, [r EXCEPT !.pc = "prune domain", !.domain = e[1]])
        <4> DEFINE q == [r EXCEPT !.pc = "prune domain", !.domain = e[1]]
        <4>1. q \in Request /\ q.service = r.service /\ q.app = r.app /\ q.pc = "prune domain"
          BY <1>1, <3>1 DEF Request
        <4>2. QED
          BY <1>3, <1>4, <3>2, <4>1, ApplyReadKeeps DEF ApplyPrunes
      <3>3. ASSUME NEW g \in IngressesOf(e[1]),
                   Becomes(c, [r EXCEPT !.pc = "prune ingress", !.domain = e[1], !.ingress = g])
            PROVE  WithinInv'
        <4> DEFINE q == [r EXCEPT !.pc = "prune ingress", !.domain = e[1], !.ingress = g]
        <4>1. g \in Nat
          BY <1>1 DEF IngressesOf, LiveIngresses
        <4>2. q \in Request /\ q.service = r.service /\ q.app = r.app /\ q.pc = "prune ingress"
          BY <1>1, <3>1, <4>1 DEF Request
        <4>3. QED
          BY <1>3, <1>4, <3>3, <4>2, ApplyReadKeeps DEF ApplyPrunes
      <3>4. QED
        BY <2>2, <3>2, <3>3
    <2>3. QED
      BY <1>4, <2>1, <2>2 DEF ApplyPrunes
  <1>5. CASE ApplyPrunesIngress(c)
    <2> DEFINE q == [r EXCEPT !.pc = "prune domain", !.ingress = 0]
    <2>1. q \in Request /\ q.service = r.service /\ q.app = r.app /\ q.pc = "prune domain"
      BY <1>1 DEF Request
    <2>2. Held(q)
      BY <1>3, <2>1
    <2>3. ingresses' \in Seq(Ingress) /\ NewIngressesTogether
      BY <1>1, <1>5, DropIngressTogether DEF ApplyPrunesIngress
    <2>4. QED
      BY <1>1, <1>5, <2>1, <2>2, <2>3, UnchangedKeeps, ApplyStepKeeps DEF ApplyPrunesIngress
  <1>6. CASE ApplyPrunesDomain(c)
    <2> DEFINE cur == {e \in r.current : e[1] # r.domain}
               q == [r EXCEPT !.pc = "domain", !.domain = 0, !.current = cur]
    <2>1. q \in Request /\ q.service = r.service /\ q.app = r.app /\ q.pc = "domain"
      <3>1. cur \in SUBSET (Nat \X Names)
        BY <1>1 DEF Request
      <3> HIDE DEF cur
      <3>2. QED
        BY <1>1, <3>1 DEF Request
    <2>2. Held(q)
      BY <1>3, <2>1
    <2>3. domains' \in Seq(Domain) /\ KeepsDomains
      BY <1>1, <1>6, DropDomainKeeps DEF ApplyPrunesDomain
    <2>4. Becomes(c, q)
      BY <1>6 DEF ApplyPrunesDomain
    <2>5. QED
      BY <1>1, <1>6, <2>1, <2>2, <2>3, <2>4, UnchangedKeeps, ApplyStepKeeps
         DEF ApplyPrunesDomain
  <1>7. QED
    BY <1>4, <1>5, <1>6

-----------------------------------------------------------------------------
(* Theorems                                                                *)

\* The initial state has the inductive invariant.
LEMMA InitWithin == Init => WithinInv
  <1> SUFFICES ASSUME Init PROVE WithinInv
    OBVIOUS
  <1>1. TypeOK
    BY IdleFacts, NetworkingAssumption DEF Init, ConfigInit, TypeOK, ConfigTypeOK
  <1>2. LiveIngresses = {}
    BY DEF Init, ConfigInit, LiveIngresses
  <1>3. \A c \in Clients : Held(reqs[c])
    BY IdleFacts DEF Init
  <1>4. QED
    BY <1>1, <1>2, <1>3 DEF WithinInv

\* Every step keeps the inductive invariant.
LEMMA NextWithin == WithinInv /\ [Next]_vars => WithinInv'
  <1> SUFFICES ASSUME WithinInv, [Next]_vars PROVE WithinInv'
    OBVIOUS
  <1>1. CASE UNCHANGED vars
    BY <1>1 DEF vars, WithinInv, TypeOK, ConfigTypeOK, LiveIngresses, LiveDomains,
                LiveServices, Together, Held, OwnsDomain, OwnsService
  <1>2. CASE Next
    <2>1. PICK c \in Clients :
             \/ \E s \in Spellings, a \in Apps : CreateDomain(c, s, a)
             \/ \E a \in Apps, p \in Ports : CreateService(c, a, p)
             \/ \E s \in DOMAIN services, p \in Ports : UpdateService(c, s, p)
             \/ \E d \in DOMAIN domains : DeleteDomain(c, d)
             \/ \E s \in DOMAIN services : DeleteService(c, s)
             \/ \E g \in DOMAIN ingresses : DeleteIngress(c, g)
             \/ \E d \in DOMAIN domains, s \in DOMAIN services, p \in Paths :
                   IngressChecks(c, d, s, p)
             \/ IngressCreates(c)
             \/ \E a \in Apps, want \in SUBSET Spellings, p \in Ports \cup {0} :
                   RequestApply(c, a, want, p)
             \/ ApplyStep(c)
      BY <1>2 DEF Next
    <2>2. CASE ApplyStep(c)
      BY <2>2, ApplyServiceKeeps, ApplyLooksKeeps, ApplyCreatesDomainKeeps, ApplyIngressKeeps,
         ApplyPruneKeeps DEF ApplyStep
    <2>3. QED
      BY <2>1, <2>2, SimpleHandlersKeep, IngressChecksKeeps, IngressCreatesKeeps,
         RequestApplyKeeps
  <1>3. QED
    BY <1>1, <1>2

\* The registries and requests stay well formed: an apply never calls Create
\* with an application, a port or a name that it has not got (apply.go, the
\* handlers).
THEOREM NetworkingTypes == Spec => []TypeOK
  <1>1. WithinInv => TypeOK
    BY DEF WithinInv
  <1>2. QED
    BY <1>1, InitWithin, NextWithin, PTL DEF Spec

\* No ingress ever joins a domain and a service of different applications, for
\* any number of clients and overlapping requests (IngressHandler.Create,
\* Apply).
THEOREM WithinApplication == Spec => []IngressWithinApplication
  <1>1. WithinInv => IngressWithinApplication
    BY DEF WithinInv, Together, IngressWithinApplication
  <1>2. QED
    BY <1>1, InitWithin, NextWithin, PTL DEF Spec

-----------------------------------------------------------------------------
(* An apply stays within its application                                   *)

\* An ingress that lives afterwards and existed before is the one it was.
KeepsIngresses ==
    /\ DOMAIN ingresses \subseteq DOMAIN ingresses'
    /\ \A g \in DOMAIN ingresses : g \in LiveIngresses' =>
          g \in LiveIngresses /\ ingresses'[g] = ingresses[g]

\* AddIngress appends a record and keeps the others.
LEMMA AddIngressKeeps ==
    ASSUME ingresses \in Seq(Ingress), NEW d \in Nat, NEW s \in Nat, NEW p \in Paths,
           AddIngress(d, s, p)
    PROVE  /\ KeepsIngresses
           /\ \A x \in DOMAIN ingresses : ingresses'[x] = ingresses[x]
  BY DEF AddIngress, KeepsIngresses, LiveIngresses, Ingress

\* DropIngress changes no record but the one it blanks.
LEMMA DropIngressKeepsOthers ==
    ASSUME ingresses \in Seq(Ingress), NEW g, DropIngress(g)
    PROVE  /\ KeepsIngresses
           /\ \A x \in DOMAIN ingresses : x # g => ingresses'[x] = ingresses[x]
  <1>1. DOMAIN ingresses' = DOMAIN ingresses
    BY DEF DropIngress, LiveIngresses
  <1>2. \A x \in DOMAIN ingresses : x # g => ingresses'[x] = ingresses[x]
    BY DEF DropIngress, LiveIngresses
  <1>3. QED
    BY <1>1, <1>2, DropIngressKeeps DEF KeepsIngresses

\* A registry of ingresses that is left alone keeps its records.
LEMMA UnchangedIngressesKeep == UNCHANGED ingresses => KeepsIngresses
  BY DEF KeepsIngresses, LiveIngresses

\* A domain is added under a name that is free, or one is blanked.
LEMMA NextDomains ==
    ASSUME WithinInv, Next
    PROVE  \/ UNCHANGED domains
           \/ \E n \in Names, a \in Apps : ~NameTaken(n) /\ AddDomain(n, a)
           \/ \E d : DropDomain(d)
  <1>2. \A s \in Spellings : Normalize[s] \in Names
    BY DEF Names
  <1>3. ASSUME NEW c \in Clients, At(c, "create domain")
        PROVE  reqs[c].app \in Apps /\ reqs[c].name \in Spellings
    BY <1>3 DEF WithinInv, Held, ApplyPcs, At
  <1>4. PICK c \in Clients :
           \/ \E s \in Spellings, a \in Apps : CreateDomain(c, s, a)
           \/ \E a \in Apps, p \in Ports : CreateService(c, a, p)
           \/ \E s \in DOMAIN services, p \in Ports : UpdateService(c, s, p)
           \/ \E d \in DOMAIN domains : DeleteDomain(c, d)
           \/ \E s \in DOMAIN services : DeleteService(c, s)
           \/ \E g \in DOMAIN ingresses : DeleteIngress(c, g)
           \/ \E d \in DOMAIN domains, s \in DOMAIN services, p \in Paths :
                 IngressChecks(c, d, s, p)
           \/ IngressCreates(c)
           \/ \E a \in Apps, want \in SUBSET Spellings, p \in Ports \cup {0} :
                 RequestApply(c, a, want, p)
           \/ ApplyStep(c)
    BY DEF Next
  <1>5. CASE \E s \in Spellings, a \in Apps : CreateDomain(c, s, a)
    BY <1>2, <1>5 DEF CreateDomain
  <1>6. CASE ApplyCreatesDomain(c)
    <2> DEFINE n == Normalize[reqs[c].name]
    <2>1. reqs[c].app \in Apps /\ n \in Names
      BY <1>2, <1>3, <1>6 DEF ApplyCreatesDomain
    <2>2. UNCHANGED domains \/ (~NameTaken(n) /\ AddDomain(n, reqs[c].app))
      BY <1>6 DEF ApplyCreatesDomain
    <2>3. QED
      BY <2>1, <2>2
  <1>7. CASE ApplyPrunesDomain(c)
    BY <1>7 DEF ApplyPrunesDomain
  <1>8. CASE \E d \in DOMAIN domains : DeleteDomain(c, d)
    BY <1>8 DEF DeleteDomain
  <1>9. QED
    BY <1>4, <1>5, <1>6, <1>7, <1>8
       DEF CreateService, UpdateService, DeleteService, DeleteIngress, IngressChecks,
           IngressCreates, RequestApply, ApplyStep, ApplyFindsService, ApplyCreatesService,
           ApplyUpdatesService, ApplyListsDomains, ApplyLooksUp, ApplyFindsIngress,
           ApplyDeletesIngress, ApplyCreatesIngress, ApplyPrunes, ApplyPrunesIngress, config

\* Whatever the step, records are added or blanked and never change hands.
LEMMA NextKeepsRecords ==
    ASSUME WithinInv, Next
    PROVE  KeepsDomains /\ KeepsIngresses
  <1>1. domains \in Seq(Domain) /\ ingresses \in Seq(Ingress)
    BY DEF WithinInv, TypeOK, ConfigTypeOK
  <1>2. ASSUME NEW c \in Clients
        PROVE  /\ reqs[c].domain \in Nat /\ reqs[c].service \in Nat /\ reqs[c].path \in Paths
               /\ At(c, "create domain") => reqs[c].app \in Apps /\ reqs[c].name \in Spellings
    BY DEF WithinInv, TypeOK, Request, Held, ApplyPcs, At
  <1>3. PICK c \in Clients :
           \/ \E s \in Spellings, a \in Apps : CreateDomain(c, s, a)
           \/ \E a \in Apps, p \in Ports : CreateService(c, a, p)
           \/ \E s \in DOMAIN services, p \in Ports : UpdateService(c, s, p)
           \/ \E d \in DOMAIN domains : DeleteDomain(c, d)
           \/ \E s \in DOMAIN services : DeleteService(c, s)
           \/ \E g \in DOMAIN ingresses : DeleteIngress(c, g)
           \/ \E d \in DOMAIN domains, s \in DOMAIN services, p \in Paths :
                 IngressChecks(c, d, s, p)
           \/ IngressCreates(c)
           \/ \E a \in Apps, want \in SUBSET Spellings, p \in Ports \cup {0} :
                 RequestApply(c, a, want, p)
           \/ ApplyStep(c)
    BY DEF Next
  <1>4. \/ UNCHANGED domains
        \/ \E n \in Names, a \in Apps : AddDomain(n, a)
        \/ \E d : DropDomain(d)
    BY NextDomains
  <1>5. \/ UNCHANGED ingresses
        \/ \E d \in Nat, s \in Nat, p \in Paths : AddIngress(d, s, p)
        \/ \E g : DropIngress(g)
    <2>1. CASE IngressCreates(c)
      BY <1>2, <2>1 DEF IngressCreates
    <2>2. CASE ApplyCreatesIngress(c)
      BY <1>2, <2>2, NetAssumption DEF ApplyCreatesIngress
    <2>3. CASE ApplyDeletesIngress(c) \/ ApplyPrunesIngress(c)
      BY <2>3 DEF ApplyDeletesIngress, ApplyPrunesIngress
    <2>4. CASE \E g \in DOMAIN ingresses : DeleteIngress(c, g)
      BY <2>4 DEF DeleteIngress
    <2>5. QED
      BY <1>3, <2>1, <2>2, <2>3, <2>4
         DEF CreateDomain, CreateService, UpdateService, DeleteDomain, DeleteService,
             IngressChecks, RequestApply, ApplyStep, ApplyFindsService, ApplyCreatesService,
             ApplyUpdatesService, ApplyListsDomains, ApplyLooksUp, ApplyCreatesDomain,
             ApplyFindsIngress, ApplyPrunes, ApplyPrunesDomain, config
  <1>6. KeepsDomains
    BY <1>1, <1>4, AddDomainKeeps, DropDomainKeeps, UnchangedKeeps
  <1>7. KeepsIngresses
    BY <1>1, <1>5, AddIngressKeeps, DropIngressKeepsOthers, UnchangedIngressesKeep
  <1>8. QED
    BY <1>6, <1>7

\* What a request has listed stays true of the registries after the step.
LEMMA ListedLasts ==
    ASSUME WithinInv, WithinInv', KeepsDomains, KeepsIngresses,
           \A c \in Clients : Listed(reqs'[c])
    PROVE  StaysInv'
  <1>1. ASSUME NEW d, NEW a, OwnsDomain(d, a)
        PROVE  OwnsDomain(d, a)'
    BY <1>1 DEF OwnsDomain, KeepsDomains
  <1>2. ASSUME NEW g, NEW d, OnDomain(g, d)
        PROVE  OnDomain(g, d)'
    BY <1>2 DEF OnDomain, KeepsIngresses
  <1>3. ASSUME NEW c \in Clients
        PROVE  Listed(reqs[c])'
    <2>1. Listed(reqs'[c])
      OBVIOUS
    <2>2. QED
      BY <1>1, <1>2, <2>1 DEF Listed
  <1>4. QED
    BY <1>3 DEF StaysInv

\* A client without a request has listed nothing.
LEMMA IdleListed == Listed(Idle)
  BY DEF Listed, Idle, ApplyPcs

\* An apply goes on with what it has listed.
LEMMA ListedOn ==
    ASSUME NEW r, Listed(r), r.pc \in ApplyPcs, NEW q, q.app = r.app, q.pc \in ApplyPcs,
           \A e \in q.current : e \in r.current \/ OwnsDomain(e[1], r.app),
           q.pc \in {"prune ingress", "prune domain"} => OwnsDomain(q.domain, r.app),
           q.pc \in {"delete ingress", "prune ingress"} => OnDomain(q.ingress, q.domain)
    PROVE  Listed(q)
  BY DEF Listed

\* The same, to a call that deletes nothing.
LEMMA ListedOnward ==
    ASSUME NEW r, Listed(r), r.pc \in ApplyPcs, NEW q, q.app = r.app,
           q.current = r.current,
           q.pc \in ApplyPcs \ {"delete ingress", "prune ingress", "prune domain"}
    PROVE  Listed(q)
  BY ListedOn

\* A request arrives with nothing listed; the others keep theirs.
LEMMA ArrivesListed ==
    ASSUME StaysInv, NEW c \in Clients, NEW r \in Request, Arrives(c, r), Listed(r)
    PROVE  \A o \in Clients : Listed(reqs'[o])
  <1> DEFINE others == {o \in Clients \ {c} : Busy(o)}
  <1>1. reqs' = [o \in Clients |-> IF o = c THEN [r EXCEPT !.alone = (others = {})]
                                  ELSE [reqs[o] EXCEPT !.alone = @ /\ o \notin others]]
    BY DEF Arrives
  <1>2. ASSUME NEW q \in Request, NEW b, Listed(q)
        PROVE  Listed([q EXCEPT !.alone = b])
    <2>1. /\ [q EXCEPT !.alone = b].pc = q.pc
          /\ [q EXCEPT !.alone = b].app = q.app
          /\ [q EXCEPT !.alone = b].domain = q.domain
          /\ [q EXCEPT !.alone = b].ingress = q.ingress
          /\ [q EXCEPT !.alone = b].current = q.current
      BY DEF Request
    <2>2. QED
      BY <1>2, <2>1 DEF Listed
  <1>3. ASSUME NEW o \in Clients
        PROVE  Listed(reqs'[o])
    <2>1. CASE o = c
      <3>1. reqs'[o] = [r EXCEPT !.alone = (others = {})]
        BY <1>1, <2>1
      <3>2. QED
        BY <1>2, <3>1
    <2>2. CASE o # c
      <3>1. reqs'[o] = [reqs[o] EXCEPT !.alone = (reqs[o].alone /\ o \notin others)]
        BY <1>1, <2>2
      <3>2. reqs[o] \in Request /\ Listed(reqs[o])
        BY DEF StaysInv, WithinInv, TypeOK
      <3>3. QED
        BY <1>2, <3>1, <3>2
    <2>3. QED
      BY <2>1, <2>2
  <1>4. QED
    BY <1>3

\* An apply steps to a request that holds its list.
LEMMA BecomesListed ==
    ASSUME StaysInv, NEW c \in Clients, NEW q, Becomes(c, q), Listed(q)
    PROVE  \A o \in Clients : Listed(reqs'[o])
  BY DEF StaysInv, WithinInv, TypeOK, Becomes

\* An apply steps to a call that deletes nothing.
LEMMA OnwardListed ==
    ASSUME StaysInv, NEW c \in Clients, NEW q, Becomes(c, q), reqs[c].pc \in ApplyPcs,
           q.app = reqs[c].app, q.current = reqs[c].current,
           q.pc \in ApplyPcs \ {"delete ingress", "prune ingress", "prune domain"}
    PROVE  \A o \in Clients : Listed(reqs'[o])
  <1>1. Listed(reqs[c])
    BY DEF StaysInv
  <1>2. Listed(q)
    BY <1>1, ListedOnward
  <1>3. QED
    BY <1>2, BecomesListed

\* The service of an apply does not touch what it lists.
LEMMA ServiceListed ==
    ASSUME StaysInv, NEW c \in Clients,
           ApplyFindsService(c) \/ ApplyCreatesService(c) \/ ApplyUpdatesService(c)
    PROVE  \A o \in Clients : Listed(reqs'[o])
  <1> DEFINE r == reqs[c]
  <1>1. r \in Request /\ Listed(r) /\ r.pc \in ApplyPcs
    BY DEF StaysInv, WithinInv, TypeOK, ApplyFindsService, ApplyCreatesService,
           ApplyUpdatesService, At, ApplyPcs
  <1>2. CASE ApplyFindsService(c)
    <2>1. CASE Becomes(c, [r EXCEPT !.pc = "create service"])
      <3> DEFINE q == [r EXCEPT !.pc = "create service"]
      <3>1. q.app = r.app /\ q.current = r.current /\ q.pc = "create service"
        BY <1>1 DEF Request
      <3>2. QED
        BY <1>1, <2>1, <3>1, OnwardListed DEF ApplyPcs
    <2>2. ASSUME NEW s,
                 Becomes(c, [r EXCEPT !.service = s,
                     !.pc = IF services[s].port = r.port THEN "list" ELSE "update service"])
          PROVE  \A o \in Clients : Listed(reqs'[o])
      <3> DEFINE q == [r EXCEPT !.service = s,
                     !.pc = IF services[s].port = r.port THEN "list" ELSE "update service"]
      <3>1. q.app = r.app /\ q.current = r.current /\ q.pc \in {"list", "update service"}
        BY <1>1 DEF Request
      <3>2. Becomes(c, q)
        BY <2>2
      <3> HIDE DEF q
      <3>3. QED
        BY <1>1, <3>1, <3>2, OnwardListed DEF ApplyPcs
    <2>3. QED
      BY <1>2, <2>1, <2>2 DEF ApplyFindsService
  <1>3. CASE ApplyCreatesService(c)
    <2> DEFINE q == [r EXCEPT !.pc = "list", !.service = Len(services) + 1]
    <2>1. q.app = r.app /\ q.current = r.current /\ q.pc = "list"
      BY <1>1 DEF Request
    <2>2. Becomes(c, q)
      BY <1>3 DEF ApplyCreatesService
    <2> HIDE DEF q
    <2>3. QED
      BY <1>1, <2>1, <2>2, OnwardListed DEF ApplyPcs
  <1>4. CASE ApplyUpdatesService(c)
    <2> DEFINE q == [r EXCEPT !.pc = "list"]
    <2>1. q.app = r.app /\ q.current = r.current /\ q.pc = "list"
      BY <1>1 DEF Request
    <2>2. Becomes(c, q)
      BY <1>4 DEF ApplyUpdatesService
    <2> HIDE DEF q
    <2>3. QED
      BY <1>1, <2>1, <2>2, OnwardListed DEF ApplyPcs
  <1>5. QED
    BY <1>2, <1>3, <1>4

\* The list holds the application's domains, and a domain that is looked up or
\* created goes on with it.
LEMMA LooksListed ==
    ASSUME StaysInv, NEW c \in Clients,
           ApplyListsDomains(c) \/ ApplyLooksUp(c) \/ ApplyCreatesDomain(c)
    PROVE  \A o \in Clients : Listed(reqs'[o])
  <1> DEFINE r == reqs[c]
  <1>1. r \in Request /\ Listed(r) /\ r.pc \in ApplyPcs
    BY DEF StaysInv, WithinInv, TypeOK, ApplyListsDomains, ApplyLooksUp,
           ApplyCreatesDomain, At, ApplyPcs
  <1>2. CASE ApplyListsDomains(c)
    <2> DEFINE mine == {x \in LiveDomains(domains) : domains[x].app = r.app}
               cur == {<<d, domains[d].name>> : d \in mine}
               q == [r EXCEPT !.pc = "domain", !.todo = r.want, !.current = cur]
    <2>1. \A e \in cur : OwnsDomain(e[1], r.app)
      BY DEF OwnsDomain, LiveDomains
    <2>2. q.pc = "domain" /\ q.app = r.app /\ q.current = cur
      BY <1>1 DEF Request
    <2>3. Becomes(c, q)
      BY <1>2 DEF ApplyListsDomains
    <2> HIDE DEF q, cur
    <2>4. Listed(q)
      BY <1>1, <2>1, <2>2, ListedOn DEF ApplyPcs
    <2>5. QED
      BY <2>3, <2>4, BecomesListed
  <1>3. Becomes(c, Idle) => \A o \in Clients : Listed(reqs'[o])
    BY IdleListed, BecomesListed
  <1>4. CASE ApplyLooksUp(c)
    <2>1. ASSUME NEW s, Becomes(c, [r EXCEPT !.pc = "create domain", !.name = s])
          PROVE  \A o \in Clients : Listed(reqs'[o])
      <3> DEFINE q == [r EXCEPT !.pc = "create domain", !.name = s]
      <3>1. q.app = r.app /\ q.current = r.current /\ q.pc = "create domain"
        BY <1>1 DEF Request
      <3>2. QED
        BY <1>1, <2>1, <3>1, OnwardListed DEF ApplyPcs
    <2>2. ASSUME NEW s, NEW d,
                 Becomes(c, [r EXCEPT !.pc = "find ingress", !.name = s, !.domain = d])
          PROVE  \A o \in Clients : Listed(reqs'[o])
      <3> DEFINE q == [r EXCEPT !.pc = "find ingress", !.name = s, !.domain = d]
      <3>1. q.app = r.app /\ q.current = r.current /\ q.pc = "find ingress"
        BY <1>1 DEF Request
      <3>2. QED
        BY <1>1, <2>2, <3>1, OnwardListed DEF ApplyPcs
    <2>3. PICK s \in r.todo :
             \/ Becomes(c, [r EXCEPT !.pc = "create domain", !.name = s])
             \/ \E d \in Named(Normalize[s]) :
                   Becomes(c, IF domains[d].app # r.app THEN Idle
                              ELSE [r EXCEPT !.pc = "find ingress", !.name = s, !.domain = d])
      BY <1>4 DEF ApplyLooksUp
    <2>4. QED
      BY <1>3, <2>1, <2>2, <2>3
  <1>5. CASE ApplyCreatesDomain(c)
    <2> DEFINE q == [r EXCEPT !.pc = "find ingress", !.domain = Len(domains) + 1]
    <2>1. q.app = r.app /\ q.current = r.current /\ q.pc = "find ingress"
      BY <1>1 DEF Request
    <2>2. Becomes(c, Idle) \/ Becomes(c, q)
      BY <1>5 DEF ApplyCreatesDomain
    <2> HIDE DEF q
    <2>3. QED
      BY <1>1, <1>3, <2>1, <2>2, OnwardListed DEF ApplyPcs
  <1>6. QED
    BY <1>2, <1>4, <1>5

\* The ingress an apply is about to replace is one of the domain it maps.
LEMMA IngressListed ==
    ASSUME StaysInv, NEW c \in Clients,
           ApplyFindsIngress(c) \/ ApplyDeletesIngress(c) \/ ApplyCreatesIngress(c)
    PROVE  \A o \in Clients : Listed(reqs'[o])
  <1> DEFINE r == reqs[c]
  <1>1. r \in Request /\ Listed(r) /\ r.pc \in ApplyPcs
    BY DEF StaysInv, WithinInv, TypeOK, ApplyFindsIngress, ApplyDeletesIngress,
           ApplyCreatesIngress, At, ApplyPcs
  <1>2. NextName(r).app = r.app /\ NextName(r).current = r.current /\ NextName(r).pc = "domain"
    BY <1>1 DEF NextName, Request
  <1>3. Listed(NextName(r))
    BY <1>1, <1>2, ListedOnward DEF ApplyPcs
  <1>4. CASE ApplyFindsIngress(c)
    <2>1. CASE Becomes(c, [r EXCEPT !.pc = "create ingress"])
      <3> DEFINE q == [r EXCEPT !.pc = "create ingress"]
      <3>1. q.app = r.app /\ q.current = r.current /\ q.pc = "create ingress"
        BY <1>1 DEF Request
      <3>2. QED
        BY <1>1, <2>1, <3>1, OnwardListed DEF ApplyPcs
    <2>2. ASSUME NEW g \in IngressesOf(r.domain),
                 Becomes(c, [r EXCEPT !.pc = "delete ingress", !.ingress = g])
          PROVE  \A o \in Clients : Listed(reqs'[o])
      <3> DEFINE q == [r EXCEPT !.pc = "delete ingress", !.ingress = g]
      <3>1. /\ q.app = r.app /\ q.current = r.current /\ q.pc = "delete ingress"
            /\ q.domain = r.domain /\ q.ingress = g
        BY <1>1 DEF Request
      <3>2. OnDomain(g, r.domain)
        BY DEF OnDomain, IngressesOf, LiveIngresses
      <3>3. Listed(q)
        <4> HIDE DEF q
        <4>1. QED
          BY <1>1, <3>1, <3>2, ListedOn DEF ApplyPcs
      <3>4. QED
        BY <2>2, <3>3, BecomesListed
    <2>3. QED
      BY <1>3, <1>4, <2>1, <2>2, BecomesListed DEF ApplyFindsIngress
  <1>5. CASE ApplyDeletesIngress(c)
    <2> DEFINE q == [r EXCEPT !.pc = "replace ingress"]
    <2>1. q.app = r.app /\ q.current = r.current /\ q.pc = "replace ingress"
      BY <1>1 DEF Request
    <2>2. Becomes(c, q)
      BY <1>5 DEF ApplyDeletesIngress
    <2> HIDE DEF q
    <2>3. QED
      BY <1>1, <2>1, <2>2, OnwardListed DEF ApplyPcs
  <1>6. CASE ApplyCreatesIngress(c)
    <2>1. Becomes(c, Idle) \/ Becomes(c, NextName(r))
      BY <1>6 DEF ApplyCreatesIngress
    <2>2. QED
      BY <1>3, <2>1, IdleListed, BecomesListed
  <1>7. QED
    BY <1>4, <1>5, <1>6

\* What an apply prunes was listed as its application's.
LEMMA PruneListed ==
    ASSUME StaysInv, NEW c \in Clients,
           ApplyPrunes(c) \/ ApplyPrunesIngress(c) \/ ApplyPrunesDomain(c)
    PROVE  \A o \in Clients : Listed(reqs'[o])
  <1> DEFINE r == reqs[c]
  <1>1. r \in Request /\ Listed(r) /\ r.pc \in ApplyPcs
    BY DEF StaysInv, WithinInv, TypeOK, ApplyPrunes, ApplyPrunesIngress,
           ApplyPrunesDomain, At, ApplyPcs
  <1>2. CASE ApplyPrunes(c)
    <2>1. CASE Becomes(c, Idle)
      BY <2>1, IdleListed, BecomesListed
    <2>2. ASSUME NEW e \in Pruned(r),
                 Becomes(c, [r EXCEPT !.pc = "prune domain", !.domain = e[1]])
          PROVE  \A o \in Clients : Listed(reqs'[o])
      <3> DEFINE q == [r EXCEPT !.pc = "prune domain", !.domain = e[1]]
      <3>1. OwnsDomain(e[1], r.app)
        BY <1>1 DEF Listed, Pruned
      <3>2. /\ q.app = r.app /\ q.current = r.current /\ q.pc = "prune domain"
            /\ q.domain = e[1]
        BY <1>1 DEF Request
      <3>3. Listed(q)
        <4> HIDE DEF q
        <4>1. QED
          BY <1>1, <3>1, <3>2, ListedOn DEF ApplyPcs
      <3>4. QED
        BY <2>2, <3>3, BecomesListed
    <2>3. ASSUME NEW e \in Pruned(r), NEW g \in IngressesOf(e[1]),
                 Becomes(c, [r EXCEPT !.pc = "prune ingress", !.domain = e[1], !.ingress = g])
          PROVE  \A o \in Clients : Listed(reqs'[o])
      <3> DEFINE q == [r EXCEPT !.pc = "prune ingress", !.domain = e[1], !.ingress = g]
      <3>1. OwnsDomain(e[1], r.app)
        BY <1>1 DEF Listed, Pruned
      <3>2. OnDomain(g, e[1])
        BY DEF OnDomain, IngressesOf, LiveIngresses
      <3>3. /\ q.app = r.app /\ q.current = r.current /\ q.pc = "prune ingress"
            /\ q.domain = e[1] /\ q.ingress = g
        BY <1>1 DEF Request
      <3>4. Listed(q)
        <4> HIDE DEF q
        <4>1. QED
          BY <1>1, <3>1, <3>2, <3>3, ListedOn DEF ApplyPcs
      <3>5. QED
        BY <2>3, <3>4, BecomesListed
    <2>4. QED
      BY <1>2, <2>1, <2>2, <2>3 DEF ApplyPrunes
  <1>3. CASE ApplyPrunesIngress(c)
    <2> DEFINE q == [r EXCEPT !.pc = "prune domain", !.ingress = 0]
    <2>1. OwnsDomain(r.domain, r.app)
      BY <1>1, <1>3 DEF ApplyPrunesIngress, At, Listed
    <2>2. /\ q.app = r.app /\ q.current = r.current /\ q.pc = "prune domain"
          /\ q.domain = r.domain
      BY <1>1 DEF Request
    <2>3. Becomes(c, q)
      BY <1>3 DEF ApplyPrunesIngress
    <2> HIDE DEF q
    <2>4. Listed(q)
      BY <1>1, <2>1, <2>2, ListedOn DEF ApplyPcs
    <2>5. QED
      BY <2>3, <2>4, BecomesListed
  <1>4. CASE ApplyPrunesDomain(c)
    <2> DEFINE cur == {e \in r.current : e[1] # r.domain}
               q == [r EXCEPT !.pc = "domain", !.domain = 0, !.current = cur]
    <2>1. q.app = r.app /\ q.current = cur /\ q.pc = "domain"
      BY <1>1 DEF Request
    <2>2. \A e \in cur : e \in r.current
      OBVIOUS
    <2>3. Becomes(c, q)
      BY <1>4 DEF ApplyPrunesDomain
    <2> HIDE DEF q, cur
    <2>4. Listed(q)
      BY <1>1, <2>1, <2>2, ListedOn DEF ApplyPcs
    <2>5. QED
      BY <2>3, <2>4, BecomesListed
  <1>5. QED
    BY <1>2, <1>3, <1>4

\* The handlers of services, domains and ingresses, and the arrival of a
\* manifest.
LEMMA HandlersListed ==
    ASSUME StaysInv, NEW c \in Clients, NEW r, Arrives(c, r),
           \/ r = Idle
           \/ \E d \in Nat, s \in Nat, p \in Paths :
                 r = [Idle EXCEPT !.pc = "ingress", !.domain = d, !.service = s, !.path = p]
           \/ \E a \in Apps, want \in SUBSET Spellings, p \in Ports \cup {0} :
                 r = [Idle EXCEPT !.pc = IF p = 0 THEN "list" ELSE "service",
                                  !.app = a, !.want = want, !.port = p]
    PROVE  \A o \in Clients : Listed(reqs'[o])
  <1>1. CASE r = Idle
    BY <1>1, IdleFacts, IdleListed, ArrivesListed
  <1>2. ASSUME NEW d \in Nat, NEW s \in Nat, NEW p \in Paths,
               r = [Idle EXCEPT !.pc = "ingress", !.domain = d, !.service = s, !.path = p]
        PROVE  \A o \in Clients : Listed(reqs'[o])
    <2>1. r \in Request /\ r.pc = "ingress" /\ r.app = None
      BY <1>2, IdleFacts DEF Idle, Request
    <2>2. Listed(r)
      BY <2>1 DEF Listed, ApplyPcs
    <2>3. QED
      BY <2>1, <2>2, ArrivesListed
  <1>3. ASSUME NEW a \in Apps, NEW want \in SUBSET Spellings, NEW p \in Ports \cup {0},
               r = [Idle EXCEPT !.pc = IF p = 0 THEN "list" ELSE "service",
                                !.app = a, !.want = want, !.port = p]
        PROVE  \A o \in Clients : Listed(reqs'[o])
    <2>1. r \in Request /\ r.pc \in {"list", "service"} /\ r.current = {}
      BY <1>3, IdleFacts, ZenonT(40) DEF Idle, Request
    <2>2. Listed(r)
      BY <2>1 DEF Listed, ApplyPcs
    <2>3. QED
      BY <2>1, <2>2, ArrivesListed
  <1>4. QED
    BY <1>1, <1>2, <1>3

\* Every step keeps the inductive invariant of ApplyStaysWithin.
LEMMA NextStays == StaysInv /\ [Next]_vars => StaysInv'
  <1> SUFFICES ASSUME StaysInv, [Next]_vars PROVE StaysInv'
    OBVIOUS
  <1>1. WithinInv /\ WithinInv'
    BY NextWithin DEF StaysInv
  <1>2. CASE UNCHANGED vars
    BY <1>1, <1>2 DEF vars, StaysInv, Listed, OwnsDomain, OnDomain, LiveDomains, LiveIngresses
  <1>3. CASE Next
    <2>1. domains \in Seq(Domain) /\ services \in Seq(Service)
      BY <1>1 DEF WithinInv, TypeOK, ConfigTypeOK
    <2>2. \A c \in Clients : ApplyStep(c) => \A o \in Clients : Listed(reqs'[o])
      BY ServiceListed, LooksListed, IngressListed, PruneListed DEF ApplyStep
    <2>3. \A c \in Clients : IngressCreates(c) => \A o \in Clients : Listed(reqs'[o])
      BY IdleListed, BecomesListed DEF IngressCreates
    <2>4. ASSUME NEW c \in Clients, NEW d \in DOMAIN domains, NEW s \in DOMAIN services,
                 NEW p \in Paths, IngressChecks(c, d, s, p)
          PROVE  \A o \in Clients : Listed(reqs'[o])
      <3>1. d \in Nat /\ s \in Nat
        BY <2>1
      <3>2. QED
        BY <2>4, <3>1, HandlersListed DEF IngressChecks
    <2>5. ASSUME NEW c \in Clients, NEW a \in Apps, NEW want \in SUBSET Spellings,
                 NEW p \in Ports \cup {0}, RequestApply(c, a, want, p)
          PROVE  \A o \in Clients : Listed(reqs'[o])
      BY <2>5, HandlersListed DEF RequestApply
    <2>6. ASSUME NEW c \in Clients, Arrives(c, Idle)
          PROVE  \A o \in Clients : Listed(reqs'[o])
      BY <2>6, HandlersListed
    <2>7. \A c \in Clients : Listed(reqs'[c])
      BY <1>3, <2>2, <2>3, <2>4, <2>5, <2>6
         DEF Next, CreateDomain, CreateService, UpdateService, DeleteDomain, DeleteService,
             DeleteIngress
    <2>8. QED
      BY <1>1, <1>3, <2>7, NextKeepsRecords, ListedLasts
  <1>4. QED
    BY <1>2, <1>3

\* Only its own steps move an apply on.
LEMMA OwnStep ==
    ASSUME StaysInv, Next, NEW c \in Clients, reqs[c].app # None,
           reqs'[c].pc # reqs[c].pc
    PROVE  ApplyStep(c)
  <1>1. reqs \in [Clients -> Request] /\ reqs[c] \in Request
    BY DEF StaysInv, WithinInv, TypeOK
  <1>2. reqs[c].pc \in ApplyPcs
    BY DEF StaysInv, Listed
  <1>3. ASSUME NEW x \in Clients, NEW r, Arrives(x, r)
        PROVE  FALSE
    <2>1. CASE x = c
      BY <1>2, <1>3, <2>1 DEF Arrives, Busy, ApplyPcs
    <2>2. CASE x # c
      <3>1. PICK b : reqs'[c] = [reqs[c] EXCEPT !.alone = b]
        BY <1>3, <2>2 DEF Arrives
      <3>2. reqs'[c].pc = reqs[c].pc
        BY <1>1, <3>1 DEF Request
      <3>3. QED
        BY <3>2
    <2>3. QED
      BY <2>1, <2>2
  <1>4. ASSUME NEW x \in Clients, NEW q, Becomes(x, q)
        PROVE  x = c
    BY <1>1, <1>4 DEF Becomes
  <1>5. ASSUME NEW x \in Clients, IngressCreates(x)
        PROVE  FALSE
    BY <1>2, <1>4, <1>5 DEF IngressCreates, At, ApplyPcs
  <1>6. ASSUME NEW x \in Clients, ApplyStep(x)
        PROVE  x = c
    <2>1. \E q : Becomes(x, q)
      BY <1>6 DEF ApplyStep, ApplyFindsService, ApplyCreatesService, ApplyUpdatesService,
             ApplyListsDomains, ApplyLooksUp, ApplyCreatesDomain, ApplyFindsIngress,
             ApplyDeletesIngress, ApplyCreatesIngress, ApplyPrunes, ApplyPrunesIngress,
             ApplyPrunesDomain
    <2>2. QED
      BY <1>4, <2>1
  <1>7. QED
    BY <1>3, <1>5, <1>6
       DEF Next, CreateDomain, CreateService, UpdateService, DeleteDomain, DeleteService,
           DeleteIngress, IngressChecks, RequestApply

\* A step of an apply leaves a domain of another application, and the ingresses
\* of that domain, as they are.
LEMMA StepWithin ==
    ASSUME StaysInv, NEW c \in Clients, ApplyStep(c),
           NEW d \in LiveDomains(domains), domains[d].app # reqs[c].app
    PROVE  /\ domains'[d] = domains[d]
           /\ \A g \in IngressesOf(d) : ingresses'[g] = ingresses[g]
  <1> DEFINE r == reqs[c]
  <1>1. /\ domains \in Seq(Domain) /\ ingresses \in Seq(Ingress) /\ r \in Request
        /\ Held(r) /\ Listed(r)
    BY DEF StaysInv, WithinInv, TypeOK, ConfigTypeOK
  <1>2. /\ d \in DOMAIN domains
        /\ \A g \in IngressesOf(d) : g \in LiveIngresses /\ g \in DOMAIN ingresses
                                     /\ ingresses[g].domain = d
    BY DEF LiveDomains, IngressesOf, LiveIngresses
  <1>3. ASSUME OwnsDomain(r.domain, r.app)
        PROVE  r.domain # d
    BY <1>3 DEF OwnsDomain
  <1>4. ASSUME OwnsDomain(r.domain, r.app), OnDomain(r.ingress, r.domain), DropIngress(r.ingress)
        PROVE  \A g \in IngressesOf(d) : ingresses'[g] = ingresses[g]
    <2>1. \A g \in IngressesOf(d) : g # r.ingress
      BY <1>2, <1>3, <1>4 DEF OnDomain
    <2>2. QED
      BY <1>1, <1>2, <1>4, <2>1, DropIngressKeepsOthers
  <1>5. CASE UNCHANGED domains /\ UNCHANGED ingresses
    BY <1>5
  <1>6. CASE ApplyCreatesDomain(c)
    <2>1. UNCHANGED ingresses
      BY <1>6 DEF ApplyCreatesDomain
    <2>2. domains'[d] = domains[d]
      <3>1. UNCHANGED domains \/ AddDomain(Normalize[r.name], r.app)
        BY <1>6 DEF ApplyCreatesDomain
      <3>2. r.app \in Apps /\ Normalize[r.name] \in Names
        BY <1>1, <1>6 DEF ApplyCreatesDomain, At, Held, ApplyPcs, Names
      <3>3. [name |-> Normalize[r.name], app |-> r.app] \in Domain
        BY <3>2 DEF Domain
      <3>4. QED
        BY <1>1, <1>2, <3>1, <3>3 DEF AddDomain
    <2>3. QED
      BY <2>1, <2>2
  <1>7. CASE ApplyDeletesIngress(c) \/ ApplyPrunesIngress(c)
    <2>1. UNCHANGED domains /\ DropIngress(r.ingress)
      BY <1>7 DEF ApplyDeletesIngress, ApplyPrunesIngress
    <2>2. OwnsDomain(r.domain, r.app) /\ OnDomain(r.ingress, r.domain)
      BY <1>1, <1>7 DEF ApplyDeletesIngress, ApplyPrunesIngress, At, Held, Listed, MappingPcs
    <2>3. QED
      BY <1>4, <2>1, <2>2
  <1>8. CASE ApplyCreatesIngress(c)
    <2>1. UNCHANGED domains
      BY <1>8 DEF ApplyCreatesIngress
    <2>2. r.domain \in Nat /\ r.service \in Nat
      BY <1>1 DEF Request
    <2>3. \A g \in DOMAIN ingresses : ingresses'[g] = ingresses[g]
      BY <1>1, <1>8, <2>2, NetAssumption, AddIngressKeeps DEF ApplyCreatesIngress
    <2>4. QED
      BY <1>2, <2>1, <2>3
  <1>9. CASE ApplyPrunesDomain(c)
    <2>1. UNCHANGED ingresses /\ DropDomain(r.domain)
      BY <1>9 DEF ApplyPrunesDomain
    <2>2. OwnsDomain(r.domain, r.app)
      BY <1>1, <1>9 DEF ApplyPrunesDomain, At, Listed
    <2>3. domains'[d] = domains[d]
      BY <1>1, <1>2, <1>3, <2>1, <2>2 DEF DropDomain
    <2>4. QED
      BY <2>1, <2>3
  <1>10. QED
    BY <1>5, <1>6, <1>7, <1>8, <1>9
       DEF ApplyStep, ApplyFindsService, ApplyCreatesService, ApplyUpdatesService,
           ApplyListsDomains, ApplyLooksUp, ApplyFindsIngress, ApplyPrunes, config

\* ApplyStaysWithin: whatever other requests do between its calls, an apply
\* changes no domain of another application and no ingress of one (the owner
\* check, the listing and the prune of ApplyHandler.Apply).
THEOREM StaysWithinHolds == Spec => ApplyStaysWithin
  <1>1. Init => StaysInv
    BY InitWithin, IdleListed DEF Init, StaysInv
  <1>2. ASSUME StaysInv, [Next]_vars
        PROVE  [\A c \in Clients : (reqs[c].app # None /\ reqs'[c].pc # reqs[c].pc) =>
                  \A d \in LiveDomains(domains) : domains[d].app # reqs[c].app =>
                      /\ domains'[d] = domains[d]
                      /\ \A g \in IngressesOf(d) : ingresses'[g] = ingresses[g]]_vars
    BY <1>2, OwnStep, StepWithin
  <1>3. QED
    BY <1>1, <1>2, NextStays, PTL DEF Spec, ApplyStaysWithin

-----------------------------------------------------------------------------
(* What an apply that is alone leaves behind                               *)

\* What AddDomain does to the domains that live.
LEMMA DomainAdded ==
    ASSUME domains \in Seq(Domain), NEW n \in Names, NEW a \in Apps, AddDomain(n, a)
    PROVE  /\ LiveDomains(domains') = LiveDomains(domains) \cup {Len(domains) + 1}
           /\ Len(domains) + 1 \notin LiveDomains(domains)
           /\ \A d \in LiveDomains(domains) : domains'[d] = domains[d]
           /\ domains'[Len(domains) + 1].name = n /\ domains'[Len(domains) + 1].app = a
  <1>1. [name |-> n, app |-> a] # NoDomain
    BY NetAssumption DEF NoDomain
  <1>2. domains'[Len(domains) + 1] = [name |-> n, app |-> a]
    BY DEF AddDomain, Domain
  <1>3. domains'[Len(domains) + 1].name = n /\ domains'[Len(domains) + 1].app = a
    BY <1>2
  <1>4. QED
    BY <1>1, <1>3 DEF AddDomain, LiveDomains, Domain

\* What DropDomain does to them.
LEMMA DomainDropped ==
    ASSUME domains \in Seq(Domain), NEW d, DropDomain(d)
    PROVE  /\ LiveDomains(domains') = LiveDomains(domains) \ {d}
           /\ \A e \in LiveDomains(domains) \ {d} : domains'[e] = domains[e]
  BY DEF DropDomain, LiveDomains, Domain

\* AddIngress gives its domain an ingress and takes none away.
LEMMA IngressAdded ==
    ASSUME ingresses \in Seq(Ingress), NEW d \in Nat \ {0}, NEW s \in Nat, NEW p \in Paths,
           AddIngress(d, s, p)
    PROVE  /\ \A e : IngressesOf(e) \subseteq IngressesOf(e)'
           /\ IngressesOf(d)' # {}
  <1> DEFINE g == Len(ingresses) + 1
  <1>1. /\ ingresses' = Append(ingresses, [domain |-> d, service |-> s, path |-> p])
        /\ [domain |-> d, service |-> s, path |-> p] \in Ingress
        /\ [domain |-> d, service |-> s, path |-> p] # NoIngress
    BY DEF AddIngress, Ingress, NoIngress
  <1>2. /\ g \in DOMAIN ingresses' /\ ingresses'[g] = [domain |-> d, service |-> s, path |-> p]
        /\ \A x \in DOMAIN ingresses : x \in DOMAIN ingresses' /\ ingresses'[x] = ingresses[x]
    BY <1>1
  <1>3. g \in IngressesOf(d)'
    BY <1>1, <1>2 DEF IngressesOf, LiveIngresses
  <1>4. ASSUME NEW e, NEW x \in IngressesOf(e) PROVE x \in IngressesOf(e)'
    BY <1>2 DEF IngressesOf, LiveIngresses
  <1>5. QED
    BY <1>3, <1>4

\* A domain keeps an ingress when one of another domain is dropped.
LEMMA IngressDropped ==
    ASSUME ingresses \in Seq(Ingress), NEW g, DropIngress(g), NEW e,
           g \in LiveIngresses => ingresses[g].domain # e, IngressesOf(e) # {}
    PROVE  IngressesOf(e)' # {}
  <1>1. PICK x \in IngressesOf(e) : TRUE
    OBVIOUS
  <1>2. x \in LiveIngresses /\ ingresses[x].domain = e /\ x # g
    BY <1>1 DEF IngressesOf
  <1>3. x \in DOMAIN ingresses' /\ ingresses'[x] = ingresses[x]
    BY <1>2 DEF DropIngress, LiveIngresses
  <1>4. x \in IngressesOf(e)'
    BY <1>2, <1>3 DEF IngressesOf, LiveIngresses
  <1>5. QED
    BY <1>4

\* Names stay unique.
LEMMA NamesStayUnique ==
    ASSUME WithinInv, NamesUnique, [Next]_vars PROVE NamesUnique'
  <1>1. domains \in Seq(Domain)
    BY DEF WithinInv, TypeOK, ConfigTypeOK
  <1>2. CASE UNCHANGED domains
    BY <1>2 DEF NamesUnique
  <1>3. ASSUME NEW n \in Names, NEW a \in Apps, ~NameTaken(n), AddDomain(n, a)
        PROVE  NamesUnique'
    <2> DEFINE new == Len(domains) + 1
    <2>1. /\ LiveDomains(domains') = LiveDomains(domains) \cup {new}
          /\ \A d \in LiveDomains(domains) : domains'[d] = domains[d]
          /\ domains'[new].name = n
      BY <1>1, <1>3, DomainAdded
    <2>2. \A d \in LiveDomains(domains) : domains[d].name # n
      BY <1>3 DEF NameTaken, Named
    <2> HIDE DEF new
    <2>3. QED
      BY <2>1, <2>2 DEF NamesUnique
  <1>4. ASSUME NEW d, DropDomain(d) PROVE NamesUnique'
    BY <1>1, <1>4, DomainDropped DEF NamesUnique
  <1>5. QED
    BY <1>2, <1>3, <1>4, NextDomains DEF vars

-----------------------------------------------------------------------------
(* Whose step it is                                                        *)

\* When a request arrives, no other is alone any more, and it has listed nothing.
LEMMA ArrivesAlone ==
    ASSUME TypeOK, AloneMeansAlone, NEW c \in Clients, NEW r \in Request, Arrives(c, r),
           r.pc \notin AfterListing
    PROVE  /\ AloneMeansAlone'
           /\ \A o \in Clients : reqs'[o].pc \in AfterListing => ~reqs'[o].alone
  <1> DEFINE others == {o \in Clients \ {c} : Busy(o)}
  <1>1. reqs' = [o \in Clients |-> IF o = c THEN [r EXCEPT !.alone = (others = {})]
                                  ELSE [reqs[o] EXCEPT !.alone = @ /\ o \notin others]]
    BY DEF Arrives
  <1>2. reqs'[c].pc = r.pc /\ (reqs'[c].alone <=> others = {})
    BY <1>1 DEF Request
  <1>3. ASSUME NEW o \in Clients \ {c}
        PROVE  reqs'[o].pc = reqs[o].pc /\ (reqs'[o].alone => o \notin others)
    <2>1. reqs[o] \in Request
      BY DEF TypeOK
    <2>2. reqs'[o] = [reqs[o] EXCEPT !.alone = (reqs[o].alone /\ o \notin others)]
      BY <1>1
    <2>3. QED
      BY <2>1, <2>2 DEF Request
  <1>4. \A o \in Clients \ {c} : o \in others <=> reqs'[o].pc # "idle"
    BY <1>3 DEF Busy
  <1> HIDE DEF others
  <1>5. AloneMeansAlone'
    <2> SUFFICES ASSUME NEW x \in Clients, reqs'[x].pc # "idle", reqs'[x].alone,
                        NEW o \in Clients \ {x}
                 PROVE  reqs'[o].pc = "idle"
      BY DEF AloneMeansAlone, Busy
    <2>1. x = c
      BY <1>3, <1>4
    <2>2. QED
      BY <1>2, <1>4, <2>1
  <1>6. "idle" \notin AfterListing
    BY DEF AfterListing, MappingPcs
  <1>7. QED
    BY <1>2, <1>3, <1>4, <1>5, <1>6

\* A request that goes on leaves the others as they are: none of them is both
\* under way and alone.
LEMMA BecomesAlone ==
    ASSUME TypeOK, AloneMeansAlone, NEW c \in Clients, Busy(c), NEW r, Becomes(c, r),
           r.pc = "idle" \/ (r.alone <=> reqs[c].alone)
    PROVE  /\ AloneMeansAlone' /\ reqs'[c] = r
           /\ \A o \in Clients \ {c} : reqs'[o].pc \in AfterListing => ~reqs'[o].alone
  <1>1. reqs'[c] = r /\ \A o \in Clients \ {c} : reqs'[o] = reqs[o]
    BY DEF TypeOK, Becomes
  <1>2. \A o \in Clients \ {c} : reqs[o].pc # "idle" => ~reqs[o].alone
    BY DEF AloneMeansAlone, Busy
  <1>3. reqs[c].alone => \A o \in Clients \ {c} : reqs[o].pc = "idle"
    BY DEF AloneMeansAlone, Busy
  <1>4. AloneMeansAlone'
    <2> SUFFICES ASSUME NEW x \in Clients, reqs'[x].pc # "idle", reqs'[x].alone,
                        NEW o \in Clients \ {x}
                 PROVE  reqs'[o].pc = "idle"
      BY DEF AloneMeansAlone, Busy
    <2>1. x = c
      BY <1>1, <1>2
    <2>2. QED
      BY <1>1, <1>3, <2>1
  <1>5. "idle" \notin AfterListing
    BY DEF AfterListing, MappingPcs
  <1>6. QED
    BY <1>1, <1>2, <1>4, <1>5
-----------------------------------------------------------------------------
(* What each call of an apply leaves accounted for, in terms of the request *)
(* before (q) and after (r) it                                              *)

\* The request goes on for the same application and manifest.
Continues(q, r) == r.app = q.app /\ r.want = q.want

\* The listing has every domain of the application, and nothing is mapped yet.
LEMMA ListingAccounts ==
    ASSUME NEW r, UNCHANGED domains, UNCHANGED ingresses, r.pc = "domain", r.todo = r.want,
           r.current = {<<d, domains[d].name>> : d \in Mine(r.app)}
    PROVE  Accounted(r)'
  BY DEF Accounted, Mapped, Mine, LiveDomains, MappingPcs

\* A name of the manifest is looked up, to be created or to be mapped.
LEMMA LookupAccounts ==
    ASSUME NEW q, NEW r, Continues(q, r), Accounted(q), UNCHANGED domains, UNCHANGED ingresses,
           q.pc = "domain", r.todo = q.todo, r.current = q.current, r.name \in q.todo,
           \/ r.pc = "create domain"
           \/ /\ r.pc = "find ingress" /\ r.domain \in Named(r.name)
              /\ domains[r.domain].app = r.app
    PROVE  Accounted(r)'
  <1>1. /\ Mapped(r) = Mapped(q) /\ Mine(r.app)' = Mine(q.app)
        /\ LiveDomains(domains') = LiveDomains(domains)
        /\ q.pc \notin MappingPcs /\ r.pc \notin {"prune ingress", "prune domain"}
    BY DEF Mapped, Mine, Continues, MappingPcs
  <1>2. \A d : IngressesOf(d)' = IngressesOf(d)
    BY DEF IngressesOf, LiveIngresses
  <1>3. r.pc \in MappingPcs => r.domain \in Mine(r.app)' /\ domains'[r.domain].name = r.name
    BY DEF Mine, Named, MappingPcs
  <1>4. /\ r.todo \subseteq r.want /\ r.name \in r.todo
        /\ \A e \in r.current : e[1] \in LiveDomains(domains') /\ domains'[e[1]].name = e[2]
    BY <1>1 DEF Accounted, Continues
  <1>5. \A d \in Mine(r.app)' :
           <<d, domains'[d].name>> \in r.current \/ domains'[d].name \in Mapped(r)
    BY <1>1, ZenonT(40) DEF Accounted
  <1>6. ASSUME NEW s \in Mapped(r)
        PROVE  \E d \in Mine(r.app)' : domains'[d].name = s /\ IngressesOf(d)' # {}
    <2>1. PICK d \in Mine(q.app) : domains[d].name = s /\ IngressesOf(d) # {}
      BY <1>1, <1>6 DEF Accounted
    <2>2. QED
      BY <1>1, <1>2, <2>1
  <1>7. QED
    BY <1>1, <1>3, <1>4, <1>5, <1>6 DEF Accounted

\* A domain is created for the name that is being mapped.
LEMMA CreationAccounts ==
    ASSUME NEW q, NEW r, Continues(q, r), Accounted(q), domains \in Seq(Domain),
           q.pc = "create domain", q.name \in Names, q.app \in Apps, AddDomain(q.name, q.app),
           UNCHANGED ingresses, r.pc = "find ingress", r.domain = Len(domains) + 1,
           r.name = q.name, r.todo = q.todo, r.current = q.current
    PROVE  Accounted(r)'
  <1>1. /\ LiveDomains(domains') = LiveDomains(domains) \cup {r.domain}
        /\ r.domain \notin LiveDomains(domains)
        /\ \A d \in LiveDomains(domains) : domains'[d] = domains[d]
        /\ domains'[r.domain].name = q.name /\ domains'[r.domain].app = q.app
    BY DomainAdded
  <1>2. domains'[r.domain].name = r.name /\ domains'[r.domain].app = r.app
    BY <1>1 DEF Continues
  <1>3. \A d \in Mine(r.app)' : d \in Mine(q.app) \/ d = r.domain
    BY <1>1 DEF Mine, Continues
  <1>4. Mine(q.app) \subseteq Mine(r.app)'
    BY <1>1 DEF Mine, Continues
  <1>5. \A d : IngressesOf(d)' = IngressesOf(d)
    BY DEF IngressesOf, LiveIngresses
  <1>6. \A e \in r.current : e[1] \in LiveDomains(domains') /\ domains'[e[1]].name = e[2]
    BY <1>1 DEF Accounted
  <1>7. r.domain \in Mine(r.app)'
    BY <1>1, <1>2 DEF Mine
  <1>8. Mapped(r) = Mapped(q) /\ q.pc \notin MappingPcs /\ r.pc \in MappingPcs
    BY DEF Mapped, Continues, MappingPcs
  <1>9. \A d \in Mine(r.app)' : \/ <<d, domains'[d].name>> \in r.current
                                \/ domains'[d].name \in Mapped(r)
                                \/ d = r.domain
    <2>1. \A d \in Mine(q.app) : domains'[d] = domains[d]
      BY <1>1 DEF Mine
    <2>2. QED
      BY <1>3, <1>8, <2>1 DEF Accounted
  <1>10. ASSUME NEW s \in Mapped(r)
         PROVE  \E d \in Mine(r.app)' : domains'[d].name = s /\ IngressesOf(d)' # {}
    <2>1. PICK d \in Mine(q.app) : domains[d].name = s /\ IngressesOf(d) # {}
      BY <1>8, <1>10 DEF Accounted
    <2>2. domains'[d] = domains[d] /\ d \in Mine(r.app)'
      BY <1>1, <1>4 DEF Mine
    <2>3. IngressesOf(d)' # {}
      BY <1>5, <2>1
    <2>4. QED
      BY <2>1, <2>2, <2>3
  <1>11. r.todo \subseteq r.want /\ r.name \in r.todo
    BY DEF Accounted, Continues
  <1>12. QED
    BY <1>2, <1>6, <1>7, <1>8, <1>9, <1>10, <1>11 DEF Accounted, Mapped

\* The mapping of a name goes on; only an ingress of its domain is dropped.
LEMMA MappingAccounts ==
    ASSUME NEW q, NEW r, Continues(q, r), Accounted(q), UNCHANGED domains,
           ingresses \in Seq(Ingress), NEW g,
           UNCHANGED ingresses \/ (DropIngress(g) /\ OnDomain(g, q.domain)),
           q.pc \in MappingPcs, r.pc \in MappingPcs, r.domain = q.domain, r.name = q.name,
           r.todo = q.todo, r.current = q.current
    PROVE  Accounted(r)'
  <1>1. /\ Mapped(r) = Mapped(q) /\ Mine(r.app)' = Mine(q.app)
        /\ LiveDomains(domains') = LiveDomains(domains)
    BY DEF Mapped, Mine, Continues
  <1>2. ASSUME NEW s \in Mapped(q)
        PROVE  \E d \in Mine(r.app)' : domains'[d].name = s /\ IngressesOf(d)' # {}
    <2>1. PICK d \in Mine(q.app) : domains[d].name = s /\ IngressesOf(d) # {}
      BY <1>2 DEF Accounted
    <2>2. d # q.domain
      BY <1>2, <2>1 DEF Accounted, Mapped
    <2>3. CASE UNCHANGED ingresses
      <3>1. IngressesOf(d)' = IngressesOf(d)
        BY <2>3 DEF IngressesOf, LiveIngresses
      <3>2. QED
        BY <1>1, <2>1, <3>1
    <2>4. CASE DropIngress(g) /\ OnDomain(g, q.domain)
      <3>1. g \in LiveIngresses => ingresses[g].domain # d
        BY <2>2, <2>4 DEF OnDomain
      <3>2. IngressesOf(d)' # {}
        BY <2>1, <2>4, <3>1, IngressDropped
      <3>3. QED
        BY <1>1, <2>1, <3>2
    <2>5. QED
      BY <2>3, <2>4
  <1>3. QED
    BY <1>1, <1>2 DEF Accounted, Continues, MappingPcs

\* A name is mapped: its domain has an ingress, and no ingress was dropped.
LEMMA NextNameAccounts ==
    ASSUME NEW q, NEW r, Continues(q, r), Accounted(q), UNCHANGED domains,
           \A d : IngressesOf(d) \subseteq IngressesOf(d)', IngressesOf(q.domain)' # {},
           q.pc \in MappingPcs, r.pc = "domain", r.todo = q.todo \ {q.name},
           r.current = q.current
    PROVE  Accounted(r)'
  <1>1. Mine(r.app)' = Mine(q.app) /\ LiveDomains(domains') = LiveDomains(domains)
    BY DEF Mine, Continues
  <1>2. q.domain \in Mine(q.app) /\ domains[q.domain].name = q.name /\ q.name \in q.todo
    BY DEF Accounted
  <1>3. Mapped(r) = Mapped(q) \cup {q.name}
    BY <1>2 DEF Mapped, Accounted, Continues
  <1>4. ASSUME NEW s \in Mapped(r)
        PROVE  \E d \in Mine(r.app)' : domains'[d].name = s /\ IngressesOf(d)' # {}
    <2>1. CASE s = q.name
      BY <1>1, <1>2, <2>1
    <2>2. CASE s \in Mapped(q)
      <3>1. PICK d \in Mine(q.app) : domains[d].name = s /\ IngressesOf(d) # {}
        BY <2>2 DEF Accounted
      <3>2. IngressesOf(d)' # {}
        BY <3>1
      <3>3. QED
        BY <1>1, <3>1, <3>2
    <2>3. QED
      BY <1>3, <2>1, <2>2
  <1>5. \A d \in Mine(r.app)' :
           <<d, domains'[d].name>> \in r.current \/ domains'[d].name \in Mapped(r)
    BY <1>1, <1>2, <1>3, ZenonT(40) DEF Accounted
  <1>6. QED
    BY <1>1, <1>4, <1>5 DEF Accounted, Continues, MappingPcs

\* A listed domain that is not in the manifest is being pruned: its name is none
\* of the mapped ones, so that no mapped domain loses an ingress.
LEMMA PruningAccounts ==
    ASSUME NEW q, NEW r, Continues(q, r), Accounted(q), UNCHANGED domains,
           ingresses \in Seq(Ingress), NEW g,
           UNCHANGED ingresses \/ (DropIngress(g) /\ OnDomain(g, r.domain)),
           r.domain \in LiveDomains(domains), domains[r.domain].name \notin q.want,
           q.pc \in {"domain", "prune ingress"}, q.todo = {},
           r.pc \in {"prune ingress", "prune domain"},
           r.todo = q.todo, r.current = q.current
    PROVE  Accounted(r)'
  <1>1. /\ Mapped(r) = Mapped(q) /\ Mine(r.app)' = Mine(q.app)
        /\ LiveDomains(domains') = LiveDomains(domains)
        /\ q.pc \notin MappingPcs /\ r.pc \notin MappingPcs
    BY DEF Mapped, Mine, Continues, MappingPcs
  <1>2. ASSUME NEW s \in Mapped(q)
        PROVE  \E d \in Mine(r.app)' : domains'[d].name = s /\ IngressesOf(d)' # {}
    <2>1. PICK d \in Mine(q.app) : domains[d].name = s /\ IngressesOf(d) # {}
      BY <1>2 DEF Accounted
    <2>2. d # r.domain
      BY <1>2, <2>1 DEF Mapped
    <2>3. CASE UNCHANGED ingresses
      <3>1. IngressesOf(d)' = IngressesOf(d)
        BY <2>3 DEF IngressesOf, LiveIngresses
      <3>2. QED
        BY <1>1, <2>1, <3>1
    <2>4. CASE DropIngress(g) /\ OnDomain(g, r.domain)
      <3>1. g \in LiveIngresses => ingresses[g].domain # d
        BY <2>2, <2>4 DEF OnDomain
      <3>2. IngressesOf(d)' # {}
        BY <2>1, <2>4, <3>1, IngressDropped
      <3>3. QED
        BY <1>1, <2>1, <3>2
    <2>5. QED
      BY <2>3, <2>4
  <1>3. /\ r.todo \subseteq r.want /\ r.pc # "create domain"
        /\ \A e \in r.current : e[1] \in LiveDomains(domains') /\ domains'[e[1]].name = e[2]
        /\ r.todo = {} /\ r.domain \in LiveDomains(domains')
        /\ domains'[r.domain].name \notin r.want
    BY <1>1 DEF Accounted, Continues
  <1>4. ASSUME NEW d \in Mine(r.app)'
        PROVE  <<d, domains'[d].name>> \in r.current \/ domains'[d].name \in Mapped(r)
    <2>1. d \in Mine(q.app) /\ domains'[d] = domains[d]
      BY <1>1
    <2>2. <<d, domains[d].name>> \in q.current \/ domains[d].name \in Mapped(q)
      BY <1>1, <2>1 DEF Accounted
    <2>3. QED
      BY <1>1, <2>1, <2>2
  <1>5. QED
    BY <1>1, <1>2, <1>3, <1>4 DEF Accounted

\* The domain is gone, and no mapped domain with it.
LEMMA PrunedAccounts ==
    ASSUME NEW q, NEW r, Continues(q, r), Accounted(q), domains \in Seq(Domain),
           DropDomain(q.domain), UNCHANGED ingresses, q.pc = "prune domain", r.pc = "domain",
           r.todo = q.todo, r.current = {e \in q.current : e[1] # q.domain}
    PROVE  Accounted(r)'
  <1>1. /\ LiveDomains(domains') = LiveDomains(domains) \ {q.domain}
        /\ \A e \in LiveDomains(domains) \ {q.domain} : domains'[e] = domains[e]
    BY DomainDropped
  <1>2. /\ Mapped(r) = Mapped(q) /\ Mine(r.app)' = Mine(q.app) \ {q.domain}
        /\ q.pc \notin MappingPcs /\ r.pc \notin MappingPcs
        /\ \A d \in Mine(q.app) \ {q.domain} : domains'[d] = domains[d]
    BY <1>1 DEF Mapped, Mine, Continues, MappingPcs
  <1>3. ASSUME NEW s \in Mapped(q)
        PROVE  \E d \in Mine(r.app)' : domains'[d].name = s /\ IngressesOf(d)' # {}
    <2>1. PICK d \in Mine(q.app) : domains[d].name = s /\ IngressesOf(d) # {}
      BY <1>3 DEF Accounted
    <2>2. d # q.domain
      BY <1>3, <2>1 DEF Accounted, Mapped
    <2>3. QED
      BY <1>2, <2>1, <2>2 DEF IngressesOf, LiveIngresses
  <1>4. \A e \in r.current : e[1] \in LiveDomains(domains') /\ domains'[e[1]].name = e[2]
    BY <1>1 DEF Accounted
  <1>5. ASSUME NEW d \in Mine(r.app)'
        PROVE  <<d, domains'[d].name>> \in r.current \/ domains'[d].name \in Mapped(r)
    <2>1. d \in Mine(q.app) /\ d # q.domain /\ domains'[d] = domains[d]
      BY <1>2
    <2>2. <<d, domains[d].name>> \in q.current \/ domains[d].name \in Mapped(q)
      BY <1>2, <2>1 DEF Accounted
    <2>3. QED
      BY <1>2, <2>1, <2>2
  <1>6. QED
    BY <1>2, <1>3, <1>4, <1>5 DEF Accounted, Continues, MappingPcs
-----------------------------------------------------------------------------
(* The calls of an apply, one by one                                       *)

\* The request of c goes on as r and, if it is alone, accounts for its domains.
GoesOnAs(c, r) ==
    /\ Becomes(c, r) /\ (r.pc = "idle" \/ r.alone = reqs[c].alone)
    /\ r.pc \in AfterListing /\ r.alone /\ Normalized(r) => Accounted(r)'

\* It is enough to show this from what the request accounted for before.
LEMMA GoesOn ==
    ASSUME ConfiguresInv, NEW c \in Clients, NEW q, q = reqs[c], q.pc \in AfterListing,
           NEW r, Becomes(c, r), Continues(q, r), r.alone = q.alone,
           Accounted(q) /\ Normalized(q) => Accounted(r)'
    PROVE  GoesOnAs(c, r)
  BY DEF GoesOnAs, ConfiguresInv, Continues, Normalized

\* A request that ends, or has not listed its domains, has nothing to account for.
LEMMA GoesOnTrivially ==
    ASSUME NEW c \in Clients, NEW r, Becomes(c, r),
           \/ r = Idle
           \/ r.pc \in ServicePcs \cup {"list"} /\ r.alone = reqs[c].alone
    PROVE  GoesOnAs(c, r)
  <1>1. Idle.pc = "idle"
    BY DEF Idle
  <1>2. r.pc \notin AfterListing
    BY <1>1 DEF AfterListing, MappingPcs, ServicePcs
  <1>3. QED
    BY <1>1, <1>2 DEF GoesOnAs

\* What is known of the request that takes a step.
LEMMA RequestFacts ==
    ASSUME ConfiguresInv, NEW c \in Clients
    PROVE  /\ domains \in Seq(Domain) /\ ingresses \in Seq(Ingress)
           /\ reqs[c] \in Request /\ Held(reqs[c]) /\ Listed(reqs[c])
  BY DEF ConfiguresInv, StaysInv, WithinInv, TypeOK, ConfigTypeOK

\* The service.
LEMMA ServiceGoesOn ==
    ASSUME ConfiguresInv, NEW c \in Clients,
           ApplyFindsService(c) \/ ApplyCreatesService(c) \/ ApplyUpdatesService(c)
    PROVE  \E r : GoesOnAs(c, r)
  <1>1. PICK q \in Request : q = reqs[c]
    BY RequestFacts
  <1>2. CASE ApplyFindsService(c)
    <2>1. CASE Becomes(c, [q EXCEPT !.pc = "create service"])
      <3>1. /\ [q EXCEPT !.pc = "create service"].pc \in ServicePcs
            /\ [q EXCEPT !.pc = "create service"].alone = q.alone
        BY DEF Request, ServicePcs
      <3>2. QED
        BY <1>1, <2>1, <3>1, GoesOnTrivially
    <2>2. CASE \E s \in LiveServices(services) :
                 Becomes(c, [q EXCEPT !.service = s,
                     !.pc = IF services[s].port = q.port THEN "list" ELSE "update service"])
      <3>1. PICK s, pc : /\ pc \in {"list", "update service"}
                         /\ Becomes(c, [q EXCEPT !.service = s, !.pc = pc])
        BY <2>2
      <3>2. /\ [q EXCEPT !.service = s, !.pc = pc].pc \in ServicePcs \cup {"list"}
            /\ [q EXCEPT !.service = s, !.pc = pc].alone = q.alone
        BY <3>1 DEF Request, ServicePcs
      <3>3. QED
        BY <1>1, <3>1, <3>2, GoesOnTrivially
    <2>3. QED
      BY <1>1, <1>2, <2>1, <2>2 DEF ApplyFindsService
  <1>3. CASE ApplyCreatesService(c)
    <2>1. PICK s : s = Len(services) + 1
      OBVIOUS
    <2>2. /\ [q EXCEPT !.pc = "list", !.service = s].pc = "list"
          /\ [q EXCEPT !.pc = "list", !.service = s].alone = q.alone
      BY DEF Request
    <2>3. QED
      BY <1>1, <1>3, <2>1, <2>2, GoesOnTrivially DEF ApplyCreatesService
  <1>4. CASE ApplyUpdatesService(c)
    <2>1. [q EXCEPT !.pc = "list"].pc = "list" /\ [q EXCEPT !.pc = "list"].alone = q.alone
      BY DEF Request
    <2>2. QED
      BY <1>1, <1>4, <2>1, GoesOnTrivially DEF ApplyUpdatesService
  <1>5. QED
    BY <1>2, <1>3, <1>4

\* The listing.
LEMMA ListsGoesOn ==
    ASSUME ConfiguresInv, NEW c \in Clients, ApplyListsDomains(c)
    PROVE  \E r : GoesOnAs(c, r)
  <1>1. PICK q \in Request : q = reqs[c]
    BY RequestFacts
  <1>2. PICK cur : cur = {<<d, domains[d].name>> : d \in Mine(q.app)}
    OBVIOUS
  <1> DEFINE r == [q EXCEPT !.pc = "domain", !.todo = q.want, !.current = cur]
  <1>3. Becomes(c, r) /\ UNCHANGED domains /\ UNCHANGED ingresses
    BY <1>1, <1>2 DEF ApplyListsDomains, Mine, config
  <1>4. /\ r.pc = "domain" /\ r.todo = r.want /\ r.current = cur /\ r.app = q.app
        /\ r.alone = q.alone
    BY DEF Request
  <1> HIDE DEF r
  <1>5. Accounted(r)'
    BY <1>2, <1>3, <1>4, ListingAccounts
  <1>6. QED
    BY <1>1, <1>3, <1>4, <1>5 DEF GoesOnAs

\* The look-up of a name.
LEMMA LooksUpGoesOn ==
    ASSUME ConfiguresInv, NEW c \in Clients, ApplyLooksUp(c)
    PROVE  \E r : GoesOnAs(c, r)
  <1>1. PICK q \in Request : q = reqs[c]
    BY RequestFacts
  <1>2. q.pc = "domain" /\ q.pc \in AfterListing /\ UNCHANGED domains /\ UNCHANGED ingresses
    BY <1>1 DEF ApplyLooksUp, At, AfterListing, config
  <1>3. PICK s \in q.todo :
           \/ Becomes(c, [q EXCEPT !.pc = "create domain", !.name = s])
           \/ \E d \in Named(Normalize[s]) :
                 Becomes(c, IF domains[d].app # q.app THEN Idle
                            ELSE [q EXCEPT !.pc = "find ingress", !.name = s, !.domain = d])
    BY <1>1 DEF ApplyLooksUp
  <1>4. CASE Becomes(c, [q EXCEPT !.pc = "create domain", !.name = s])
    <2> DEFINE r == [q EXCEPT !.pc = "create domain", !.name = s]
    <2>1. /\ r.pc = "create domain" /\ r.name = s /\ r.todo = q.todo /\ r.current = q.current
          /\ Continues(q, r) /\ r.alone = q.alone
      BY DEF Request, Continues
    <2>2. Becomes(c, r)
      BY <1>4
    <2> HIDE DEF r
    <2>3. ASSUME Accounted(q) PROVE Accounted(r)'
      BY <1>2, <1>3, <2>1, <2>3, LookupAccounts
    <2>4. QED
      BY <1>1, <1>2, <2>1, <2>2, <2>3, GoesOn
  <1>5. ASSUME NEW d \in Named(Normalize[s]), domains[d].app = q.app,
               Becomes(c, [q EXCEPT !.pc = "find ingress", !.name = s, !.domain = d])
        PROVE  \E r : GoesOnAs(c, r)
    <2> DEFINE r == [q EXCEPT !.pc = "find ingress", !.name = s, !.domain = d]
    <2>1. /\ r.pc = "find ingress" /\ r.name = s /\ r.domain = d /\ r.todo = q.todo
          /\ r.current = q.current /\ r.app = q.app /\ Continues(q, r) /\ r.alone = q.alone
      BY DEF Request, Continues
    <2>2. Becomes(c, r)
      BY <1>5
    <2> HIDE DEF r
    <2>3. ASSUME Accounted(q), Normalized(q) PROVE Accounted(r)'
      <3>1. Normalize[s] = s
        BY <1>3, <2>3 DEF Accounted, Normalized
      <3>2. r.domain \in Named(r.name) /\ domains[r.domain].app = r.app
        BY <1>5, <2>1, <3>1
      <3>3. QED
        BY <1>2, <1>3, <2>1, <2>3, <3>2, LookupAccounts
    <2>4. QED
      BY <1>1, <1>2, <2>1, <2>2, <2>3, GoesOn
  <1>6. CASE Becomes(c, Idle)
    BY <1>6, GoesOnTrivially
  <1>7. QED
    BY <1>3, <1>4, <1>5, <1>6

\* The creation of a domain.
LEMMA CreatesDomainGoesOn ==
    ASSUME ConfiguresInv, NEW c \in Clients, ApplyCreatesDomain(c)
    PROVE  \E r : GoesOnAs(c, r)
  <1>1. PICK q \in Request : q = reqs[c]
    BY RequestFacts
  <1>2. /\ q.pc = "create domain" /\ q.pc \in AfterListing /\ UNCHANGED ingresses
        /\ domains \in Seq(Domain)
    BY <1>1, RequestFacts DEF ApplyCreatesDomain, At, AfterListing
  <1>3. q.app \in Apps /\ q.name \in Spellings
    BY <1>1, <1>2, RequestFacts DEF Held, ApplyPcs
  <1>4. CASE Becomes(c, Idle)
    BY <1>4, GoesOnTrivially
  <1>5. PICK new : new = Len(domains) + 1
    OBVIOUS
  <1> DEFINE r == [q EXCEPT !.pc = "find ingress", !.domain = new]
  <1>6. CASE Becomes(c, r) /\ AddDomain(Normalize[q.name], q.app)
    <2>1. /\ r.pc = "find ingress" /\ r.name = q.name /\ r.domain = new /\ r.todo = q.todo
          /\ r.current = q.current /\ Continues(q, r) /\ r.alone = q.alone
      BY DEF Request, Continues
    <2>2. Becomes(c, r)
      BY <1>6
    <2> HIDE DEF r
    <2>3. ASSUME Accounted(q), Normalized(q) PROVE Accounted(r)'
      <3>1. Normalize[q.name] = q.name
        BY <1>2, <2>3 DEF Accounted, Normalized
      <3>2. q.name \in Names
        BY <1>3, <3>1 DEF Names
      <3>3. AddDomain(q.name, q.app)
        BY <1>6, <3>1
      <3>4. QED
        BY <1>2, <1>3, <1>5, <2>1, <2>3, <3>2, <3>3, CreationAccounts
    <2>4. QED
      BY <1>1, <1>2, <2>1, <2>2, <2>3, GoesOn
  <1>7. QED
    BY <1>1, <1>4, <1>5, <1>6 DEF ApplyCreatesDomain

\* The name that has been mapped is left.
LEMMA NextNameGoesOn ==
    ASSUME ConfiguresInv, NEW c \in Clients, NEW q \in Request, q = reqs[c],
           q.pc \in MappingPcs, Becomes(c, NextName(q)), UNCHANGED domains,
           \A d : IngressesOf(d) \subseteq IngressesOf(d)', IngressesOf(q.domain)' # {}
    PROVE  \E r : GoesOnAs(c, r)
  <1> DEFINE r == NextName(q)
  <1>1. /\ r.pc = "domain" /\ r.todo = q.todo \ {q.name} /\ r.current = q.current
        /\ Continues(q, r) /\ r.alone = q.alone
    BY DEF Request, Continues, NextName
  <1>2. Becomes(c, r) /\ q.pc \in AfterListing
    BY DEF AfterListing
  <1> HIDE DEF r
  <1>3. ASSUME Accounted(q) PROVE Accounted(r)'
    BY <1>1, <1>3, NextNameAccounts
  <1>4. QED
    BY <1>1, <1>2, <1>3, GoesOn

\* The ingress of a domain: found, dropped, created.
LEMMA IngressGoesOn ==
    ASSUME ConfiguresInv, NEW c \in Clients,
           ApplyFindsIngress(c) \/ ApplyDeletesIngress(c) \/ ApplyCreatesIngress(c)
    PROVE  \E r : GoesOnAs(c, r)
  <1>1. PICK q \in Request : q = reqs[c]
    BY RequestFacts
  <1>2. /\ q.pc \in MappingPcs /\ q.pc \in AfterListing /\ UNCHANGED domains
        /\ ingresses \in Seq(Ingress)
    BY <1>1, RequestFacts DEF ApplyFindsIngress, ApplyDeletesIngress, ApplyCreatesIngress, At,
                              AfterListing, MappingPcs, config
  <1>3. CASE ApplyFindsIngress(c)
    <2>1. UNCHANGED ingresses /\ \A d : IngressesOf(d)' = IngressesOf(d)
      BY <1>3 DEF ApplyFindsIngress, config, IngressesOf, LiveIngresses
    <2>2. ASSUME NEW pc \in MappingPcs, NEW g, Becomes(c, [q EXCEPT !.pc = pc, !.ingress = g])
          PROVE  \E r : GoesOnAs(c, r)
      <3> DEFINE r == [q EXCEPT !.pc = pc, !.ingress = g]
      <3>1. /\ r.pc \in MappingPcs /\ r.name = q.name /\ r.domain = q.domain /\ r.todo = q.todo
            /\ r.current = q.current /\ Continues(q, r) /\ r.alone = q.alone
        BY DEF Request, Continues
      <3>2. Becomes(c, r)
        BY <2>2
      <3> HIDE DEF r
      <3>3. ASSUME Accounted(q) PROVE Accounted(r)'
        BY <1>2, <2>1, <3>1, <3>3, MappingAccounts
      <3>4. QED
        BY <1>1, <1>2, <3>1, <3>2, <3>3, GoesOn
    <2>3. CASE Becomes(c, [q EXCEPT !.pc = "create ingress"])
      <3>1. [q EXCEPT !.pc = "create ingress"]
               = [q EXCEPT !.pc = "create ingress", !.ingress = q.ingress]
        BY DEF Request
      <3>2. QED
        BY <2>2, <2>3, <3>1 DEF MappingPcs
    <2>4. ASSUME NEW g \in IngressesOf(q.domain), Becomes(c, NextName(q))
          PROVE  \E r : GoesOnAs(c, r)
      BY <1>1, <1>2, <2>1, <2>4, NextNameGoesOn
    <2>5. QED
      BY <1>1, <1>3, <2>2, <2>3, <2>4 DEF ApplyFindsIngress, MappingPcs
  <1>4. CASE ApplyDeletesIngress(c)
    <2> DEFINE r == [q EXCEPT !.pc = "replace ingress"]
    <2>1. /\ r.pc \in MappingPcs /\ r.name = q.name /\ r.domain = q.domain /\ r.todo = q.todo
          /\ r.current = q.current /\ Continues(q, r) /\ r.alone = q.alone
      BY DEF Request, Continues, MappingPcs
    <2>2. Becomes(c, r) /\ DropIngress(q.ingress)
      BY <1>1, <1>4 DEF ApplyDeletesIngress
    <2>3. OnDomain(q.ingress, q.domain)
      BY <1>1, <1>4, RequestFacts DEF Listed, ApplyDeletesIngress, At
    <2> HIDE DEF r
    <2>4. ASSUME Accounted(q) PROVE Accounted(r)'
      BY <1>2, <2>1, <2>2, <2>3, <2>4, MappingAccounts
    <2>5. QED
      BY <1>1, <1>2, <2>1, <2>2, <2>4, GoesOn
  <1>5. CASE ApplyCreatesIngress(c)
    <2>1. CASE Becomes(c, Idle)
      BY <2>1, GoesOnTrivially
    <2>2. CASE Becomes(c, NextName(q))
      <3>1. CASE PathTaken(q.domain, "/")
        <4>1. UNCHANGED ingresses /\ IngressesOf(q.domain) # {}
          BY <1>1, <1>5, <3>1 DEF ApplyCreatesIngress, PathTaken
        <4>2. \A d : IngressesOf(d)' = IngressesOf(d)
          BY <4>1 DEF IngressesOf, LiveIngresses
        <4>3. QED
          BY <1>1, <1>2, <2>2, <4>1, <4>2, NextNameGoesOn
      <3>2. CASE ~PathTaken(q.domain, "/")
        <4>1. AddIngress(q.domain, q.service, "/")
          BY <1>1, <1>5, <3>2 DEF ApplyCreatesIngress
        <4>2. q.domain \in Nat \ {0} /\ q.service \in Nat
          <5>1. OwnsDomain(q.domain, q.app)
            BY <1>1, <1>2, RequestFacts DEF Held
          <5>2. q.domain \in DOMAIN domains /\ domains \in Seq(Domain)
            BY <5>1, RequestFacts DEF OwnsDomain
          <5>3. q.domain \in Nat \ {0}
            BY <5>2
          <5>4. QED
            BY <5>3 DEF Request
        <4>3. /\ \A e : IngressesOf(e) \subseteq IngressesOf(e)'
              /\ IngressesOf(q.domain)' # {}
          BY <1>2, <4>1, <4>2, NetAssumption, IngressAdded
        <4>4. QED
          BY <1>1, <1>2, <2>2, <4>3, NextNameGoesOn
      <3>3. QED
        BY <3>1, <3>2
    <2>3. QED
      BY <1>1, <1>5, <2>1, <2>2 DEF ApplyCreatesIngress
  <1>6. QED
    BY <1>3, <1>4, <1>5

\* The pruning.
LEMMA PruneGoesOn ==
    ASSUME ConfiguresInv, NEW c \in Clients,
           ApplyPrunes(c) \/ ApplyPrunesIngress(c) \/ ApplyPrunesDomain(c)
    PROVE  \E r : GoesOnAs(c, r)
  <1>1. PICK q \in Request : q = reqs[c]
    BY RequestFacts
  <1>2. /\ domains \in Seq(Domain) /\ ingresses \in Seq(Ingress) /\ q.pc \in AfterListing
    BY <1>1, RequestFacts DEF ApplyPrunes, ApplyPrunesIngress, ApplyPrunesDomain, At,
                              AfterListing
  <1>3. CASE ApplyPrunes(c)
    <2>1. q.pc = "domain" /\ q.todo = {} /\ UNCHANGED domains /\ UNCHANGED ingresses
      BY <1>1, <1>3 DEF ApplyPrunes, At, config
    <2>2. ASSUME NEW e \in Pruned(q), NEW pc \in {"prune ingress", "prune domain"}, NEW g,
                 Becomes(c, [q EXCEPT !.pc = pc, !.domain = e[1], !.ingress = g])
          PROVE  \E r : GoesOnAs(c, r)
      <3> DEFINE r == [q EXCEPT !.pc = pc, !.domain = e[1], !.ingress = g]
      <3>1. /\ r.pc = pc /\ r.domain = e[1] /\ r.todo = q.todo
            /\ r.current = q.current /\ Continues(q, r) /\ r.alone = q.alone
        BY DEF Request, Continues
      <3>2. Becomes(c, r)
        BY <2>2
      <3> HIDE DEF r
      <3>3. ASSUME Accounted(q) PROVE Accounted(r)'
        <4>1. r.domain \in LiveDomains(domains) /\ domains[r.domain].name \notin q.want
          BY <2>2, <3>1, <3>3 DEF Accounted, Pruned
        <4>2. QED
          BY <1>2, <2>1, <2>2, <3>1, <3>3, <4>1, PruningAccounts
      <3>4. QED
        BY <1>1, <1>2, <3>1, <3>2, <3>3, GoesOn
    <2>3. CASE Becomes(c, Idle)
      BY <2>3, GoesOnTrivially
    <2>4. ASSUME NEW e \in Pruned(q), Becomes(c, [q EXCEPT !.pc = "prune domain", !.domain = e[1]])
          PROVE  \E r : GoesOnAs(c, r)
      <3>1. [q EXCEPT !.pc = "prune domain", !.domain = e[1]]
              = [q EXCEPT !.pc = "prune domain", !.domain = e[1], !.ingress = q.ingress]
        BY DEF Request
      <3>2. Becomes(c, [q EXCEPT !.pc = "prune domain", !.domain = e[1], !.ingress = q.ingress])
        BY <2>4, <3>1
      <3>3. QED
        BY <2>2, <2>4, <3>2
    <2>5. QED
      BY <1>1, <1>3, <2>2, <2>3, <2>4 DEF ApplyPrunes
  <1>4. CASE ApplyPrunesIngress(c)
    <2> DEFINE r == [q EXCEPT !.pc = "prune domain", !.ingress = 0]
    <2>1. /\ r.pc = "prune domain" /\ r.domain = q.domain /\ r.todo = q.todo
          /\ r.current = q.current /\ Continues(q, r) /\ r.alone = q.alone
      BY DEF Request, Continues
    <2>2. /\ Becomes(c, r) /\ DropIngress(q.ingress) /\ q.pc = "prune ingress"
          /\ UNCHANGED domains
      BY <1>1, <1>4 DEF ApplyPrunesIngress, At
    <2>3. OnDomain(q.ingress, q.domain)
      BY <1>1, <2>2, RequestFacts DEF Listed
    <2> HIDE DEF r
    <2>4. ASSUME Accounted(q) PROVE Accounted(r)'
      <3>1. q.todo = {} /\ r.domain \in LiveDomains(domains) /\ domains[r.domain].name \notin q.want
        BY <2>1, <2>2, <2>4 DEF Accounted
      <3>2. QED
        BY <1>2, <2>1, <2>2, <2>3, <2>4, <3>1, PruningAccounts
    <2>5. QED
      BY <1>1, <1>2, <2>1, <2>2, <2>4, GoesOn
  <1>5. CASE ApplyPrunesDomain(c)
    <2>1. PICK cur : cur = {e \in q.current : e[1] # q.domain}
      OBVIOUS
    <2> DEFINE r == [q EXCEPT !.pc = "domain", !.domain = 0, !.current = cur]
    <2>2. /\ r.pc = "domain" /\ r.todo = q.todo /\ r.current = cur
          /\ Continues(q, r) /\ r.alone = q.alone
      BY DEF Request, Continues
    <2>3. /\ Becomes(c, r) /\ DropDomain(q.domain) /\ q.pc = "prune domain"
          /\ UNCHANGED ingresses
      BY <1>1, <1>5, <2>1 DEF ApplyPrunesDomain, At
    <2> HIDE DEF r
    <2>4. ASSUME Accounted(q) PROVE Accounted(r)'
      BY <1>2, <2>1, <2>2, <2>3, <2>4, PrunedAccounts
    <2>5. QED
      BY <1>1, <1>2, <2>2, <2>3, <2>4, GoesOn
  <1>6. QED
    BY <1>3, <1>4, <1>5

-----------------------------------------------------------------------------
(* The inductive step                                                      *)

\* A request that goes on keeps the invariant.
LEMMA GoingOnConfigures ==
    ASSUME ConfiguresInv, StaysInv', NamesUnique', NEW c \in Clients, Busy(c),
           NEW r, GoesOnAs(c, r)
    PROVE  ConfiguresInv'
  <1>1. TypeOK /\ AloneMeansAlone
    BY DEF ConfiguresInv, StaysInv, WithinInv
  <1>2. /\ AloneMeansAlone' /\ reqs'[c] = r
        /\ \A o \in Clients \ {c} : reqs'[o].pc \in AfterListing => ~reqs'[o].alone
    BY <1>1, BecomesAlone DEF GoesOnAs
  <1>3. reqs'[c].pc \in AfterListing /\ reqs'[c].alone /\ Normalized(reqs'[c])
           => Accounted(reqs[c])'
    <2>1. Accounted(reqs[c])' <=> Accounted(r)'
      <3>1. Mine(reqs[c].app)' = Mine(r.app)' /\ Mapped(reqs[c])' = Mapped(r)
        BY <1>2 DEF Mine, Mapped
      <3>2. Mapped(r)' = Mapped(r)
        BY DEF Mapped
      <3>3. QED
        BY <1>2, <3>1, <3>2 DEF Accounted
    <2>2. reqs'[c].pc \in AfterListing /\ reqs'[c].alone /\ Normalized(reqs'[c]) => Accounted(r)'
      BY <1>2 DEF GoesOnAs
    <2>3. QED
      BY <2>1, <2>2
  <1>4. QED
    BY <1>2, <1>3 DEF ConfiguresInv, Normalized

\* A request that arrives keeps it.
LEMMA ArrivingConfigures ==
    ASSUME ConfiguresInv, StaysInv', NamesUnique', NEW c \in Clients,
           NEW r \in Request, Arrives(c, r), r.pc \notin AfterListing
    PROVE  ConfiguresInv'
  <1>1. TypeOK /\ AloneMeansAlone
    BY DEF ConfiguresInv, StaysInv, WithinInv
  <1>2. /\ AloneMeansAlone'
        /\ \A o \in Clients : reqs'[o].pc \in AfterListing => ~reqs'[o].alone
    BY <1>1, ArrivesAlone
  <1>3. QED
    BY <1>2 DEF ConfiguresInv

\* Every step keeps it.
LEMMA NextConfigures == ConfiguresInv /\ [Next]_vars => ConfiguresInv'
  <1> SUFFICES ASSUME ConfiguresInv, [Next]_vars PROVE ConfiguresInv'
    OBVIOUS
  <1>1. WithinInv /\ StaysInv' /\ NamesUnique'
    BY NextStays, NamesStayUnique DEF ConfiguresInv, StaysInv
  <1>2. CASE UNCHANGED vars
    <2>1. UNCHANGED domains /\ UNCHANGED ingresses /\ UNCHANGED reqs
      BY <1>2 DEF vars
    <2>2. AloneMeansAlone'
      BY <2>1 DEF ConfiguresInv, AloneMeansAlone, Busy
    <2>3. \A x : /\ Mine(x)' = Mine(x) /\ IngressesOf(x)' = IngressesOf(x)
                /\ LiveDomains(domains') = LiveDomains(domains)
      BY <2>1 DEF Mine, IngressesOf, LiveIngresses
    <2>4. ASSUME NEW c \in Clients, Accounted(reqs[c]) PROVE Accounted(reqs[c])'
      BY <2>1, <2>3, <2>4 DEF Accounted, Mapped
    <2>5. QED
      BY <1>1, <2>1, <2>2, <2>4 DEF ConfiguresInv, Normalized
  <1>3. CASE Next
    <2>1. PICK c \in Clients :
             \/ \E s \in Spellings, a \in Apps : CreateDomain(c, s, a)
             \/ \E a \in Apps, p \in Ports : CreateService(c, a, p)
             \/ \E s \in DOMAIN services, p \in Ports : UpdateService(c, s, p)
             \/ \E d \in DOMAIN domains : DeleteDomain(c, d)
             \/ \E s \in DOMAIN services : DeleteService(c, s)
             \/ \E g \in DOMAIN ingresses : DeleteIngress(c, g)
             \/ \E d \in DOMAIN domains, s \in DOMAIN services, p \in Paths :
                   IngressChecks(c, d, s, p)
             \/ IngressCreates(c)
             \/ \E a \in Apps, want \in SUBSET Spellings, p \in Ports \cup {0} :
                   RequestApply(c, a, want, p)
             \/ ApplyStep(c)
      BY <1>3 DEF Next
    <2>2. CASE Arrives(c, Idle)
      <3>1. Idle.pc \notin AfterListing
        BY DEF Idle, AfterListing, MappingPcs
      <3>2. QED
        BY <1>1, <2>2, <3>1, IdleFacts, ArrivingConfigures
    <2>3. CASE \E d \in DOMAIN domains, s \in DOMAIN services, p \in Paths :
                  IngressChecks(c, d, s, p)
      <3>1. PICK d \in DOMAIN domains, s \in DOMAIN services, p \in Paths :
               IngressChecks(c, d, s, p)
        BY <2>3
      <3> DEFINE r == [Idle EXCEPT !.pc = "ingress", !.domain = d, !.service = s, !.path = p]
      <3>2. d \in Nat /\ s \in Nat
        BY <1>1 DEF WithinInv, TypeOK, ConfigTypeOK
      <3>3. r \in Request /\ r.pc = "ingress"
        BY <3>2, IdleFacts DEF Request
      <3>4. Arrives(c, r)
        BY <3>1 DEF IngressChecks
      <3>5. r.pc \notin AfterListing
        BY <3>3 DEF AfterListing, MappingPcs
      <3> HIDE DEF r
      <3>6. QED
        BY <1>1, <3>3, <3>4, <3>5, ArrivingConfigures
    <2>4. CASE \E a \in Apps, want \in SUBSET Spellings, p \in Ports \cup {0} :
                  RequestApply(c, a, want, p)
      <3>1. PICK a \in Apps, want \in SUBSET Spellings, p \in Ports \cup {0} :
               RequestApply(c, a, want, p)
        BY <2>4
      <3> DEFINE r == [Idle EXCEPT !.pc = IF p = 0 THEN "list" ELSE "service",
                                   !.app = a, !.want = want, !.port = p]
      <3>2. r \in Request /\ r.pc \in {"list", "service"}
        BY IdleFacts DEF Request
      <3>3. Arrives(c, r)
        BY <3>1 DEF RequestApply
      <3>4. r.pc \notin AfterListing
        BY <3>2 DEF AfterListing, MappingPcs
      <3> HIDE DEF r
      <3>5. QED
        BY <1>1, <3>2, <3>3, <3>4, ArrivingConfigures
    <2>5. CASE IngressCreates(c)
      <3>1. Busy(c) /\ Becomes(c, Idle)
        BY <2>5 DEF IngressCreates, At, Busy
      <3>2. QED
        BY <1>1, <3>1, GoesOnTrivially, GoingOnConfigures
    <2>6. CASE ApplyStep(c)
      <3>1. \E r : GoesOnAs(c, r)
        BY <2>6, ServiceGoesOn, ListsGoesOn, LooksUpGoesOn, CreatesDomainGoesOn,
           IngressGoesOn, PruneGoesOn DEF ApplyStep
      <3>2. Busy(c)
        BY <2>6 DEF ApplyStep, Busy, At, ApplyFindsService, ApplyCreatesService,
                    ApplyUpdatesService, ApplyListsDomains, ApplyLooksUp, ApplyCreatesDomain,
                    ApplyFindsIngress, ApplyDeletesIngress, ApplyCreatesIngress, ApplyPrunes,
                    ApplyPrunesIngress, ApplyPrunesDomain
      <3>3. QED
        BY <1>1, <3>1, <3>2, GoingOnConfigures
    <2>7. QED
      BY <2>1, <2>2, <2>3, <2>4, <2>5, <2>6
         DEF CreateDomain, CreateService, UpdateService, DeleteDomain, DeleteService,
             DeleteIngress
  <1>4. QED
    BY <1>2, <1>3

\* An apply that overlaps no other request and spells the names as the registry
\* does ends with its application having exactly the manifest's domains, each
\* with an ingress, whatever was configured before, for any number of clients,
\* applications and names (find, create, replace and prune of Apply).
THEOREM ConfiguresHolds == Spec => ApplyConfigures
  <1> DEFINE Configured(c) ==
        (/\ At(c, "domain") /\ reqs[c].todo = {} /\ reqs'[c].pc = "idle"
         /\ reqs[c].alone /\ Normalized(reqs[c])) =>
          /\ {domains[d].name : d \in Mine(reqs[c].app)} = {Normalize[s] : s \in reqs[c].want}
          /\ \A d \in Mine(reqs[c].app) : IngressesOf(d) # {}
  <1>1. Init => ConfiguresInv
    <2> SUFFICES ASSUME Init PROVE ConfiguresInv
      OBVIOUS
    <2>1. StaysInv
      BY InitWithin, IdleListed DEF Init, StaysInv
    <2>2. \A c \in Clients : reqs[c].pc = "idle"
      BY DEF Init, Idle
    <2>3. LiveDomains(domains) = {}
      BY DEF Init, ConfigInit, LiveDomains
    <2>4. QED
      BY <2>1, <2>2, <2>3 DEF ConfiguresInv, NamesUnique, AloneMeansAlone, Busy, AfterListing,
                              MappingPcs
  <1>2. ASSUME ConfiguresInv, [Next]_vars PROVE [\A c \in Clients : Configured(c)]_vars
    <2> SUFFICES ASSUME Next, NEW c \in Clients, At(c, "domain"), reqs[c].todo = {},
                        reqs'[c].pc = "idle", reqs[c].alone, Normalized(reqs[c])
                 PROVE  /\ {domains[d].name : d \in Mine(reqs[c].app)}
                             = {Normalize[s] : s \in reqs[c].want}
                        /\ \A d \in Mine(reqs[c].app) : IngressesOf(d) # {}
      BY <1>2 DEF At
    <2>1. PICK q \in Request : q = reqs[c]
      BY <1>2, RequestFacts
    <2>2. q.pc = "domain" /\ q.todo = {} /\ Normalized(q) /\ Accounted(q)
      BY <1>2, <2>1 DEF ConfiguresInv, AfterListing, At
    <2>3. Pruned(q) = {}
      <3>1. q.app # None
        BY <1>2, <2>1, <2>2, RequestFacts, NetAssumption DEF Held, ApplyPcs
      <3>2. ApplyStep(c)
        BY <1>2, <2>1, <2>2, <3>1, OwnStep DEF ConfiguresInv
      <3>3. ApplyPrunes(c)
        BY <2>1, <2>2, <3>2 DEF ApplyStep, At, ApplyFindsService, ApplyCreatesService,
             ApplyUpdatesService, ApplyListsDomains, ApplyLooksUp, ApplyCreatesDomain,
             ApplyFindsIngress, ApplyDeletesIngress, ApplyCreatesIngress,
             ApplyPrunesIngress, ApplyPrunesDomain
      <3>4. /\ \A d, g : [q EXCEPT !.pc = "prune ingress", !.domain = d, !.ingress = g].pc # "idle"
            /\ \A d : [q EXCEPT !.pc = "prune domain", !.domain = d].pc # "idle"
        BY DEF Request
      <3>5. ASSUME NEW r, Becomes(c, r) PROVE r.pc = "idle"
        BY <1>2, <3>5 DEF ConfiguresInv, StaysInv, WithinInv, TypeOK, Becomes
      <3>6. QED
        BY <2>1, <3>3, <3>4, <3>5 DEF ApplyPrunes
    <2>4. Mapped(q) = q.want /\ {Normalize[s] : s \in q.want} = q.want
      BY <2>2 DEF Mapped, Normalized
    <2>5. \A d \in Mine(q.app) : domains[d].name \in q.want
      <3>1. \A d \in Mine(q.app) :
               <<d, domains[d].name>> \in q.current \/ domains[d].name \in q.want
        BY <2>2, <2>4 DEF Accounted, MappingPcs
      <3>2. \A e \in q.current : e[2] \in q.want
        BY <2>3 DEF Pruned
      <3>3. QED
        BY <3>1, <3>2
    <2>6. \A s \in q.want : \E d \in Mine(q.app) : domains[d].name = s /\ IngressesOf(d) # {}
      BY <2>2, <2>4 DEF Accounted
    <2>7. \A d, e \in Mine(q.app) : domains[d].name = domains[e].name => d = e
      BY <1>2 DEF ConfiguresInv, NamesUnique, Mine
    <2>8. \A d \in Mine(q.app) : IngressesOf(d) # {}
      BY <2>5, <2>6, <2>7
    <2>9. {domains[d].name : d \in Mine(q.app)} = q.want
      BY <2>5, <2>6
    <2>10. QED
      BY <2>1, <2>4, <2>8, <2>9
  <1>3. QED
    BY <1>1, <1>2, NextConfigures, PTL DEF Spec, ApplyConfigures

-----------------------------------------------------------------------------
(* The calls that requests make                                            *)

\* A client without a request has chosen nothing, and when a request arrives the
\* others keep what they have chosen.
LEMMA ArrivesChosen ==
    ASSUME CallsInv, NEW c \in Clients, NEW r \in Request, Arrives(c, r), Chosen(r)
    PROVE  \A o \in Clients : Chosen(reqs'[o])
  <1> DEFINE others == {o \in Clients \ {c} : Busy(o)}
  <1>1. reqs' = [o \in Clients |-> IF o = c THEN [r EXCEPT !.alone = (others = {})]
                                  ELSE [reqs[o] EXCEPT !.alone = @ /\ o \notin others]]
    BY DEF Arrives
  <1>2. ASSUME NEW q \in Request, NEW b, Chosen(q) PROVE Chosen([q EXCEPT !.alone = b])
    <2>1. /\ [q EXCEPT !.alone = b].pc = q.pc /\ [q EXCEPT !.alone = b].want = q.want
          /\ [q EXCEPT !.alone = b].port = q.port /\ [q EXCEPT !.alone = b].todo = q.todo
          /\ [q EXCEPT !.alone = b].service = q.service
      BY DEF Request
    <2>2. QED
      BY <1>2, <2>1 DEF Chosen
  <1>3. ASSUME NEW o \in Clients PROVE Chosen(reqs'[o])
    <2>1. reqs[o] \in Request /\ Chosen(reqs[o])
      BY DEF CallsInv, WithinInv, TypeOK
    <2>2. CASE o = c
      <3>1. reqs'[o] = [r EXCEPT !.alone = (others = {})]
        BY <1>1, <2>2
      <3>2. QED
        BY <1>2, <3>1
    <2>3. CASE o # c
      <3>1. reqs'[o] = [reqs[o] EXCEPT !.alone = (reqs[o].alone /\ o \notin others)]
        BY <1>1, <2>3
      <3>2. QED
        BY <1>2, <2>1, <3>1
    <2>4. QED
      BY <2>2, <2>3
  <1>4. QED
    BY <1>3

\* A request that goes on leaves the others alone.
LEMMA BecomesChosen ==
    ASSUME CallsInv, NEW c \in Clients, NEW r, Becomes(c, r), Chosen(r)
    PROVE  \A o \in Clients : Chosen(reqs'[o])
  BY DEF CallsInv, WithinInv, TypeOK, Becomes

\* A request without apply, or after one, has chosen nothing.
LEMMA IdleChosen == Chosen(Idle)
  BY DEF Chosen, Idle, ApplyPcs, AfterListing, MappingPcs

\* After the listing an apply keeps its manifest and its service, and maps names
\* that the manifest has.
LEMMA ChosenOn ==
    ASSUME NEW q, Chosen(q), q.pc \in AfterListing, NEW r, r.pc \in AfterListing,
           r.want = q.want, r.port = q.port, r.service = q.service, r.todo \subseteq q.todo,
           r.pc \in MappingPcs \cup {"create domain"} => r.want # {}
    PROVE  Chosen(r)
  BY DEF Chosen, AfterListing, MappingPcs, ApplyPcs

\* Ids of services are positive.
LEMMA LiveServiceIds ==
    ASSUME CallsInv PROVE services \in Seq(Service) /\ \A s \in LiveServices(services) : s # 0
  <1>1. services \in Seq(Service)
    BY DEF CallsInv, WithinInv, TypeOK, ConfigTypeOK
  <1>2. QED
    BY <1>1 DEF LiveServices

\* The service is chosen before the names are listed.
LEMMA ServiceChosen ==
    ASSUME CallsInv, NEW c \in Clients,
           \/ ApplyFindsService(c) \/ ApplyCreatesService(c) \/ ApplyUpdatesService(c)
           \/ ApplyListsDomains(c)
    PROVE  \A o \in Clients : Chosen(reqs'[o])
  <1>1. PICK q \in Request : q = reqs[c] /\ Chosen(q)
    BY DEF CallsInv, WithinInv, TypeOK
  <1>2. services \in Seq(Service)
    BY LiveServiceIds
  <1>3. q.pc \in ServicePcs \cup {"list"} /\ q.pc \in ApplyPcs
    BY <1>1 DEF ApplyFindsService, ApplyCreatesService, ApplyUpdatesService,
                ApplyListsDomains, At, ServicePcs, ApplyPcs
  <1>4. ASSUME NEW r, Becomes(c, r), r.want = q.want, r.port = q.port,
               \/ r.pc = "create service"
               \/ r.pc \in {"list", "update service"} /\ r.service # 0
               \/ /\ r.pc \in {"list", "domain"} /\ q.pc \in {"list", "update service"}
                  /\ r.service = q.service /\ (r.pc = "domain" => r.todo = r.want)
        PROVE  \A o \in Clients : Chosen(reqs'[o])
    <2>1. Chosen(r)
      BY <1>1, <1>3, <1>4 DEF Chosen, ApplyPcs, AfterListing, MappingPcs
    <2>2. QED
      BY <1>4, <2>1, BecomesChosen
  <1>5. CASE ApplyFindsService(c)
    <2>1. CASE Becomes(c, [q EXCEPT !.pc = "create service"])
      <3> DEFINE r == [q EXCEPT !.pc = "create service"]
      <3>1. r.pc = "create service" /\ r.want = q.want /\ r.port = q.port
        BY DEF Request
      <3>2. Becomes(c, r)
        BY <2>1
      <3> HIDE DEF r
      <3>3. QED
        BY <1>4, <3>1, <3>2
    <2>2. ASSUME NEW s \in LiveServices(services), NEW pc \in {"list", "update service"},
                 Becomes(c, [q EXCEPT !.service = s, !.pc = pc])
          PROVE  \A o \in Clients : Chosen(reqs'[o])
      <3> DEFINE r == [q EXCEPT !.service = s, !.pc = pc]
      <3>1. r.pc = pc /\ r.want = q.want /\ r.port = q.port /\ r.service = s
        BY DEF Request
      <3>2. s # 0
        BY LiveServiceIds
      <3>3. Becomes(c, r)
        BY <2>2
      <3> HIDE DEF r
      <3>4. QED
        BY <1>4, <2>2, <3>1, <3>2, <3>3
    <2>3. QED
      BY <1>1, <1>5, <2>1, <2>2 DEF ApplyFindsService
  <1>6. CASE ApplyCreatesService(c)
    <2>1. PICK s : s = Len(services) + 1
      OBVIOUS
    <2> DEFINE r == [q EXCEPT !.pc = "list", !.service = s]
    <2>2. r.pc = "list" /\ r.want = q.want /\ r.port = q.port /\ r.service = s
      BY DEF Request
    <2>3. s # 0
      BY <1>2, <2>1
    <2>4. Becomes(c, r)
      BY <1>1, <1>6, <2>1 DEF ApplyCreatesService
    <2> HIDE DEF r
    <2>5. QED
      BY <1>4, <2>2, <2>3, <2>4
  <1>7. CASE ApplyUpdatesService(c)
    <2> DEFINE r == [q EXCEPT !.pc = "list"]
    <2>1. r.pc = "list" /\ r.want = q.want /\ r.port = q.port /\ r.service = q.service
      BY DEF Request
    <2>2. Becomes(c, r) /\ q.pc = "update service"
      BY <1>1, <1>7 DEF ApplyUpdatesService, At
    <2> HIDE DEF r
    <2>3. QED
      BY <1>4, <2>1, <2>2
  <1>8. CASE ApplyListsDomains(c)
    <2>1. PICK cur : Becomes(c, [q EXCEPT !.pc = "domain", !.todo = q.want, !.current = cur])
      BY <1>1, <1>8 DEF ApplyListsDomains
    <2> DEFINE r == [q EXCEPT !.pc = "domain", !.todo = q.want, !.current = cur]
    <2>2. /\ r.pc = "domain" /\ r.want = q.want /\ r.port = q.port /\ r.service = q.service
          /\ r.todo = q.want
      BY DEF Request
    <2>3. Becomes(c, r) /\ q.pc = "list"
      BY <1>1, <1>8, <2>1 DEF ApplyListsDomains, At
    <2> HIDE DEF r
    <2>4. QED
      BY <1>4, <2>2, <2>3
  <1>9. QED
    BY <1>5, <1>6, <1>7, <1>8

\* Then names are mapped and others pruned.
LEMMA MappingChosen ==
    ASSUME CallsInv, NEW c \in Clients,
           \/ ApplyLooksUp(c) \/ ApplyCreatesDomain(c) \/ ApplyFindsIngress(c)
           \/ ApplyDeletesIngress(c) \/ ApplyCreatesIngress(c)
    PROVE  \A o \in Clients : Chosen(reqs'[o])
  <1>1. PICK q \in Request : q = reqs[c] /\ Chosen(q)
    BY DEF CallsInv, WithinInv, TypeOK
  <1>2. q.pc \in AfterListing
    BY <1>1 DEF ApplyLooksUp, ApplyCreatesDomain, ApplyFindsIngress, ApplyDeletesIngress,
                ApplyCreatesIngress, At, AfterListing, MappingPcs
  <1>3. q.want # {}
    BY <1>1 DEF Chosen, ApplyLooksUp, ApplyCreatesDomain, ApplyFindsIngress,
                ApplyDeletesIngress, ApplyCreatesIngress, At, AfterListing, MappingPcs
  <1>4. ASSUME NEW pc \in AfterListing, NEW n, NEW d, NEW g,
               Becomes(c, [q EXCEPT !.pc = pc, !.name = n, !.domain = d, !.ingress = g])
        PROVE  \A o \in Clients : Chosen(reqs'[o])
    <2> DEFINE r == [q EXCEPT !.pc = pc, !.name = n, !.domain = d, !.ingress = g]
    <2>1. /\ r.pc = pc /\ r.want = q.want /\ r.port = q.port /\ r.service = q.service
          /\ r.todo = q.todo
      BY DEF Request
    <2>2. Becomes(c, r)
      BY <1>4
    <2> HIDE DEF r
    <2>3. QED
      BY <1>1, <1>2, <1>3, <1>4, <2>1, <2>2, ChosenOn, BecomesChosen
  <1>5. CASE Becomes(c, NextName(q))
    <2> DEFINE r == NextName(q)
    <2>1. /\ r.pc = "domain" /\ r.want = q.want /\ r.port = q.port /\ r.service = q.service
          /\ r.todo \subseteq q.todo
      BY DEF Request, NextName
    <2>2. Becomes(c, r) /\ r.pc \in AfterListing
      BY <1>5, <2>1 DEF AfterListing
    <2> HIDE DEF r
    <2>3. QED
      BY <1>1, <1>2, <1>3, <2>1, <2>2, ChosenOn, BecomesChosen
  <1>6. CASE Becomes(c, Idle)
    BY <1>6, IdleChosen, BecomesChosen
  <1>7. ASSUME NEW pc \in AfterListing, NEW n, NEW d,
               \/ Becomes(c, [q EXCEPT !.pc = pc])
               \/ Becomes(c, [q EXCEPT !.pc = pc, !.name = n])
               \/ Becomes(c, [q EXCEPT !.pc = pc, !.domain = d])
               \/ Becomes(c, [q EXCEPT !.pc = pc, !.ingress = d])
               \/ Becomes(c, [q EXCEPT !.pc = pc, !.name = n, !.domain = d])
        PROVE  \A o \in Clients : Chosen(reqs'[o])
    <2> DEFINE R(x, y, z) == [q EXCEPT !.pc = pc, !.name = x, !.domain = y, !.ingress = z]
    <2>1. /\ [q EXCEPT !.pc = pc] = R(q.name, q.domain, q.ingress)
          /\ [q EXCEPT !.pc = pc, !.name = n] = R(n, q.domain, q.ingress)
          /\ [q EXCEPT !.pc = pc, !.domain = d] = R(q.name, d, q.ingress)
          /\ [q EXCEPT !.pc = pc, !.ingress = d] = R(q.name, q.domain, d)
          /\ [q EXCEPT !.pc = pc, !.name = n, !.domain = d] = R(n, d, q.ingress)
      BY DEF Request
    <2>2. \A x, y, z : Becomes(c, R(x, y, z)) => \A o \in Clients : Chosen(reqs'[o])
      BY <1>4
    <2> HIDE DEF R
    <2>3. QED
      BY <1>7, <2>1, <2>2
  <1>8. {"create domain", "find ingress", "create ingress", "delete ingress", "replace ingress"}
          \subseteq AfterListing
    BY DEF AfterListing, MappingPcs
  <1>9. CASE ApplyLooksUp(c)
    BY <1>1, <1>6, <1>7, <1>8, <1>9 DEF ApplyLooksUp
  <1>10. CASE ApplyCreatesDomain(c)
    BY <1>1, <1>6, <1>7, <1>8, <1>10 DEF ApplyCreatesDomain
  <1>11. CASE ApplyFindsIngress(c)
    BY <1>1, <1>5, <1>7, <1>8, <1>11 DEF ApplyFindsIngress
  <1>12. CASE ApplyDeletesIngress(c)
    BY <1>1, <1>7, <1>8, <1>12 DEF ApplyDeletesIngress
  <1>13. CASE ApplyCreatesIngress(c)
    BY <1>1, <1>5, <1>6, <1>13 DEF ApplyCreatesIngress
  <1>14. QED
    BY <1>9, <1>10, <1>11, <1>12, <1>13

\* Pruning leaves the choice as it is.
LEMMA PruneChosen ==
    ASSUME CallsInv, NEW c \in Clients,
           ApplyPrunes(c) \/ ApplyPrunesIngress(c) \/ ApplyPrunesDomain(c)
    PROVE  \A o \in Clients : Chosen(reqs'[o])
  <1>1. PICK q \in Request : q = reqs[c] /\ Chosen(q)
    BY DEF CallsInv, WithinInv, TypeOK
  <1>2. q.pc \in AfterListing
    BY <1>1 DEF ApplyPrunes, ApplyPrunesIngress, ApplyPrunesDomain, At, AfterListing
  <1>3. ASSUME NEW r, Becomes(c, r), r.pc \in {"domain", "prune ingress", "prune domain"},
               r.want = q.want, r.port = q.port, r.service = q.service, r.todo = q.todo
        PROVE  \A o \in Clients : Chosen(reqs'[o])
    <2>1. r.pc \in AfterListing /\ r.pc \notin MappingPcs \cup {"create domain"}
      BY <1>3 DEF AfterListing, MappingPcs
    <2>2. QED
      BY <1>1, <1>2, <1>3, <2>1, ChosenOn, BecomesChosen
  <1>4. CASE ApplyPrunes(c)
    <2>1. CASE Becomes(c, Idle)
      BY <2>1, IdleChosen, BecomesChosen
    <2>2. ASSUME NEW d, Becomes(c, [q EXCEPT !.pc = "prune domain", !.domain = d])
          PROVE  \A o \in Clients : Chosen(reqs'[o])
      <3> DEFINE r == [q EXCEPT !.pc = "prune domain", !.domain = d]
      <3>1. /\ r.pc = "prune domain" /\ r.want = q.want /\ r.port = q.port
            /\ r.service = q.service /\ r.todo = q.todo
        BY DEF Request
      <3>2. Becomes(c, r)
        BY <2>2
      <3> HIDE DEF r
      <3>3. QED
        BY <1>3, <3>1, <3>2
    <2>3. ASSUME NEW d, NEW g,
                 Becomes(c, [q EXCEPT !.pc = "prune ingress", !.domain = d, !.ingress = g])
          PROVE  \A o \in Clients : Chosen(reqs'[o])
      <3> DEFINE r == [q EXCEPT !.pc = "prune ingress", !.domain = d, !.ingress = g]
      <3>1. /\ r.pc = "prune ingress" /\ r.want = q.want /\ r.port = q.port
            /\ r.service = q.service /\ r.todo = q.todo
        BY DEF Request
      <3>2. Becomes(c, r)
        BY <2>3
      <3> HIDE DEF r
      <3>3. QED
        BY <1>3, <3>1, <3>2
    <2>4. QED
      BY <1>1, <1>4, <2>1, <2>2, <2>3 DEF ApplyPrunes
  <1>5. CASE ApplyPrunesIngress(c)
    <2> DEFINE r == [q EXCEPT !.pc = "prune domain", !.ingress = 0]
    <2>1. /\ r.pc = "prune domain" /\ r.want = q.want /\ r.port = q.port
          /\ r.service = q.service /\ r.todo = q.todo
      BY DEF Request
    <2>2. Becomes(c, r)
      BY <1>1, <1>5 DEF ApplyPrunesIngress
    <2> HIDE DEF r
    <2>3. QED
      BY <1>3, <2>1, <2>2
  <1>6. CASE ApplyPrunesDomain(c)
    <2>1. PICK cur : Becomes(c, [q EXCEPT !.pc = "domain", !.domain = 0, !.current = cur])
      BY <1>1, <1>6 DEF ApplyPrunesDomain
    <2> DEFINE r == [q EXCEPT !.pc = "domain", !.domain = 0, !.current = cur]
    <2>2. /\ r.pc = "domain" /\ r.want = q.want /\ r.port = q.port
          /\ r.service = q.service /\ r.todo = q.todo
      BY DEF Request
    <2>3. Becomes(c, r)
      BY <2>1
    <2> HIDE DEF r
    <2>4. QED
      BY <1>3, <2>2, <2>3
  <1>7. QED
    BY <1>4, <1>5, <1>6

\* Every step keeps the invariant.
LEMMA NextCalls == CallsInv /\ [Next]_vars => CallsInv'
  <1> SUFFICES ASSUME CallsInv, [Next]_vars PROVE CallsInv'
    OBVIOUS
  <1>1. WithinInv'
    BY NextWithin DEF CallsInv
  <1>2. CASE UNCHANGED vars
    BY <1>1, <1>2 DEF CallsInv, vars
  <1>3. CASE Next
    <2> SUFFICES \A o \in Clients : Chosen(reqs'[o])
      BY <1>1 DEF CallsInv
    <2>1. PICK c \in Clients :
             \/ \E s \in Spellings, a \in Apps : CreateDomain(c, s, a)
             \/ \E a \in Apps, p \in Ports : CreateService(c, a, p)
             \/ \E s \in DOMAIN services, p \in Ports : UpdateService(c, s, p)
             \/ \E d \in DOMAIN domains : DeleteDomain(c, d)
             \/ \E s \in DOMAIN services : DeleteService(c, s)
             \/ \E g \in DOMAIN ingresses : DeleteIngress(c, g)
             \/ \E d \in DOMAIN domains, s \in DOMAIN services, p \in Paths :
                   IngressChecks(c, d, s, p)
             \/ IngressCreates(c)
             \/ \E a \in Apps, want \in SUBSET Spellings, p \in Ports \cup {0} :
                   RequestApply(c, a, want, p)
             \/ ApplyStep(c)
      BY <1>3 DEF Next
    <2>2. CASE Arrives(c, Idle)
      BY <2>2, IdleFacts, IdleChosen, ArrivesChosen
    <2>3. ASSUME NEW d \in DOMAIN domains, NEW s \in DOMAIN services, NEW p \in Paths,
                 IngressChecks(c, d, s, p)
          PROVE  \A o \in Clients : Chosen(reqs'[o])
      <3> DEFINE r == [Idle EXCEPT !.pc = "ingress", !.domain = d, !.service = s, !.path = p]
      <3>1. d \in Nat /\ s \in Nat /\ s # 0
        <4>1. s \in LiveServices(services)
          BY <2>3 DEF IngressChecks
        <4>2. domains \in Seq(Domain) /\ services \in Seq(Service) /\ s # 0
          BY <4>1, LiveServiceIds DEF CallsInv, WithinInv, TypeOK, ConfigTypeOK
        <4>3. QED
          BY <4>2
      <3>2. r \in Request /\ r.pc = "ingress" /\ r.service = s
        BY <3>1, IdleFacts DEF Request
      <3>3. Arrives(c, r)
        BY <2>3 DEF IngressChecks
      <3> HIDE DEF r
      <3>4. Chosen(r)
        BY <3>1, <3>2 DEF Chosen, ApplyPcs, AfterListing, MappingPcs
      <3>5. QED
        BY <3>2, <3>3, <3>4, ArrivesChosen
    <2>4. ASSUME NEW a \in Apps, NEW want \in SUBSET Spellings, NEW p \in Ports \cup {0},
                 RequestApply(c, a, want, p)
          PROVE  \A o \in Clients : Chosen(reqs'[o])
      <3> DEFINE r == [Idle EXCEPT !.pc = IF p = 0 THEN "list" ELSE "service",
                                   !.app = a, !.want = want, !.port = p]
      <3>1. /\ r \in Request /\ r.pc = (IF p = 0 THEN "list" ELSE "service")
            /\ r.want = want /\ r.port = p
        BY IdleFacts, ZenonT(40) DEF Request
      <3>2. Arrives(c, r) /\ (p = 0 => want = {})
        BY <2>4 DEF RequestApply
      <3> HIDE DEF r
      <3>3. Chosen(r)
        BY <3>1, <3>2 DEF Chosen, ApplyPcs, AfterListing, MappingPcs
      <3>4. QED
        BY <3>1, <3>2, <3>3, ArrivesChosen
    <2>5. CASE IngressCreates(c)
      BY <2>5, IdleChosen, BecomesChosen DEF IngressCreates
    <2>6. CASE ApplyStep(c)
      BY <2>6, ServiceChosen, MappingChosen, PruneChosen DEF ApplyStep
    <2>7. QED
      BY <2>1, <2>2, <2>3, <2>4, <2>5, <2>6
         DEF CreateDomain, CreateService, UpdateService, DeleteDomain, DeleteService,
             DeleteIngress
  <1>4. QED
    BY <1>2, <1>3

\* Creating an ingress of what a request holds is a call of Routing's.
LEMMA IngressIsCall ==
    ASSUME CallsInv, NEW c \in Clients, Together(reqs[c].domain, reqs[c].service),
           reqs[c].service # 0, NEW p \in Paths, ~PathTaken(reqs[c].domain, p),
           AddIngress(reqs[c].domain, reqs[c].service, p), UNCHANGED <<domains, services>>
    PROVE  RegistryCall
  <1>1. services \in Seq(Service)
    BY LiveServiceIds
  <1>2. reqs[c].domain \in DOMAIN domains /\ reqs[c].service \in DOMAIN services
    BY <1>1 DEF Together
  <1>3. NewIngress(reqs[c].domain, reqs[c].service, p)
    BY DEF NewIngress, Together
  <1>4. QED
    BY <1>2, <1>3 DEF RegistryCall

\* What DropDomain, DropIngress, DropService and SetPort do is a call or nothing.
LEMMA DropsAreCalls ==
    /\ \A d : DropDomain(d) /\ UNCHANGED services /\ UNCHANGED ingresses
                 => RegistryCall \/ UNCHANGED config
    /\ \A g : DropIngress(g) /\ UNCHANGED domains /\ UNCHANGED services
                 => RegistryCall \/ UNCHANGED config
    /\ \A s : DropService(s) /\ UNCHANGED domains /\ UNCHANGED ingresses
                 => RegistryCall \/ UNCHANGED config
    /\ \A s : \A p \in Ports : SetPort(s, p) /\ UNCHANGED domains /\ UNCHANGED ingresses
                 => RegistryCall \/ UNCHANGED config
  <1>1. ASSUME NEW d, DropDomain(d), UNCHANGED services, UNCHANGED ingresses
        PROVE  RegistryCall \/ UNCHANGED config
    <2>1. CASE d \in LiveDomains(domains)
      BY <1>1, <2>1 DEF RegistryCall, Removal
    <2>2. CASE d \notin LiveDomains(domains)
      BY <1>1, <2>2 DEF DropDomain, config
    <2>3. QED
      BY <2>1, <2>2
  <1>2. ASSUME NEW g, DropIngress(g), UNCHANGED domains, UNCHANGED services
        PROVE  RegistryCall \/ UNCHANGED config
    <2>1. CASE g \in LiveIngresses
      BY <1>2, <2>1 DEF RegistryCall, Removal
    <2>2. CASE g \notin LiveIngresses
      BY <1>2, <2>2 DEF DropIngress, config
    <2>3. QED
      BY <2>1, <2>2
  <1>3. ASSUME NEW s, DropService(s), UNCHANGED domains, UNCHANGED ingresses
        PROVE  RegistryCall \/ UNCHANGED config
    <2>1. CASE s \in LiveServices(services)
      BY <1>3, <2>1 DEF RegistryCall, Removal
    <2>2. CASE s \notin LiveServices(services)
      BY <1>3, <2>2 DEF DropService, config
    <2>3. QED
      BY <2>1, <2>2
  <1>4. ASSUME NEW s, NEW p \in Ports, SetPort(s, p), UNCHANGED domains, UNCHANGED ingresses
        PROVE  RegistryCall \/ UNCHANGED config
    <2>1. CASE s \in LiveServices(services)
      <3>1. s \in DOMAIN services /\ NewPort(s, p)
        BY <1>4, <2>1 DEF NewPort, LiveServices
      <3>2. QED
        BY <3>1 DEF RegistryCall
    <2>2. CASE s \notin LiveServices(services)
      BY <1>4, <2>2 DEF SetPort, config
    <2>3. QED
      BY <2>1, <2>2
  <1>5. QED
    BY <1>1, <1>2, <1>3, <1>4

\* Each step changes the registries by one such call, or not at all.
LEMMA StepIsCall ==
    ASSUME CallsInv, Next
    PROVE  RegistryCall \/ UNCHANGED config
  <1>1. PICK c \in Clients :
           \/ \E s \in Spellings, a \in Apps : CreateDomain(c, s, a)
           \/ \E a \in Apps, p \in Ports : CreateService(c, a, p)
           \/ \E s \in DOMAIN services, p \in Ports : UpdateService(c, s, p)
           \/ \E d \in DOMAIN domains : DeleteDomain(c, d)
           \/ \E s \in DOMAIN services : DeleteService(c, s)
           \/ \E g \in DOMAIN ingresses : DeleteIngress(c, g)
           \/ \E d \in DOMAIN domains, s \in DOMAIN services, p \in Paths :
                 IngressChecks(c, d, s, p)
           \/ IngressCreates(c)
           \/ \E a \in Apps, want \in SUBSET Spellings, p \in Ports \cup {0} :
                 RequestApply(c, a, want, p)
           \/ ApplyStep(c)
    BY DEF Next
  <1>2. reqs[c] \in Request /\ Held(reqs[c]) /\ Chosen(reqs[c])
    BY DEF CallsInv, WithinInv, TypeOK
  <1>3. CASE \E s \in Spellings, a \in Apps : CreateDomain(c, s, a)
    BY <1>3 DEF CreateDomain, NewDomain, RegistryCall
  <1>4. CASE \E a \in Apps, p \in Ports : CreateService(c, a, p)
    BY <1>4 DEF CreateService, NewService, RegistryCall
  <1>5. CASE \E s \in DOMAIN services, p \in Ports : UpdateService(c, s, p)
    BY <1>5, DropsAreCalls DEF UpdateService
  <1>6. CASE \/ \E d \in DOMAIN domains : DeleteDomain(c, d)
             \/ \E s \in DOMAIN services : DeleteService(c, s)
             \/ \E g \in DOMAIN ingresses : DeleteIngress(c, g)
    BY <1>6, DropsAreCalls DEF DeleteDomain, DeleteService, DeleteIngress
  <1>7. CASE IngressCreates(c)
    <2>1. Together(reqs[c].domain, reqs[c].service) /\ reqs[c].service # 0
      BY <1>2, <1>7 DEF Held, Chosen, IngressCreates, At
    <2>2. reqs[c].path \in Paths
      BY <1>2 DEF Request
    <2>3. CASE PathTaken(reqs[c].domain, reqs[c].path)
      BY <1>7, <2>3 DEF IngressCreates, config
    <2>4. CASE ~PathTaken(reqs[c].domain, reqs[c].path)
      BY <1>7, <2>1, <2>2, <2>4, IngressIsCall DEF IngressCreates
    <2>5. QED
      BY <2>3, <2>4
  <1>8. CASE ApplyCreatesService(c) \/ ApplyUpdatesService(c)
    <2>1. reqs[c].app \in Apps /\ reqs[c].port \in Ports
      BY <1>2, <1>8 DEF ApplyCreatesService, ApplyUpdatesService, At, Held, ApplyPcs, ServicePcs
    <2>2. CASE ApplyCreatesService(c)
      BY <2>1, <2>2 DEF ApplyCreatesService, NewService, RegistryCall
    <2>3. CASE ApplyUpdatesService(c)
      BY <2>1, <2>3, DropsAreCalls DEF ApplyUpdatesService
    <2>4. QED
      BY <1>8, <2>2, <2>3
  <1>9. CASE ApplyCreatesDomain(c)
    <2>1. reqs[c].app \in Apps /\ reqs[c].name \in Spellings
      BY <1>2, <1>9 DEF ApplyCreatesDomain, At, Held, ApplyPcs
    <2>2. CASE NameTaken(Normalize[reqs[c].name])
      BY <1>9, <2>2 DEF ApplyCreatesDomain, config
    <2>3. CASE ~NameTaken(Normalize[reqs[c].name])
      <3>1. NewDomain(reqs[c].name, reqs[c].app)
        BY <1>9, <2>3 DEF ApplyCreatesDomain, NewDomain
      <3>2. QED
        BY <2>1, <3>1 DEF RegistryCall
    <2>4. QED
      BY <2>2, <2>3
  <1>10. CASE ApplyCreatesIngress(c)
    <2>1. reqs[c].pc \in MappingPcs
      BY <1>10 DEF ApplyCreatesIngress, MappingPcs
    <2>2. Together(reqs[c].domain, reqs[c].service)
      BY <1>2, <2>1 DEF Held, Together, OwnsDomain, OwnsService, ApplyPcs, MappingPcs
    <2>3. reqs[c].service # 0
      BY <1>2, <2>1 DEF Chosen, ApplyPcs, MappingPcs
    <2>4. CASE PathTaken(reqs[c].domain, "/")
      BY <1>10, <2>4 DEF ApplyCreatesIngress, config
    <2>5. CASE ~PathTaken(reqs[c].domain, "/")
      BY <1>10, <2>2, <2>3, <2>5, IngressIsCall, NetAssumption DEF ApplyCreatesIngress
    <2>6. QED
      BY <2>4, <2>5
  <1>11. CASE ApplyDeletesIngress(c) \/ ApplyPrunesIngress(c) \/ ApplyPrunesDomain(c)
    BY <1>11, DropsAreCalls DEF ApplyDeletesIngress, ApplyPrunesIngress, ApplyPrunesDomain
  <1>12. CASE \/ \E d \in DOMAIN domains, s \in DOMAIN services, p \in Paths :
                    IngressChecks(c, d, s, p)
              \/ \E a \in Apps, want \in SUBSET Spellings, p \in Ports \cup {0} :
                    RequestApply(c, a, want, p)
              \/ ApplyFindsService(c) \/ ApplyListsDomains(c) \/ ApplyLooksUp(c)
              \/ ApplyFindsIngress(c) \/ ApplyPrunes(c)
    BY <1>12 DEF IngressChecks, RequestApply, ApplyFindsService, ApplyListsDomains,
                 ApplyLooksUp, ApplyFindsIngress, ApplyPrunes
  <1>13. QED
    BY <1>1, <1>3, <1>4, <1>5, <1>6, <1>7, <1>8, <1>9, <1>10, <1>11, <1>12 DEF ApplyStep

\* Whatever requests overlap, all they do to the registries is a sequence of the
\* calls of RegistryCall, beside which Routing runs its rounds: what is proved of
\* the routing table holds for the handlers and for apply.
THEOREM CallsHold == Spec => OnlyRegistryCalls
  <1>1. Init => CallsInv
    BY InitWithin, IdleChosen DEF Init, CallsInv
  <1>2. ASSUME CallsInv, [Next]_vars PROVE [RegistryCall]_config
    BY <1>2, StepIsCall DEF vars, config
  <1>3. QED
    BY <1>1, <1>2, NextCalls, PTL DEF Spec, OnlyRegistryCalls
=============================================================================
