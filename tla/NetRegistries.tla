---------------------------- MODULE NetRegistries ---------------------------
(***************************************************************************)
(* The registries behind the proxy: services (internal/route/registry.go), *)
(* domains and ingresses (internal/ingress).  Each call holds its          *)
(* registry's lock.                                                        *)
(*                                                                         *)
(* Ids are random and never reused: a registry is the sequence of what was *)
(* created in it, with a blank record for what was deleted.  Applications  *)
(* are never removed and are constants here; the TLS flag and status of a  *)
(* domain are left out.                                                    *)
(***************************************************************************)
EXTENDS Naturals, Sequences

CONSTANTS Apps,
          Spellings,     \* domain names as clients write them
          Normalize,     \* NormalizeDomain
          Paths,         \* of ingresses, "/" among them
          Ports          \* target ports of services; 0 is none

None == "none"

ASSUME NetAssumption ==
    /\ None \notin Apps
    /\ Normalize \in [Spellings -> Spellings] /\ "/" \in Paths
    /\ Ports \subseteq Nat \ {0}

VARIABLES domains, services, ingresses

config == <<domains, services, ingresses>>

Names == {Normalize[s] : s \in Spellings}

NoDomain == [name |-> None, app |-> None]
Domain == [name: Names, app: Apps] \cup {NoDomain}
NoService == [app |-> None, port |-> 0]
Service == [app: Apps, port: Ports] \cup {NoService}
Ingress == [domain: Nat, service: Nat, path: Paths]
NoIngress == [domain |-> 0, service |-> 0, path |-> "/"]

ConfigTypeOK ==
    domains \in Seq(Domain) /\ services \in Seq(Service) /\ ingresses \in Seq(Ingress)

ConfigInit == domains = <<>> /\ services = <<>> /\ ingresses = <<>>

LiveDomains(ds) == {d \in DOMAIN ds : ds[d] # NoDomain}
LiveServices(ss) == {s \in DOMAIN ss : ss[s] # NoService}
LiveIngresses == {g \in DOMAIN ingresses : ingresses[g] # NoIngress}
Named(n) == {d \in LiveDomains(domains) : domains[d].name = n}
IngressesOf(d) == {g \in LiveIngresses : ingresses[g].domain = d}

NameTaken(n) == Named(n) # {}

AddDomain(n, a) == domains' = Append(domains, [name |-> n, app |-> a])
AddService(a, p) == services' = Append(services, [app |-> a, port |-> p])

\* Mutant of PathTaken: uniqueness is left to the caller.
PathTakenNever(d, p) == FALSE

\* IngressRegistry.Create refuses a second ingress of a domain and path.
PathTaken(d, p) == \E g \in IngressesOf(d) : ingresses[g].path = p
AddIngress(d, s, p) ==
    ingresses' = Append(ingresses, [domain |-> d, service |-> s, path |-> p])

\* Deleting what is not there changes nothing.
DropDomain(d) ==
    domains' = IF d \in LiveDomains(domains) THEN [domains EXCEPT ![d] = NoDomain] ELSE domains
DropIngress(g) ==
    ingresses' = IF g \in LiveIngresses THEN [ingresses EXCEPT ![g] = NoIngress] ELSE ingresses
DropService(s) ==
    services' = IF s \in LiveServices(services) THEN [services EXCEPT ![s] = NoService] ELSE services
SetPort(s, p) ==
    services' = IF s \in LiveServices(services) THEN [services EXCEPT ![s].port = p] ELSE services

-----------------------------------------------------------------------------
(* What the requests of clients do to the registries, call by call: module *)
(* Networking makes no other calls and module Routing runs beside these.   *)

NewDomain(s, a) ==
    LET n == Normalize[s] IN
    ~NameTaken(n) /\ AddDomain(n, a) /\ UNCHANGED <<services, ingresses>>

NewService(a, p) == AddService(a, p) /\ UNCHANGED <<domains, ingresses>>

NewPort(s, p) ==
    s \in LiveServices(services) /\ SetPort(s, p) /\ UNCHANGED <<domains, ingresses>>

\* The domain and the service were compared earlier and may be gone by now.
NewIngress(d, s, p) ==
    /\ (d \in LiveDomains(domains) /\ s \in LiveServices(services))
          => domains[d].app = services[s].app
    /\ ~PathTaken(d, p) /\ AddIngress(d, s, p) /\ UNCHANGED <<domains, services>>

Removal ==
    \/ /\ \E d \in LiveDomains(domains) : DropDomain(d)
       /\ UNCHANGED <<services, ingresses>>
    \/ /\ \E s \in LiveServices(services) : DropService(s)
       /\ UNCHANGED <<domains, ingresses>>
    \/ /\ \E g \in LiveIngresses : DropIngress(g)
       /\ UNCHANGED <<domains, services>>

RegistryCall ==
    \/ \E s \in Spellings, a \in Apps : NewDomain(s, a)
    \/ \E a \in Apps, p \in Ports : NewService(a, p)
    \/ \E s \in DOMAIN services, p \in Ports : NewPort(s, p)
    \/ \E d \in DOMAIN domains, s \in DOMAIN services, p \in Paths : NewIngress(d, s, p)
    \/ Removal
=============================================================================
