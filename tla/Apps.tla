-------------------------------- MODULE Apps --------------------------------
(***************************************************************************)
(* One application and its deployments: the application and deployment     *)
(* registries, AppService.DeployApp / CreateApp / UpdateApp / RollbackApp  *)
(* (internal/service/app_service.go), a secret of the application          *)
(* (internal/application/secret.go) and the deployment part of             *)
(* ApplyHandler.Apply (internal/api/apply.go); module Networking has the   *)
(* rest of Apply.                                                          *)
(*                                                                         *)
(* Each registry call holds its own lock and nothing spans two calls, so   *)
(* the requests of several clients interleave call by call.  A spec is all *)
(* of it but the replicas; Compared gives the part specsMatch looks at     *)
(* (image, command, arguments, environment, ports, strategy), which leaves *)
(* out resources and probes.  The hash of a deployment identifies its      *)
(* snapshot; manifests have no strategy in their snapshot and deploy       *)
(* requests always do, so the two never share a hash.                      *)
(***************************************************************************)
EXTENDS Naturals, FiniteSets

CONSTANTS Clients,        \* clients, each with one request at a time
          Deployments,    \* deployment ids, in order of version
          Specs,          \* specs, without their replicas
          Compared,       \* the part of each spec that specsMatch compares
          ProbedSpecs,    \* the specs with a probe
          SecretParts,    \* the compared parts that refer to the secret
          ReplicaCounts,  \* replicas clients ask for
          Ops,            \* the operations clients use
          MaxRequests     \* bound on requests

ASSUME AppsAssumption ==
    /\ Deployments \subseteq Nat \ {0} /\ ReplicaCounts \subseteq Nat
    /\ Ops \subseteq {"deploy", "update", "rollback", "apply", "secret"}
    /\ MaxRequests \in Nat
    /\ ProbedSpecs \subseteq Specs /\ DOMAIN Compared = Specs

VARIABLES app,       \* the application registry's record
          deps,      \* the deployment registry
          secret,    \* the application has its secret
          outdated,  \* deployments created before the secret's UpdatedAt
          reqs,      \* the request of each client: where it is, and its copies
          requests,  \* number of requests so far
          overlapped \* history: two requests have been under way at once

vars == <<app, deps, secret, outdated, reqs, requests, overlapped>>

NoSpec == "no spec"

\* exists: the application is registered.  0 is the empty ActiveDeploymentID.
App == [exists: BOOLEAN, spec: Specs \cup {NoSpec}, replicas: ReplicaCounts \cup {0},
        active: Deployments \cup {0}]
Deployment == [status: {"none", "ACTIVE", "SUPERSEDED"}, by: {"deploy", "apply"},
               spec: Specs \cup {NoSpec}, replicas: ReplicaCounts \cup {0}]
NoDeployment == [status |-> "none", by |-> "deploy", spec |-> NoSpec, replicas |-> 0]

\* old is the caller's copy of ActiveDeploymentID, dep the deployment it
\* creates, chooses or rolls back to.  A deploy of an unknown application goes
\* on as CreateApp, with op "create".
Request == [op: {"deploy", "create", "update", "rollback", "apply"},
            pc: {"idle", "read", "register", "prepare", "list", "create", "switch",
                 "supersede", "activate"},
            spec: Specs \cup {NoSpec}, replicas: ReplicaCounts \cup {0},
            old: Deployments \cup {0}, dep: Deployments \cup {0}]
Idle == [op |-> "deploy", pc |-> "idle", spec |-> NoSpec, replicas |-> 0,
         old |-> 0, dep |-> 0]

TypeOK ==
    /\ app \in App
    /\ deps \in [Deployments -> Deployment]
    /\ secret \in BOOLEAN /\ outdated \subseteq Deployments
    /\ reqs \in [Clients -> Request]
    /\ requests \in 0..MaxRequests /\ overlapped \in BOOLEAN

Init ==
    /\ app = [exists |-> FALSE, spec |-> NoSpec, replicas |-> 0, active |-> 0]
    /\ deps = [d \in Deployments |-> NoDeployment]
    /\ secret = FALSE /\ outdated = {}
    /\ reqs = [c \in Clients |-> Idle]
    /\ requests = 0 /\ overlapped = FALSE

Known == {d \in Deployments : deps[d].status # "none"}
NextDeployment(d) ==
    d \notin Known /\ \A e \in Deployments : e < d => e \in Known

At(c, op, pc) == reqs[c].op = op /\ reqs[c].pc = pc
Becomes(c, r) == reqs' = [reqs EXCEPT ![c] = r]
GoesTo(c, pc) == Becomes(c, [reqs[c] EXCEPT !.pc = pc])

-----------------------------------------------------------------------------
(* Requests arrive                                                         *)

Send(c, r) ==
    /\ reqs[c].pc = "idle" /\ requests < MaxRequests
    /\ requests' = requests + 1 /\ Becomes(c, r)
    /\ overlapped' = (overlapped \/ \E o \in Clients : reqs[o].pc # "idle")
    /\ UNCHANGED <<app, deps, secret, outdated>>

RequestDeploy(c, s, n) ==
    "deploy" \in Ops /\ Send(c, [Idle EXCEPT !.pc = "read", !.spec = s, !.replicas = n])
RequestUpdate(c, s, n) ==
    "update" \in Ops /\ Send(c, [Idle EXCEPT !.op = "update", !.pc = "read", !.spec = s,
                                             !.replicas = n])
RequestApply(c, s, n) ==
    "apply" \in Ops /\ Send(c, [Idle EXCEPT !.op = "apply", !.pc = "read", !.spec = s,
                                            !.replicas = n])
RequestRollback(c, d) ==
    "rollback" \in Ops /\ d \in Known
    /\ Send(c, [Idle EXCEPT !.op = "rollback", !.pc = "read", !.dep = d])

\* SecretRegistry.Set and Delete, one call each.
SetSecret ==
    /\ "secret" \in Ops /\ app.exists /\ requests < MaxRequests
    /\ secret' = TRUE /\ outdated' = Known
    /\ requests' = requests + 1
    /\ overlapped' = (overlapped \/ \E o \in Clients : reqs[o].pc # "idle")
    /\ UNCHANGED <<app, deps, reqs>>

DeleteSecret ==
    /\ secret /\ requests < MaxRequests
    /\ secret' = FALSE /\ requests' = requests + 1
    /\ overlapped' = (overlapped \/ \E o \in Clients : reqs[o].pc # "idle")
    /\ UNCHANGED <<app, deps, outdated, reqs>>

-----------------------------------------------------------------------------
(* CreateApp, DeployApp and UpdateApp                                      *)

\* The environment, which is compared, has a reference to the secret.
RefersToSecret(s) == Compared[s] \in SecretParts

\* Deployment d may run with an older value of its secret than the current one.
SecretChanged(d) == secret /\ RefersToSecret(deps[d].spec) /\ d \in outdated

\* Mutant of specsMatch: updated secrets are not looked at.
specsMatchSecrets(d, s, n) ==
    /\ d # 0 /\ deps[d].by = "deploy" /\ Compared[deps[d].spec] = Compared[s]
    /\ deps[d].replicas = n

\* Snapshots of manifests have no strategy and never match.
specsMatch(d, s, n) ==
    /\ d # 0 /\ deps[d].by = "deploy" /\ Compared[deps[d].spec] = Compared[s]
    /\ deps[d].replicas = n /\ ~SecretChanged(d)

DeployReads(c) ==
    LET r == reqs[c] IN
    /\ At(c, "deploy", "read")
    /\ \/ /\ ~app.exists
          /\ Becomes(c, [r EXCEPT !.op = "create", !.pc = "register"])
       \/ /\ app.exists /\ specsMatch(app.active, r.spec, r.replicas)
          /\ Becomes(c, Idle)
       \/ /\ app.exists /\ ~specsMatch(app.active, r.spec, r.replicas)
          /\ Becomes(c, [r EXCEPT !.pc = "create", !.old = app.active])
    /\ UNCHANGED <<app, deps, secret, outdated, requests, overlapped>>

\* UpdateApp fails for an unknown application and compares nothing.
UpdateReads(c) ==
    LET r == reqs[c] IN
    /\ At(c, "update", "read")
    /\ \/ ~app.exists /\ Becomes(c, Idle)
       \/ app.exists /\ Becomes(c, [r EXCEPT !.pc = "create", !.old = app.active])
    /\ UNCHANGED <<app, deps, secret, outdated, requests, overlapped>>

\* AppRegistry.Create; when another client was faster the request fails.  Apply
\* registers an empty spec.
Registers(c) ==
    LET r == reqs[c] IN
    /\ r.pc = "register"
    /\ \/ app.exists /\ Becomes(c, Idle) /\ UNCHANGED app
       \/ /\ ~app.exists /\ r.op = "create"
          /\ app' = [app EXCEPT !.exists = TRUE, !.spec = r.spec, !.replicas = r.replicas]
          /\ GoesTo(c, "create")
       \/ /\ ~app.exists /\ r.op = "apply"
          /\ app' = [app EXCEPT !.exists = TRUE]
          /\ GoesTo(c, "prepare")
    /\ UNCHANGED <<deps, secret, outdated, requests, overlapped>>

\* Mutant of Creates: the newest deployment's record is used again.
CreatesInPlace(c) ==
    LET r == reqs[c] IN
    /\ r.op \in {"deploy", "create", "update"} /\ r.pc = "create"
    /\ \E d \in Deployments :
          /\ IF Known = {} THEN NextDeployment(d) ELSE d \in Known /\ NextDeployment(d + 1)
          /\ deps' = [deps EXCEPT ![d] = [status |-> "ACTIVE", by |-> "deploy",
                                          spec |-> r.spec, replicas |-> r.replicas]]
          /\ Becomes(c, [r EXCEPT !.pc = "switch", !.dep = d])
    /\ UNCHANGED <<app, secret, outdated, requests, overlapped>>

Creates(c) ==
    LET r == reqs[c] IN
    /\ r.op \in {"deploy", "create", "update"} /\ r.pc = "create"
    /\ \E d \in Deployments :
          /\ NextDeployment(d)
          /\ deps' = [deps EXCEPT ![d] = [status |-> "ACTIVE", by |-> "deploy",
                                          spec |-> r.spec, replicas |-> r.replicas]]
          /\ Becomes(c, [r EXCEPT !.pc = "switch", !.dep = d])
    /\ UNCHANGED <<app, secret, outdated, requests, overlapped>>

\* CreateApp ends with the switch.
Switches(c) ==
    LET r == reqs[c] IN
    /\ r.op \in {"deploy", "create", "update"} /\ r.pc = "switch"
    /\ app' = [app EXCEPT !.spec = r.spec, !.replicas = r.replicas, !.active = r.dep]
    /\ IF r.op = "create" THEN Becomes(c, Idle) ELSE GoesTo(c, "supersede")
    /\ UNCHANGED <<deps, secret, outdated, requests, overlapped>>

-----------------------------------------------------------------------------
(* RollbackApp                                                             *)

RollbackReads(c) ==
    /\ At(c, "rollback", "read")
    /\ Becomes(c, [reqs[c] EXCEPT !.pc = "switch", !.old = app.active])
    /\ UNCHANGED <<app, deps, secret, outdated, requests, overlapped>>

\* Only the pointer moves: the application's spec stays the newer one.
RollbackSwitches(c) ==
    /\ At(c, "rollback", "switch")
    /\ app' = [app EXCEPT !.active = reqs[c].dep]
    /\ GoesTo(c, "supersede") /\ UNCHANGED <<deps, secret, outdated, requests, overlapped>>

\* Mutant of Supersedes: the old deployment keeps its status.
SupersedesNothing(c) ==
    /\ reqs[c].pc = "supersede"
    /\ GoesTo(c, "activate") /\ UNCHANGED <<app, deps, secret, outdated, requests, overlapped>>

\* All but CreateApp end by superseding the deployment they read as active.
Supersedes(c) ==
    LET r == reqs[c] IN
    /\ r.pc = "supersede"
    /\ deps' = IF r.old \in {0, r.dep} THEN deps
               ELSE [deps EXCEPT ![r.old].status = "SUPERSEDED"]
    /\ GoesTo(c, "activate") /\ UNCHANGED <<app, secret, outdated, requests, overlapped>>

Activates(c) ==
    /\ reqs[c].pc = "activate"
    /\ deps' = [deps EXCEPT ![reqs[c].dep].status = "ACTIVE"]
    /\ Becomes(c, Idle) /\ UNCHANGED <<app, secret, outdated, requests, overlapped>>

-----------------------------------------------------------------------------
(* Apply: the application, then a deployment with the manifest's hash      *)

ApplyReads(c) ==
    /\ At(c, "apply", "read")
    /\ GoesTo(c, IF app.exists THEN "prepare" ELSE "register")
    /\ UNCHANGED <<app, deps, secret, outdated, requests, overlapped>>

\* The required secret must exist; the service and domains in between, which
\* are Networking's, may refuse the request.  The application stays registered.
ApplyPrepares(c) ==
    LET r == reqs[c] IN
    /\ At(c, "apply", "prepare")
    /\ \/ Becomes(c, Idle)
       \/ (RefersToSecret(r.spec) => secret) /\ GoesTo(c, "list")
    /\ UNCHANGED <<app, deps, secret, outdated, requests, overlapped>>

Matching(s) == {d \in Known : deps[d].by = "apply" /\ deps[d].spec = s}

\* Mutant of ApplyLists: only the active deployment's hash is compared.
ApplyListsActive(c) ==
    LET r == reqs[c]  matching == Matching(r.spec) \cap {app.active} IN
    /\ At(c, "apply", "list")
    /\ \/ matching = {} /\ GoesTo(c, "create")
       \/ \E d \in matching : Becomes(c, [r EXCEPT !.pc = "switch", !.dep = d])
    /\ UNCHANGED <<app, deps, secret, outdated, requests, overlapped>>

\* Any deployment with the hash is used again, in the map's arbitrary order.
ApplyLists(c) ==
    LET r == reqs[c] IN
    /\ At(c, "apply", "list")
    /\ \/ Matching(r.spec) = {} /\ GoesTo(c, "create")
       \/ \E d \in Matching(r.spec) : Becomes(c, [r EXCEPT !.pc = "switch", !.dep = d])
    /\ UNCHANGED <<app, deps, secret, outdated, requests, overlapped>>

\* ToDeploymentSpec leaves Replicas at zero in the snapshot.
ApplyCreates(c) ==
    LET r == reqs[c] IN
    /\ At(c, "apply", "create")
    /\ \E d \in Deployments :
          /\ NextDeployment(d)
          /\ deps' = [deps EXCEPT ![d] = [status |-> "ACTIVE", by |-> "apply",
                                          spec |-> r.spec, replicas |-> 0]]
          /\ Becomes(c, [r EXCEPT !.pc = "switch", !.dep = d])
    /\ UNCHANGED <<app, secret, outdated, requests, overlapped>>

\* The last call of Apply; no deployment is superseded.  ToDeploymentSpec gives
\* a probe neither type nor thresholds, so Update refuses a spec with a probe,
\* and Apply ignores the error.
ApplySwitches(c) ==
    LET r == reqs[c] IN
    /\ At(c, "apply", "switch")
    /\ app' = IF r.spec \in ProbedSpecs THEN app
              ELSE [app EXCEPT !.spec = r.spec, !.replicas = r.replicas, !.active = r.dep]
    /\ Becomes(c, Idle) /\ UNCHANGED <<deps, secret, outdated, requests, overlapped>>

Next ==
    \/ SetSecret \/ DeleteSecret
    \/ \E c \in Clients :
       \/ \E s \in Specs, n \in ReplicaCounts :
             RequestDeploy(c, s, n) \/ RequestUpdate(c, s, n) \/ RequestApply(c, s, n)
       \/ \E d \in Deployments : RequestRollback(c, d)
       \/ DeployReads(c) \/ UpdateReads(c) \/ Registers(c) \/ Creates(c) \/ Switches(c)
       \/ RollbackReads(c) \/ RollbackSwitches(c) \/ Supersedes(c) \/ Activates(c)
       \/ ApplyReads(c) \/ ApplyPrepares(c) \/ ApplyLists(c) \/ ApplyCreates(c)
       \/ ApplySwitches(c)

Spec == Init /\ [][Next]_vars

-----------------------------------------------------------------------------
(* Properties                                                              *)

Quiescent == \A c \in Clients : reqs[c].pc = "idle"

\* What a deployment runs never changes, whatever requests overlap: rollback
\* can rely on old snapshots (deployment Registry.Create makes new records).
SnapshotsImmutable ==
    [][\A d \in Known : /\ deps'[d].spec = deps[d].spec
                        /\ deps'[d].replicas = deps[d].replicas]_vars

\* As long as requests do not overlap and no manifest was applied, exactly the
\* active deployment has status ACTIVE after each request (CreateApp, DeployApp,
\* UpdateApp, RollbackApp: create, switch, supersede, activate).
OneActiveDeployment ==
    (/\ ~overlapped /\ Quiescent /\ app.active # 0
     /\ \A d \in Known : deps[d].by = "deploy") =>
        {d \in Deployments : deps[d].status = "ACTIVE"} = {app.active}

\* The request of c deploys, overlaps no other and is answered in this step.
DeployEnds(c) ==
    /\ reqs[c].op \in {"deploy", "create", "update"} /\ app.exists
    /\ ~overlapped /\ reqs[c].pc # "idle" /\ reqs'[c].pc = "idle"

\* When a deploy or update that overlaps no other request returns, the active
\* deployment has the replicas it asked for and its image, command, arguments,
\* environment, ports and strategy, and is not older than the last update of its
\* secret, whether one was created or the active one was found to match, and
\* whatever was deployed, applied, rolled back to, set or deleted before; an
\* update also takes over resources and probes (DeployApp, specsMatch, UpdateApp,
\* SecretRegistry.Set).  For a deploy see DeployIsExact.
DeployTakesEffect ==
    [][\A c \in Clients : DeployEnds(c) =>
          /\ Compared[deps'[app'.active].spec] = Compared[reqs[c].spec]
          /\ deps'[app'.active].replicas = reqs[c].replicas
          /\ reqs[c].op = "update" => deps'[app'.active].spec = reqs[c].spec
          /\ ~(secret' /\ RefersToSecret(reqs[c].spec) /\ app'.active \in outdated')]_vars

\* MILESTONE_8M, "runstack apply is strictly idempotent".
OneDeploymentPerManifest ==
    \A d, e \in Known :
        (deps[d].by = "apply" /\ deps[e].by = "apply" /\ deps[d].spec = deps[e].spec)
            => d = e

\* Applying a manifest again, one request at a time, creates no second
\* deployment for it, also after deploys and rollbacks (Apply looks through
\* all deployments for the hash).
ApplyIdempotent == ~overlapped => OneDeploymentPerManifest

-----------------------------------------------------------------------------
(* What documents say and the code does not do                             *)

\* MILESTONE_7B, "There is exactly one ACTIVE deployment per Application":
\* without the conditions of OneActiveDeployment.
ExactlyOneActive ==
    (Quiescent /\ app.active # 0) =>
        {d \in Deployments : deps[d].status = "ACTIVE"} = {app.active}

\* MILESTONE_8F, "If the specs differ (e.g., new digest or modified env var): A new
\* immutable `Deployment` version is created": a deploy that changes only probes
\* or resources is answered with the old deployment.
DeployIsExact ==
    [][\A c \in Clients : DeployEnds(c) => deps'[app'.active].spec = reqs[c].spec]_vars

\* MILESTONE_8M, "Fields like replicas update the Application scaling target":
\* the reconciler's target is the replicas of the active snapshot.
AppliedReplicasAreTarget ==
    (Quiescent /\ app.active # 0) => deps[app.active].replicas = app.replicas

\* MILESTONE_8M, "If the hash differs, a new immutable Deployment is created,
\* triggering the existing RolloutReconciler": an apply that was answered has
\* made the manifest's deployment the active one.
ApplyTakesEffect ==
    [][\A c \in Clients :
          (At(c, "apply", "switch") /\ reqs'[c].pc = "idle") => app'.active = reqs[c].dep]_vars
=============================================================================
