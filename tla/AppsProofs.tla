----------------------------- MODULE AppsProofs -----------------------------
(***************************************************************************)
(* Theorems about Apps for any number of clients, deployments, specs and   *)
(* requests.                                                               *)
(***************************************************************************)
EXTENDS Apps, TLAPS

-----------------------------------------------------------------------------
(* The inductive invariant.                                                *)

Deploys == {"deploy", "create", "update"}
Last == {"switch", "supersede", "activate"}

\* A request r knows only deployments that exist; one that deploys has made
\* the snapshot it asked for, one that applies has chosen a manifest's.
RequestOK(r) ==
    /\ r.old \in Known \cup {0}
    /\ r.pc \in Last \/ r.op = "rollback" => r.dep \in Known
    /\ r.op \in Deploys /\ r.pc \in Last =>
          deps[r.dep].spec = r.spec /\ deps[r.dep].replicas = r.replicas
    /\ r.op = "apply" /\ r.pc = "switch" => deps[r.dep].by = "apply"
    /\ r.pc = "register" => r.op \in {"create", "apply"}
    /\ r.pc \in {"prepare", "list", "create"} \cup Last => app.exists

\* What holds whatever requests overlap.
RegistriesInv ==
    /\ outdated \subseteq Known /\ app.active \in Known \cup {0}
    /\ Known # {} => app.exists
    /\ \A c \in Clients : RequestOK(reqs[c])

\* What the only request under way can rely on.
AloneOK(r) ==
    /\ r.op = "create" /\ r.pc = "register" => ~app.exists
    /\ r.pc \in {"supersede", "activate"} => app.active = r.dep
    /\ r.op \in Deploys /\ r.pc \in Last => r.dep \notin outdated
    /\ r.op = "apply" /\ r.pc = "create" => Matching(r.spec) = {}

NoManifest == \A d \in Known : deps[d].by = "deploy"
Actives == {d \in Deployments : deps[d].status = "ACTIVE"}
Pointed == {app.active} \ {0}

\* Which deployments are ACTIVE in the middle of the only request r.
StatusOK(r) ==
    /\ r.pc \in {"read", "register", "prepare", "list", "create"} => Actives = Pointed
    /\ r.pc = "create" /\ r.op \in {"deploy", "update"} => r.old = app.active
    /\ r.pc \in {"create", "switch"} /\ r.op = "create" => app.active = 0
    /\ r.pc = "switch" /\ r.op \in Deploys => Actives = Pointed \cup {r.dep}
    /\ r.pc = "switch" /\ r.op = "rollback" => Actives = Pointed
    /\ r.pc = "switch" /\ r.op \in {"deploy", "update", "rollback"} => r.old = app.active
    /\ r.pc = "supersede" => app.active = r.dep /\ Actives \subseteq {r.old, r.dep}
    /\ r.pc = "activate" => app.active = r.dep /\ Actives \subseteq {r.dep}

Busy(c) == reqs[c].pc # "idle"

\* What holds as long as requests come one at a time.
OneAtATime ==
    /\ \A b, c \in Clients : Busy(b) /\ Busy(c) => b = c
    /\ OneDeploymentPerManifest
    /\ \A c \in Clients : Busy(c) => AloneOK(reqs[c])
    /\ NoManifest => /\ Quiescent => Actives = Pointed
                     /\ \A c \in Clients : Busy(c) => StatusOK(reqs[c])

AppsInv == TypeOK /\ RegistriesInv /\ (~overlapped => OneAtATime)

-----------------------------------------------------------------------------
(* What a step may do to the deployments.                                  *)

\* Deployments stay, with their snapshots and their makers.
DepsKeep ==
    /\ Known \subseteq Known'
    /\ \A d \in Known : /\ deps'[d].spec = deps[d].spec
                        /\ deps'[d].replicas = deps[d].replicas
                        /\ deps'[d].by = deps[d].by

\* Most calls leave the deployments alone.
LEMMA DepsUnchanged ==
    ASSUME UNCHANGED deps
    PROVE  DepsKeep /\ Known' = Known /\ Actives' = Actives
  BY DEF DepsKeep, Known, Actives

\* Registry.Create makes a new record for a deployment that was not there.
LEMMA DepsCreate ==
    ASSUME TypeOK, NEW d \in Deployments, d \notin Known, NEW r \in Deployment,
           r.status = "ACTIVE", deps' = [deps EXCEPT ![d] = r]
    PROVE  /\ DepsKeep /\ Known' = Known \cup {d} /\ Actives' = Actives \cup {d}
           /\ deps'[d] = r /\ deps' \in [Deployments -> Deployment]
  <1>1. deps \in [Deployments -> Deployment]
    BY DEF TypeOK
  <1>2. deps'[d] = r /\ deps' \in [Deployments -> Deployment]
    BY <1>1
  <1>3. \A e \in Deployments : e # d => deps'[e] = deps[e]
    BY <1>1
  <1>4. Known' = Known \cup {d} /\ Actives' = Actives \cup {d}
    BY <1>2, <1>3 DEF Known, Actives
  <1> QED
    BY <1>2, <1>3, <1>4 DEF DepsKeep, Known

\* Registry.UpdateStatus changes the status of one record and nothing else.
LEMMA DepsStatus ==
    ASSUME TypeOK, NEW d \in Known, NEW s \in {"ACTIVE", "SUPERSEDED"},
           deps' = [deps EXCEPT ![d].status = s]
    PROVE  /\ DepsKeep /\ Known' = Known /\ deps' \in [Deployments -> Deployment]
           /\ Actives' = IF s = "ACTIVE" THEN Actives \cup {d} ELSE Actives \ {d}
  <1>1. deps \in [Deployments -> Deployment] /\ d \in Deployments /\ deps[d] \in Deployment
    BY DEF TypeOK, Known
  <1>2. /\ deps'[d] = [deps[d] EXCEPT !.status = s]
        /\ \A e \in Deployments : e # d => deps'[e] = deps[e]
    BY <1>1
  <1>3. deps'[d] \in Deployment /\ deps'[d].status = s
        /\ deps'[d].spec = deps[d].spec /\ deps'[d].replicas = deps[d].replicas
        /\ deps'[d].by = deps[d].by
    BY <1>1, <1>2 DEF Deployment
  <1>4. deps' \in [Deployments -> Deployment]
    BY <1>1, <1>2, <1>3
  <1>5. Known' = Known
    BY <1>2, <1>3 DEF Known
  <1>6. Actives' = IF s = "ACTIVE" THEN Actives \cup {d} ELSE Actives \ {d}
    BY <1>1, <1>2, <1>3 DEF Actives
  <1> QED
    BY <1>2, <1>3, <1>4, <1>5, <1>6 DEF DepsKeep, Known

-----------------------------------------------------------------------------
(* What a step of one request has to show.                                 *)

\* OneAtATime when no request but c's is under way.
Alone(c) ==
    /\ \A o \in Clients \ {c} : ~Busy(o)
    /\ OneDeploymentPerManifest
    /\ Busy(c) => AloneOK(reqs[c])
    /\ NoManifest => IF Busy(c) THEN StatusOK(reqs[c]) ELSE Actives = Pointed

\* The invariant as the request of c sees it.
LEMMA AloneHolds ==
    ASSUME AppsInv, ~overlapped, NEW c \in Clients, Busy(c) \/ Quiescent
    PROVE  Alone(c)
  BY DEF AppsInv, OneAtATime, Alone, Busy, Quiescent

\* What the other requests know stays true: deployments and the application
\* never disappear.
LEMMA OthersKeep ==
    ASSUME NEW r \in Request, RequestOK(r), DepsKeep, app.exists => app'.exists
    PROVE  RequestOK(r)'
  <1>1. Known \subseteq Known'
    BY DEF DepsKeep
  <1>2. r.old \in Known' \cup {0} /\ (r.pc \in Last \/ r.op = "rollback" => r.dep \in Known')
    BY <1>1 DEF RequestOK
  <1>3. r.op \in Deploys /\ r.pc \in Last =>
            deps'[r.dep].spec = r.spec /\ deps'[r.dep].replicas = r.replicas
    BY DEF RequestOK, DepsKeep
  <1>4. r.op = "apply" /\ r.pc = "switch" => deps'[r.dep].by = "apply"
    BY DEF RequestOK, DepsKeep, Last
  <1>5. /\ r.pc = "register" => r.op \in {"create", "apply"}
        /\ r.pc \in {"prepare", "list", "create"} \cup Last => app'.exists
    BY DEF RequestOK
  <1> QED
    BY <1>2, <1>3, <1>4, <1>5 DEF RequestOK

LEMMA StepOf ==
    ASSUME AppsInv, NEW c \in Clients, \A o \in Clients \ {c} : reqs'[o] = reqs[o],
           DepsKeep, app.exists => app'.exists, TypeOK',
           outdated' \subseteq Known', app'.active \in Known' \cup {0},
           Known' # {} => app'.exists,
           RequestOK(reqs[c])', ~overlapped' => Alone(c)'
    PROVE  AppsInv'
  <1>1. \A o \in Clients : RequestOK(reqs[o])'
    <2> SUFFICES ASSUME NEW o \in Clients PROVE RequestOK(reqs[o])'
      OBVIOUS
    <2>1. PICK r \in Request : r = reqs[o] /\ RequestOK(r)
      BY DEF AppsInv, TypeOK, RegistriesInv
    <2>2. RequestOK(r)'
      BY <2>1, OthersKeep
    <2>3. CASE o # c
      <3>1. reqs'[o] = r
        BY <2>1, <2>3
      <3> QED
        BY <2>2, <3>1 DEF RequestOK
    <2> QED
      BY <2>3
  <1>2. RegistriesInv'
    BY <1>1 DEF RegistriesInv
  <1>3. ~overlapped' => OneAtATime'
    BY DEF Alone, OneAtATime, Busy, Quiescent
  <1> QED
    BY <1>2, <1>3 DEF AppsInv

\* A call that only reads: the registries stay, c's request becomes q.
LEMMA ReadOf ==
    ASSUME AppsInv, NEW c \in Clients, Busy(c), NEW q \in Request, Becomes(c, q),
           UNCHANGED <<app, deps, secret, outdated, requests, overlapped>>,
           RequestOK(q), ~overlapped /\ q.pc # "idle" => AloneOK(q),
           ~overlapped /\ NoManifest =>
              IF q.pc # "idle" THEN StatusOK(q) ELSE Actives = Pointed
    PROVE  AppsInv'
  <1>1. reqs \in [Clients -> Request]
    BY DEF AppsInv, TypeOK
  <1>2. /\ reqs' \in [Clients -> Request] /\ reqs'[c] = q
        /\ \A o \in Clients \ {c} : reqs'[o] = reqs[o]
    BY <1>1 DEF Becomes
  <1>3. TypeOK'
    BY <1>2 DEF AppsInv, TypeOK
  <1>4. DepsKeep /\ Known' = Known /\ Actives' = Actives
    BY DepsUnchanged
  <1>5. /\ outdated' \subseteq Known' /\ app'.active \in Known' \cup {0}
        /\ Known' # {} => app'.exists
    BY <1>4 DEF AppsInv, RegistriesInv
  <1>6. RequestOK(reqs[c])'
    BY <1>2, <1>4 DEF RequestOK
  <1>7. ASSUME ~overlapped' PROVE Alone(c)'
    <2>1. ~overlapped /\ Alone(c)
      BY <1>7, AloneHolds
    <2>2. OneDeploymentPerManifest' /\ (NoManifest' => NoManifest) /\ Pointed' = Pointed
      BY <2>1, <1>4 DEF Alone, OneDeploymentPerManifest, NoManifest, Pointed
    <2>3. \A o \in Clients \ {c} : ~Busy(o)'
      BY <2>1, <1>2 DEF Alone, Busy
    <2>4. Busy(c)' <=> q.pc # "idle"
      BY <1>2 DEF Busy
    <2>5. Busy(c)' => AloneOK(reqs[c])'
      BY <2>1, <2>4, <1>2, <1>4 DEF AloneOK, Matching
    <2>6. ASSUME NoManifest' PROVE IF Busy(c)' THEN StatusOK(reqs[c])' ELSE Actives' = Pointed'
      <3>1. CASE q.pc = "idle"
        BY <3>1, <2>1, <2>2, <2>4, <2>6, <1>4
      <3>2. CASE q.pc # "idle"
        <4>1. StatusOK(q)
          BY <3>2, <2>1, <2>2, <2>6
        <4> QED
          BY <4>1, <3>2, <2>2, <2>4, <1>2, <1>4 DEF StatusOK
      <3> QED
        BY <3>1, <3>2
    <2> QED
      BY <2>2, <2>3, <2>5, <2>6 DEF Alone
  <1> QED
    BY <1>2, <1>3, <1>4, <1>5, <1>6, <1>7, StepOf

\* What the proofs below know of c's request before its step.
LEMMA Before ==
    ASSUME AppsInv, NEW c \in Clients
    PROVE  /\ reqs \in [Clients -> Request] /\ reqs[c] \in Request
           /\ app \in App /\ app.active \in Known \cup {0} /\ RequestOK(reqs[c])
           /\ ~overlapped /\ Busy(c) => Alone(c)
  BY AloneHolds DEF AppsInv, TypeOK, RegistriesInv

LEMMA IdleOK == Idle \in Request /\ Idle.pc = "idle" /\ RequestOK(Idle)
  BY DEF Idle, Request, RequestOK, Deploys, Last

-----------------------------------------------------------------------------
(* One lemma per action.                                                   *)

LEMMA DeployReadsStep ==
    ASSUME AppsInv, NEW c \in Clients, DeployReads(c) PROVE AppsInv'
  <1>1. /\ reqs[c] \in Request /\ app.active \in Known \cup {0} /\ Busy(c)
        /\ RequestOK(reqs[c]) /\ (~overlapped => Alone(c))
        /\ UNCHANGED <<app, deps, secret, outdated, requests, overlapped>>
    BY Before DEF DeployReads, At, Busy
  <1>2. reqs[c].op = "deploy" /\ reqs[c].pc = "read"
    BY DEF DeployReads, At
  <1>3. app.active \in Deployments \cup {0}
    BY <1>1 DEF Known
  <1>4. ~overlapped /\ NoManifest => Actives = Pointed
    BY <1>1, <1>2 DEF Alone, StatusOK
  <1>5. CASE ~app.exists /\ Becomes(c, [reqs[c] EXCEPT !.op = "create", !.pc = "register"])
    <2>1. PICK q \in Request : q = [reqs[c] EXCEPT !.op = "create", !.pc = "register"]
      BY <1>1 DEF Request
    <2>2. /\ q.op = "create" /\ q.pc = "register" /\ q.old = reqs[c].old /\ q.dep = reqs[c].dep
      BY <2>1, <1>1 DEF Request
    <2>3. RequestOK(q) /\ AloneOK(q)
      BY <2>2, <1>1, <1>5 DEF RequestOK, AloneOK, Last
    <2>4. ~overlapped /\ NoManifest => StatusOK(q)
      BY <2>2, <1>4 DEF StatusOK
    <2>5. Becomes(c, q)
      BY <2>1, <1>5
    <2> QED
      BY <2>2, <2>3, <2>4, <2>5, <1>1, ReadOf
  <1>6. CASE Becomes(c, Idle)
    BY <1>1, <1>4, <1>6, IdleOK, ReadOf
  <1>7. CASE app.exists /\ Becomes(c, [reqs[c] EXCEPT !.pc = "create", !.old = app.active])
    <2>1. PICK q \in Request : q = [reqs[c] EXCEPT !.pc = "create", !.old = app.active]
      BY <1>1, <1>3 DEF Request
    <2>2. /\ q.op = "deploy" /\ q.pc = "create" /\ q.old = app.active
      BY <2>1, <1>1, <1>2 DEF Request
    <2>3. RequestOK(q) /\ AloneOK(q)
      BY <2>2, <1>1, <1>7 DEF RequestOK, AloneOK, Last
    <2>4. ~overlapped /\ NoManifest => StatusOK(q)
      BY <2>2, <1>4 DEF StatusOK
    <2>5. Becomes(c, q)
      BY <2>1, <1>7
    <2> QED
      BY <2>2, <2>3, <2>4, <2>5, <1>1, ReadOf
  <1> QED
    BY <1>5, <1>6, <1>7 DEF DeployReads

LEMMA UpdateReadsStep ==
    ASSUME AppsInv, NEW c \in Clients, UpdateReads(c) PROVE AppsInv'
  <1>1. /\ reqs[c] \in Request /\ app.active \in Known \cup {0} /\ Busy(c)
        /\ RequestOK(reqs[c]) /\ (~overlapped => Alone(c))
        /\ UNCHANGED <<app, deps, secret, outdated, requests, overlapped>>
    BY Before DEF UpdateReads, At, Busy
  <1>2. reqs[c].op = "update" /\ reqs[c].pc = "read"
    BY DEF UpdateReads, At
  <1>3. app.active \in Deployments \cup {0}
    BY <1>1 DEF Known
  <1>4. ~overlapped /\ NoManifest => Actives = Pointed
    BY <1>1, <1>2 DEF Alone, StatusOK
  <1>5. CASE Becomes(c, Idle)
    BY <1>1, <1>4, <1>5, IdleOK, ReadOf
  <1>6. CASE app.exists /\ Becomes(c, [reqs[c] EXCEPT !.pc = "create", !.old = app.active])
    <2>1. PICK q \in Request : q = [reqs[c] EXCEPT !.pc = "create", !.old = app.active]
      BY <1>1, <1>3 DEF Request
    <2>2. /\ q.op = "update" /\ q.pc = "create" /\ q.old = app.active
      BY <2>1, <1>1, <1>2 DEF Request
    <2>3. RequestOK(q) /\ AloneOK(q)
      BY <2>2, <1>1, <1>6 DEF RequestOK, AloneOK, Last
    <2>4. ~overlapped /\ NoManifest => StatusOK(q)
      BY <2>2, <1>4 DEF StatusOK
    <2>5. Becomes(c, q)
      BY <2>1, <1>6
    <2> QED
      BY <2>2, <2>3, <2>4, <2>5, <1>1, ReadOf
  <1> QED
    BY <1>5, <1>6 DEF UpdateReads

LEMMA RollbackReadsStep ==
    ASSUME AppsInv, NEW c \in Clients, RollbackReads(c) PROVE AppsInv'
  <1>1. /\ reqs[c] \in Request /\ app.active \in Known \cup {0} /\ Busy(c)
        /\ RequestOK(reqs[c]) /\ (~overlapped => Alone(c))
        /\ UNCHANGED <<app, deps, secret, outdated, requests, overlapped>>
    BY Before DEF RollbackReads, At, Busy
  <1>2. reqs[c].op = "rollback" /\ reqs[c].pc = "read"
    BY DEF RollbackReads, At
  <1>3. app.active \in Deployments \cup {0}
    BY <1>1 DEF Known
  <1>4. ~overlapped /\ NoManifest => Actives = Pointed
    BY <1>1, <1>2 DEF Alone, StatusOK
  <1>5. PICK q \in Request : q = [reqs[c] EXCEPT !.pc = "switch", !.old = app.active]
    BY <1>1, <1>3 DEF Request
  <1>6. /\ q.op = "rollback" /\ q.pc = "switch" /\ q.old = app.active /\ q.dep = reqs[c].dep
    BY <1>5, <1>1, <1>2 DEF Request
  <1>7. q.dep \in Known /\ app.exists
    BY <1>1, <1>2, <1>6 DEF RequestOK, AppsInv, RegistriesInv
  <1>8. RequestOK(q) /\ AloneOK(q)
    BY <1>1, <1>6, <1>7 DEF RequestOK, AloneOK, Last, Deploys
  <1>9. ~overlapped /\ NoManifest => StatusOK(q)
    BY <1>4, <1>6 DEF StatusOK, Deploys
  <1>10. Becomes(c, q)
    BY <1>5 DEF RollbackReads
  <1> QED
    BY <1>1, <1>6, <1>8, <1>9, <1>10, ReadOf

LEMMA ApplyReadsStep ==
    ASSUME AppsInv, NEW c \in Clients, ApplyReads(c) PROVE AppsInv'
  <1>1. /\ reqs[c] \in Request /\ Busy(c)
        /\ RequestOK(reqs[c]) /\ (~overlapped => Alone(c))
        /\ UNCHANGED <<app, deps, secret, outdated, requests, overlapped>>
    BY Before DEF ApplyReads, At, Busy
  <1>2. reqs[c].op = "apply" /\ reqs[c].pc = "read"
    BY DEF ApplyReads, At
  <1>3. ~overlapped /\ NoManifest => Actives = Pointed
    BY <1>1, <1>2 DEF Alone, StatusOK
  <1>4. PICK q \in Request :
            q = [reqs[c] EXCEPT !.pc = IF app.exists THEN "prepare" ELSE "register"]
    BY <1>1 DEF Request
  <1>5. /\ q.op = "apply" /\ q.old = reqs[c].old
        /\ q.pc = IF app.exists THEN "prepare" ELSE "register"
    BY <1>4, <1>1, <1>2 DEF Request
  <1>6. RequestOK(q) /\ AloneOK(q)
    BY <1>1, <1>5 DEF RequestOK, AloneOK, Last, Deploys
  <1>7. ~overlapped /\ NoManifest => StatusOK(q)
    BY <1>3, <1>5 DEF StatusOK
  <1>8. Becomes(c, q) /\ q.pc # "idle"
    BY <1>4, <1>5 DEF ApplyReads, GoesTo
  <1> QED
    BY <1>1, <1>6, <1>7, <1>8, ReadOf

LEMMA ApplyPreparesStep ==
    ASSUME AppsInv, NEW c \in Clients, ApplyPrepares(c) PROVE AppsInv'
  <1>1. /\ reqs[c] \in Request /\ Busy(c)
        /\ RequestOK(reqs[c]) /\ (~overlapped => Alone(c))
        /\ UNCHANGED <<app, deps, secret, outdated, requests, overlapped>>
    BY Before DEF ApplyPrepares, At, Busy
  <1>2. reqs[c].op = "apply" /\ reqs[c].pc = "prepare"
    BY DEF ApplyPrepares, At
  <1>3. ~overlapped /\ NoManifest => Actives = Pointed
    BY <1>1, <1>2 DEF Alone, StatusOK
  <1>4. CASE Becomes(c, Idle)
    BY <1>1, <1>3, <1>4, IdleOK, ReadOf
  <1>5. CASE GoesTo(c, "list")
    <2>1. PICK q \in Request : q = [reqs[c] EXCEPT !.pc = "list"]
      BY <1>1 DEF Request
    <2>2. q.op = "apply" /\ q.old = reqs[c].old /\ q.pc = "list"
      BY <2>1, <1>1, <1>2 DEF Request
    <2>3. RequestOK(q) /\ AloneOK(q)
      BY <2>2, <1>1, <1>2 DEF RequestOK, AloneOK, Last, Deploys
    <2>4. ~overlapped /\ NoManifest => StatusOK(q)
      BY <2>2, <1>3 DEF StatusOK
    <2>5. Becomes(c, q)
      BY <2>1, <1>5 DEF GoesTo
    <2> QED
      BY <2>2, <2>3, <2>4, <2>5, <1>1, ReadOf
  <1> QED
    BY <1>4, <1>5 DEF ApplyPrepares

\* A manifest whose hash is found is not created again; one that is created has
\* no match.
LEMMA ApplyListsStep ==
    ASSUME AppsInv, NEW c \in Clients, ApplyLists(c) PROVE AppsInv'
  <1>1. /\ reqs[c] \in Request /\ Busy(c)
        /\ RequestOK(reqs[c]) /\ (~overlapped => Alone(c))
        /\ UNCHANGED <<app, deps, secret, outdated, requests, overlapped>>
    BY Before DEF ApplyLists, At, Busy
  <1>2. reqs[c].op = "apply" /\ reqs[c].pc = "list"
    BY DEF ApplyLists, At
  <1>3. ~overlapped /\ NoManifest => Actives = Pointed
    BY <1>1, <1>2 DEF Alone, StatusOK
  <1>4. CASE Matching(reqs[c].spec) = {} /\ GoesTo(c, "create")
    <2>1. PICK q \in Request : q = [reqs[c] EXCEPT !.pc = "create"]
      BY <1>1 DEF Request
    <2>2. q.op = "apply" /\ q.old = reqs[c].old /\ q.pc = "create" /\ q.spec = reqs[c].spec
      BY <2>1, <1>1, <1>2 DEF Request
    <2>3. RequestOK(q) /\ AloneOK(q)
      BY <2>2, <1>1, <1>2, <1>4 DEF RequestOK, AloneOK, Last, Deploys
    <2>4. ~overlapped /\ NoManifest => StatusOK(q)
      BY <2>2, <1>3 DEF StatusOK
    <2>5. Becomes(c, q)
      BY <2>1, <1>4 DEF GoesTo
    <2> QED
      BY <2>2, <2>3, <2>4, <2>5, <1>1, ReadOf
  <1>5. ASSUME NEW d \in Matching(reqs[c].spec),
               Becomes(c, [reqs[c] EXCEPT !.pc = "switch", !.dep = d])
        PROVE  AppsInv'
    <2>1. d \in Known /\ d \in Deployments /\ deps[d].by = "apply"
      BY <1>5 DEF Matching, Known
    <2>2. PICK q \in Request : q = [reqs[c] EXCEPT !.pc = "switch", !.dep = d]
      BY <1>1, <2>1 DEF Request
    <2>3. q.op = "apply" /\ q.old = reqs[c].old /\ q.pc = "switch" /\ q.dep = d
      BY <2>2, <1>1, <1>2 DEF Request
    <2>4. RequestOK(q) /\ AloneOK(q)
      BY <2>1, <2>3, <1>1, <1>2 DEF RequestOK, AloneOK, Last, Deploys
    <2>5. ~NoManifest
      BY <2>1 DEF NoManifest
    <2>6. Becomes(c, q)
      BY <2>2, <1>5
    <2> QED
      BY <2>3, <2>4, <2>5, <2>6, <1>1, ReadOf
  <1> QED
    BY <1>4, <1>5 DEF ApplyLists

\* A call that writes to one of the two registries: c's request becomes q.
LEMMA CallOf ==
    ASSUME AppsInv, NEW c \in Clients, Busy(c), NEW q \in Request, Becomes(c, q),
           UNCHANGED <<secret, outdated, requests, overlapped>>,
           app' \in App, app.exists => app'.exists, app'.active \in Known' \cup {0},
           deps' \in [Deployments -> Deployment], DepsKeep, Known' # {} => app'.exists,
           RequestOK(q)',
           ~overlapped => /\ OneDeploymentPerManifest'
                          /\ q.pc # "idle" => AloneOK(q)'
                          /\ NoManifest' => IF q.pc # "idle" THEN StatusOK(q)'
                                            ELSE Actives' = Pointed'
    PROVE  AppsInv'
  <1>1. reqs \in [Clients -> Request]
    BY DEF AppsInv, TypeOK
  <1>2. /\ reqs' \in [Clients -> Request] /\ reqs'[c] = q
        /\ \A o \in Clients \ {c} : reqs'[o] = reqs[o]
    BY <1>1 DEF Becomes
  <1>3. TypeOK'
    BY <1>2 DEF AppsInv, TypeOK
  <1>4. outdated' \subseteq Known'
    BY DEF AppsInv, RegistriesInv, DepsKeep
  <1>5. RequestOK(reqs[c])'
    BY <1>2 DEF RequestOK
  <1>6. ASSUME ~overlapped' PROVE Alone(c)'
    <2>1. ~overlapped /\ Alone(c)
      BY <1>6, AloneHolds
    <2>2. \A o \in Clients \ {c} : ~Busy(o)'
      BY <2>1, <1>2 DEF Alone, Busy
    <2>3. Busy(c)' <=> q.pc # "idle"
      BY <1>2 DEF Busy
    <2>4. Busy(c)' => AloneOK(reqs[c])'
      BY <2>1, <2>3, <1>2 DEF AloneOK
    <2>5. ASSUME NoManifest' PROVE IF Busy(c)' THEN StatusOK(reqs[c])' ELSE Actives' = Pointed'
      <3>1. CASE q.pc = "idle"
        BY <3>1, <2>1, <2>3, <2>5
      <3>2. CASE q.pc # "idle"
        <4>1. StatusOK(q)'
          BY <3>2, <2>1, <2>5
        <4> QED
          BY <4>1, <3>2, <2>3, <1>2 DEF StatusOK
      <3> QED
        BY <3>1, <3>2
    <2> QED
      BY <2>1, <2>2, <2>4, <2>5 DEF Alone
  <1> QED
    BY <1>2, <1>3, <1>4, <1>5, <1>6, StepOf

\* Registering: there was no application, hence no deployment and nothing ACTIVE.
LEMMA RegistersStep ==
    ASSUME AppsInv, NEW c \in Clients, Registers(c) PROVE AppsInv'
  <1>1. /\ reqs[c] \in Request /\ app \in App /\ app.active \in Known \cup {0} /\ Busy(c)
        /\ RequestOK(reqs[c]) /\ (~overlapped => Alone(c))
        /\ UNCHANGED <<deps, secret, outdated, requests, overlapped>>
        /\ deps \in [Deployments -> Deployment]
    BY Before DEF Registers, Busy, AppsInv, TypeOK
  <1>2. reqs[c].pc = "register"
    BY DEF Registers
  <1>3. ~overlapped /\ NoManifest => Actives = Pointed
    BY <1>1, <1>2 DEF Alone, StatusOK
  <1>4. CASE app.exists /\ Becomes(c, Idle) /\ UNCHANGED app
    BY <1>1, <1>3, <1>4, IdleOK, ReadOf
  <1>5. DepsKeep /\ Known' = Known /\ Actives' = Actives
    BY <1>1, DepsUnchanged
  <1>6. OneDeploymentPerManifest => OneDeploymentPerManifest'
    BY <1>1, <1>5 DEF OneDeploymentPerManifest
  <1>7. NoManifest' => NoManifest
    BY <1>1, <1>5 DEF NoManifest
  <1>8. ASSUME ~app.exists PROVE Known = {} /\ app.active = 0
    BY <1>1, <1>8 DEF AppsInv, RegistriesInv
  <1>9. CASE /\ ~app.exists /\ reqs[c].op = "create" /\ GoesTo(c, "create")
             /\ app' = [app EXCEPT !.exists = TRUE, !.spec = reqs[c].spec,
                                   !.replicas = reqs[c].replicas]
    <2>1. app' \in App /\ app'.exists /\ app'.active = 0
      BY <1>1, <1>8, <1>9 DEF App, Request
    <2>2. PICK q \in Request : q = [reqs[c] EXCEPT !.pc = "create"]
      BY <1>1 DEF Request
    <2>3. q.op = "create" /\ q.old = reqs[c].old /\ q.pc = "create"
      BY <2>2, <1>1, <1>9 DEF Request
    <2>4. RequestOK(q)' /\ AloneOK(q)'
      BY <2>1, <2>3, <1>1, <1>5 DEF RequestOK, AloneOK, Last, Deploys
    <2>5. ~overlapped /\ NoManifest' => StatusOK(q)'
      BY <2>1, <2>3, <1>3, <1>5, <1>7, <1>8, <1>9 DEF StatusOK, Pointed
    <2>6. Becomes(c, q)
      BY <2>2, <1>9 DEF GoesTo
    <2>7. ~overlapped => OneDeploymentPerManifest'
      BY <1>1, <1>6 DEF Alone
    <2> QED
      BY <2>1, <2>3, <2>4, <2>5, <2>6, <2>7, <1>1, <1>5, CallOf
  <1>10. CASE /\ ~app.exists /\ reqs[c].op = "apply" /\ GoesTo(c, "prepare")
              /\ app' = [app EXCEPT !.exists = TRUE]
    <2>1. app' \in App /\ app'.exists /\ app'.active = 0
      BY <1>1, <1>8, <1>10 DEF App
    <2>2. PICK q \in Request : q = [reqs[c] EXCEPT !.pc = "prepare"]
      BY <1>1 DEF Request
    <2>3. q.op = "apply" /\ q.old = reqs[c].old /\ q.pc = "prepare"
      BY <2>2, <1>1, <1>10 DEF Request
    <2>4. RequestOK(q)' /\ AloneOK(q)'
      BY <2>1, <2>3, <1>1, <1>5 DEF RequestOK, AloneOK, Last, Deploys
    <2>5. ~overlapped /\ NoManifest' => StatusOK(q)'
      BY <2>1, <2>3, <1>3, <1>5, <1>7, <1>8, <1>10 DEF StatusOK, Pointed
    <2>6. Becomes(c, q)
      BY <2>2, <1>10 DEF GoesTo
    <2>7. ~overlapped => OneDeploymentPerManifest'
      BY <1>1, <1>6 DEF Alone
    <2> QED
      BY <2>1, <2>3, <2>4, <2>5, <2>6, <2>7, <1>1, <1>5, CallOf
  <1> QED
    BY <1>4, <1>9, <1>10 DEF Registers

\* The new deployment is ACTIVE beside the one the pointer still names.
LEMMA CreatesStep ==
    ASSUME AppsInv, NEW c \in Clients, Creates(c) PROVE AppsInv'
  <1>1. /\ reqs[c] \in Request /\ app \in App /\ app.active \in Known \cup {0} /\ Busy(c)
        /\ RequestOK(reqs[c]) /\ (~overlapped => Alone(c)) /\ TypeOK
        /\ UNCHANGED <<app, secret, outdated, requests, overlapped>>
    BY Before DEF Creates, Busy, AppsInv
  <1>2. reqs[c].op \in Deploys /\ reqs[c].pc = "create"
    BY DEF Creates, Deploys
  <1>3. PICK d \in Deployments :
          /\ d \notin Known
          /\ deps' = [deps EXCEPT ![d] = [status |-> "ACTIVE", by |-> "deploy",
                                          spec |-> reqs[c].spec, replicas |-> reqs[c].replicas]]
          /\ Becomes(c, [reqs[c] EXCEPT !.pc = "switch", !.dep = d])
    BY DEF Creates, NextDeployment
  <1>4. PICK r \in Deployment : r = [status |-> "ACTIVE", by |-> "deploy",
                                     spec |-> reqs[c].spec, replicas |-> reqs[c].replicas]
    BY <1>1 DEF Deployment, Request
  <1>5. r.status = "ACTIVE" /\ r.by = "deploy" /\ r.spec = reqs[c].spec
        /\ r.replicas = reqs[c].replicas
    BY <1>4
  <1>6. /\ DepsKeep /\ Known' = Known \cup {d} /\ Actives' = Actives \cup {d}
        /\ deps'[d] = r /\ deps' \in [Deployments -> Deployment]
    BY <1>1, <1>3, <1>4, <1>5, DepsCreate
  <1>7. PICK q \in Request : q = [reqs[c] EXCEPT !.pc = "switch", !.dep = d]
    BY <1>1 DEF Request
  <1>8. /\ q.op = reqs[c].op /\ q.pc = "switch" /\ q.dep = d /\ q.old = reqs[c].old
        /\ q.spec = reqs[c].spec /\ q.replicas = reqs[c].replicas
    BY <1>7, <1>1 DEF Request
  <1>9. Becomes(c, q)
    BY <1>3, <1>7
  <1>10. app.exists
    BY <1>1, <1>2 DEF RequestOK
  <1>11. RequestOK(q)'
    BY <1>1, <1>2, <1>5, <1>6, <1>8, <1>10 DEF RequestOK, Last, Deploys
  <1>12. AloneOK(q)'
    BY <1>1, <1>2, <1>3, <1>8 DEF AloneOK, Deploys, AppsInv, RegistriesInv
  <1>13. ASSUME ~overlapped PROVE OneDeploymentPerManifest'
    <2>1. OneDeploymentPerManifest
      BY <1>1, <1>13 DEF Alone
    <2> QED
      BY <2>1, <1>5, <1>6 DEF OneDeploymentPerManifest, DepsKeep
  <1>14. ASSUME ~overlapped, NoManifest' PROVE StatusOK(q)'
    <2>1. NoManifest
      BY <1>14, <1>6 DEF NoManifest, DepsKeep
    <2>2. StatusOK(reqs[c])
      BY <2>1, <1>1, <1>14 DEF Alone
    <2>3. Actives = Pointed /\ (q.op \in {"deploy", "update"} => q.old = app.active)
          /\ (q.op = "create" => app.active = 0)
      BY <2>2, <1>2, <1>8 DEF StatusOK
    <2> QED
      BY <2>3, <1>1, <1>2, <1>6, <1>8 DEF StatusOK, Deploys, Pointed
  <1> QED
    BY <1>1, <1>6, <1>8, <1>9, <1>10, <1>11, <1>12, <1>13, <1>14, CallOf

\* A manifest's deployment is created when no other has its hash.
LEMMA ApplyCreatesStep ==
    ASSUME AppsInv, NEW c \in Clients, ApplyCreates(c) PROVE AppsInv'
  <1>1. /\ reqs[c] \in Request /\ app \in App /\ app.active \in Known \cup {0} /\ Busy(c)
        /\ RequestOK(reqs[c]) /\ (~overlapped => Alone(c)) /\ TypeOK
        /\ UNCHANGED <<app, secret, outdated, requests, overlapped>>
    BY Before DEF ApplyCreates, At, Busy, AppsInv
  <1>2. reqs[c].op = "apply" /\ reqs[c].pc = "create"
    BY DEF ApplyCreates, At
  <1>3. PICK d \in Deployments :
          /\ d \notin Known
          /\ deps' = [deps EXCEPT ![d] = [status |-> "ACTIVE", by |-> "apply",
                                          spec |-> reqs[c].spec, replicas |-> 0]]
          /\ Becomes(c, [reqs[c] EXCEPT !.pc = "switch", !.dep = d])
    BY DEF ApplyCreates, NextDeployment
  <1>4. PICK r \in Deployment : r = [status |-> "ACTIVE", by |-> "apply",
                                     spec |-> reqs[c].spec, replicas |-> 0]
    BY <1>1 DEF Deployment, Request
  <1>5. r.status = "ACTIVE" /\ r.by = "apply" /\ r.spec = reqs[c].spec
    BY <1>4
  <1>6. /\ DepsKeep /\ Known' = Known \cup {d} /\ Actives' = Actives \cup {d}
        /\ deps'[d] = r /\ deps' \in [Deployments -> Deployment]
    BY <1>1, <1>3, <1>4, <1>5, DepsCreate
  <1>7. PICK q \in Request : q = [reqs[c] EXCEPT !.pc = "switch", !.dep = d]
    BY <1>1 DEF Request
  <1>8. q.op = "apply" /\ q.pc = "switch" /\ q.dep = d /\ q.old = reqs[c].old
    BY <1>7, <1>1, <1>2 DEF Request
  <1>9. Becomes(c, q)
    BY <1>3, <1>7
  <1>10. app.exists
    BY <1>1, <1>2 DEF RequestOK
  <1>11. RequestOK(q)' /\ AloneOK(q)'
    BY <1>1, <1>5, <1>6, <1>8, <1>10 DEF RequestOK, AloneOK, Last, Deploys
  <1>12. ASSUME ~overlapped PROVE OneDeploymentPerManifest'
    <2>1. OneDeploymentPerManifest /\ Matching(reqs[c].spec) = {}
      BY <1>1, <1>2, <1>12 DEF Alone, AloneOK
    <2>2. \A e \in Known : ~(deps[e].by = "apply" /\ deps[e].spec = reqs[c].spec)
      BY <2>1 DEF Matching
    <2> QED
      BY <2>1, <2>2, <1>5, <1>6 DEF OneDeploymentPerManifest, DepsKeep
  <1>13. ~NoManifest'
    BY <1>5, <1>6 DEF NoManifest
  <1> QED
    BY <1>1, <1>6, <1>8, <1>9, <1>10, <1>11, <1>12, <1>13, CallOf

\* The pointer moves to the new deployment; the old one is still ACTIVE.
LEMMA SwitchesStep ==
    ASSUME AppsInv, NEW c \in Clients, Switches(c) PROVE AppsInv'
  <1>1. /\ reqs[c] \in Request /\ app \in App /\ app.active \in Known \cup {0} /\ Busy(c)
        /\ RequestOK(reqs[c]) /\ (~overlapped => Alone(c))
        /\ UNCHANGED <<deps, secret, outdated, requests, overlapped>>
        /\ deps \in [Deployments -> Deployment]
    BY Before DEF Switches, Busy, AppsInv, TypeOK
  <1>2. reqs[c].op \in Deploys /\ reqs[c].pc = "switch"
    BY DEF Switches, Deploys
  <1>3. reqs[c].dep \in Known /\ reqs[c].dep \in Deployments /\ app.exists
    BY <1>1, <1>2 DEF RequestOK, Last, Known
  <1>4. app' \in App /\ app'.exists /\ app'.active = reqs[c].dep
    BY <1>1, <1>3 DEF Switches, App, Request
  <1>5. DepsKeep /\ Known' = Known /\ Actives' = Actives
    BY <1>1, DepsUnchanged
  <1>6. ~overlapped => OneDeploymentPerManifest'
    BY <1>1, <1>5 DEF OneDeploymentPerManifest, Alone
  <1>7. ASSUME ~overlapped, NoManifest'
        PROVE  Actives = Pointed \cup {reqs[c].dep}
               /\ (reqs[c].op # "create" => reqs[c].old = app.active)
               /\ (reqs[c].op = "create" => app.active = 0)
    <2>1. NoManifest
      BY <1>1, <1>5, <1>7 DEF NoManifest
    <2> QED
      BY <2>1, <1>1, <1>2, <1>7 DEF Alone, StatusOK, Deploys
  <1>8. reqs[c].dep # 0
    BY <1>3, AppsAssumption
  <1>9. CASE reqs[c].op = "create"
    <2>1. Becomes(c, Idle)
      BY <1>9 DEF Switches
    <2>2. RequestOK(Idle)'
      BY DEF Idle, RequestOK, Deploys, Last
    <2>3. ~overlapped /\ NoManifest' => Actives' = Pointed'
      BY <1>4, <1>5, <1>7, <1>8, <1>9 DEF Pointed
    <2> QED
      BY <2>1, <2>2, <2>3, <1>1, <1>3, <1>4, <1>5, <1>6, IdleOK, CallOf
  <1>10. CASE reqs[c].op # "create"
    <2>1. PICK q \in Request : q = [reqs[c] EXCEPT !.pc = "supersede"]
      BY <1>1 DEF Request
    <2>2. /\ q.op = reqs[c].op /\ q.old = reqs[c].old /\ q.pc = "supersede"
          /\ q.dep = reqs[c].dep /\ q.spec = reqs[c].spec /\ q.replicas = reqs[c].replicas
      BY <2>1, <1>1 DEF Request
    <2>3. Becomes(c, q)
      BY <2>1, <1>10 DEF Switches, GoesTo
    <2>4. RequestOK(q)'
      BY <2>2, <1>1, <1>2, <1>3, <1>4, <1>5 DEF RequestOK, Last, Deploys
    <2>5. ~overlapped => AloneOK(q)'
      BY <2>2, <1>1, <1>2, <1>4 DEF Alone, AloneOK, Last, Deploys
    <2>6. ~overlapped /\ NoManifest' => StatusOK(q)'
      BY <2>2, <1>4, <1>5, <1>7, <1>10 DEF StatusOK, Pointed
    <2> QED
      BY <2>2, <2>3, <2>4, <2>5, <2>6, <1>1, <1>3, <1>4, <1>5, <1>6, CallOf
  <1> QED
    BY <1>9, <1>10

LEMMA RollbackSwitchesStep ==
    ASSUME AppsInv, NEW c \in Clients, RollbackSwitches(c) PROVE AppsInv'
  <1>1. /\ reqs[c] \in Request /\ app \in App /\ app.active \in Known \cup {0} /\ Busy(c)
        /\ RequestOK(reqs[c]) /\ (~overlapped => Alone(c))
        /\ UNCHANGED <<deps, secret, outdated, requests, overlapped>>
        /\ deps \in [Deployments -> Deployment]
    BY Before DEF RollbackSwitches, At, Busy, AppsInv, TypeOK
  <1>2. reqs[c].op = "rollback" /\ reqs[c].pc = "switch"
    BY DEF RollbackSwitches, At
  <1>3. reqs[c].dep \in Known /\ reqs[c].dep \in Deployments /\ app.exists
    BY <1>1, <1>2 DEF RequestOK, Last, Known
  <1>4. app' \in App /\ app'.exists /\ app'.active = reqs[c].dep
    BY <1>1, <1>3 DEF RollbackSwitches, App
  <1>5. DepsKeep /\ Known' = Known /\ Actives' = Actives
    BY <1>1, DepsUnchanged
  <1>6. ~overlapped => OneDeploymentPerManifest'
    BY <1>1, <1>5 DEF OneDeploymentPerManifest, Alone
  <1>7. ASSUME ~overlapped, NoManifest'
        PROVE  Actives = Pointed /\ reqs[c].old = app.active
    <2>1. NoManifest
      BY <1>1, <1>5, <1>7 DEF NoManifest
    <2> QED
      BY <2>1, <1>1, <1>2, <1>7 DEF Alone, StatusOK
  <1>8. PICK q \in Request : q = [reqs[c] EXCEPT !.pc = "supersede"]
    BY <1>1 DEF Request
  <1>9. q.op = "rollback" /\ q.old = reqs[c].old /\ q.pc = "supersede" /\ q.dep = reqs[c].dep
    BY <1>8, <1>1, <1>2 DEF Request
  <1>10. Becomes(c, q)
    BY <1>8 DEF RollbackSwitches, GoesTo
  <1>11. RequestOK(q)' /\ AloneOK(q)'
    BY <1>1, <1>3, <1>4, <1>5, <1>9 DEF RequestOK, AloneOK, Last, Deploys
  <1>12. ~overlapped /\ NoManifest' => StatusOK(q)'
    BY <1>4, <1>5, <1>7, <1>9 DEF StatusOK, Pointed
  <1> QED
    BY <1>1, <1>3, <1>4, <1>5, <1>6, <1>9, <1>10, <1>11, <1>12, CallOf

\* Manifests and their deployments are the same after a change of status.
LEMMA ManifestsKept ==
    ASSUME DepsKeep, Known' = Known
    PROVE  /\ OneDeploymentPerManifest => OneDeploymentPerManifest'
           /\ NoManifest' => NoManifest
  BY DEF DepsKeep, OneDeploymentPerManifest, NoManifest

\* The deployment that was active when the request read it loses its status.
LEMMA SupersedesStep ==
    ASSUME AppsInv, NEW c \in Clients, Supersedes(c) PROVE AppsInv'
  <1>1. /\ reqs[c] \in Request /\ app \in App /\ app.active \in Known \cup {0} /\ Busy(c)
        /\ RequestOK(reqs[c]) /\ (~overlapped => Alone(c)) /\ TypeOK
        /\ UNCHANGED <<app, secret, outdated, requests, overlapped>>
        /\ deps \in [Deployments -> Deployment]
    BY Before DEF Supersedes, Busy, AppsInv, TypeOK
  <1>2. reqs[c].pc = "supersede"
    BY DEF Supersedes
  <1>3. reqs[c].dep \in Known /\ app.exists /\ reqs[c].old \in Known \cup {0}
    BY <1>1, <1>2 DEF RequestOK, Last
  <1>4. /\ DepsKeep /\ Known' = Known /\ deps' \in [Deployments -> Deployment]
        /\ Actives' = IF reqs[c].old \in {0, reqs[c].dep} THEN Actives
                      ELSE Actives \ {reqs[c].old}
    <2>1. CASE reqs[c].old \in {0, reqs[c].dep}
      <3>1. UNCHANGED deps
        BY <2>1 DEF Supersedes
      <3> QED
        BY <3>1, <2>1, <1>1, DepsUnchanged
    <2>2. CASE reqs[c].old \notin {0, reqs[c].dep}
      <3>1. PICK d \in Known : d = reqs[c].old
        BY <2>2, <1>3
      <3>2. deps' = [deps EXCEPT ![d].status = "SUPERSEDED"]
        BY <3>1, <2>2 DEF Supersedes
      <3> QED
        BY <3>1, <3>2, <2>2, <1>1, DepsStatus
    <2> QED
      BY <2>1, <2>2
  <1>5. (~overlapped => OneDeploymentPerManifest') /\ (NoManifest' => NoManifest)
    BY <1>1, <1>4, ManifestsKept DEF Alone
  <1>6. PICK q \in Request : q = [reqs[c] EXCEPT !.pc = "activate"]
    BY <1>1 DEF Request
  <1>7. /\ q.op = reqs[c].op /\ q.old = reqs[c].old /\ q.pc = "activate"
        /\ q.dep = reqs[c].dep /\ q.spec = reqs[c].spec /\ q.replicas = reqs[c].replicas
    BY <1>6, <1>1 DEF Request
  <1>8. Becomes(c, q)
    BY <1>6 DEF Supersedes, GoesTo
  <1>9. RequestOK(q)'
    BY <1>1, <1>2, <1>3, <1>4, <1>7 DEF RequestOK, Last, Deploys, DepsKeep
  <1>10. ~overlapped => AloneOK(q)'
    BY <1>1, <1>2, <1>7 DEF Alone, AloneOK, Last
  <1>11. ~overlapped /\ NoManifest' => StatusOK(q)'
    <2>1. ~overlapped /\ NoManifest' =>
              app.active = reqs[c].dep /\ Actives \subseteq {reqs[c].old, reqs[c].dep}
      BY <1>1, <1>2, <1>5 DEF Alone, StatusOK
    <2>2. 0 \notin Actives
      BY AppsAssumption DEF Actives
    <2> QED
      BY <2>1, <2>2, <1>1, <1>4, <1>7 DEF StatusOK
  <1> QED
    BY <1>1, <1>3, <1>4, <1>5, <1>7, <1>8, <1>9, <1>10, <1>11, CallOf

\* The last call of a request leaves its deployment, and no other, ACTIVE.
LEMMA ActivatesStep ==
    ASSUME AppsInv, NEW c \in Clients, Activates(c) PROVE AppsInv'
  <1>1. /\ reqs[c] \in Request /\ app \in App /\ app.active \in Known \cup {0} /\ Busy(c)
        /\ RequestOK(reqs[c]) /\ (~overlapped => Alone(c)) /\ TypeOK
        /\ UNCHANGED <<app, secret, outdated, requests, overlapped>>
    BY Before DEF Activates, Busy, AppsInv
  <1>2. reqs[c].pc = "activate"
    BY DEF Activates
  <1>3. app.exists
    BY <1>1, <1>2 DEF RequestOK, Last
  <1>4. PICK d \in Known : d = reqs[c].dep
    BY <1>1, <1>2 DEF RequestOK, Last
  <1>5. deps' = [deps EXCEPT ![d].status = "ACTIVE"]
    BY <1>4 DEF Activates
  <1>6. /\ DepsKeep /\ Known' = Known /\ deps' \in [Deployments -> Deployment]
        /\ Actives' = Actives \cup {d}
    BY <1>1, <1>5, DepsStatus
  <1>7. (~overlapped => OneDeploymentPerManifest') /\ (NoManifest' => NoManifest)
    BY <1>1, <1>6, ManifestsKept DEF Alone
  <1>8. Becomes(c, Idle)
    BY DEF Activates
  <1>9. RequestOK(Idle)'
    BY DEF Idle, RequestOK, Deploys, Last
  <1>10. ~overlapped /\ NoManifest' => Actives' = Pointed'
    <2>1. ~overlapped /\ NoManifest' => app.active = d /\ Actives \subseteq {d}
      BY <1>1, <1>2, <1>4, <1>7 DEF Alone, StatusOK
    <2>2. d # 0
      BY AppsAssumption DEF Known
    <2> QED
      BY <2>1, <2>2, <1>1, <1>6 DEF Pointed
  <1> QED
    BY <1>1, <1>3, <1>6, <1>7, <1>8, <1>9, <1>10, IdleOK, CallOf

LEMMA ApplySwitchesStep ==
    ASSUME AppsInv, NEW c \in Clients, ApplySwitches(c) PROVE AppsInv'
  <1>1. /\ reqs[c] \in Request /\ app \in App /\ app.active \in Known \cup {0} /\ Busy(c)
        /\ RequestOK(reqs[c]) /\ (~overlapped => Alone(c))
        /\ UNCHANGED <<deps, secret, outdated, requests, overlapped>>
        /\ deps \in [Deployments -> Deployment]
    BY Before DEF ApplySwitches, At, Busy, AppsInv, TypeOK
  <1>2. reqs[c].op = "apply" /\ reqs[c].pc = "switch"
    BY DEF ApplySwitches, At
  <1>3. reqs[c].dep \in Known /\ reqs[c].dep \in Deployments /\ app.exists
    BY <1>1, <1>2 DEF RequestOK, Last, Known
  <1>4. app' \in App /\ app'.exists /\ app'.active \in Known \cup {0}
    <2>1. CASE reqs[c].spec \in ProbedSpecs
      BY <2>1, <1>1, <1>3 DEF ApplySwitches
    <2>2. CASE reqs[c].spec \notin ProbedSpecs
      BY <2>2, <1>1, <1>3 DEF ApplySwitches, App, Request
    <2> QED
      BY <2>1, <2>2
  <1>5. DepsKeep /\ Known' = Known /\ Actives' = Actives
    BY <1>1, DepsUnchanged
  <1>6. ~overlapped => OneDeploymentPerManifest'
    BY <1>1, <1>5, ManifestsKept DEF Alone
  <1>7. ~NoManifest'
    BY <1>1, <1>2, <1>3, <1>5 DEF NoManifest, RequestOK
  <1>8. Becomes(c, Idle)
    BY DEF ApplySwitches
  <1>9. RequestOK(Idle)'
    BY DEF Idle, RequestOK, Deploys, Last
  <1> QED
    BY <1>1, <1>3, <1>4, <1>5, <1>6, <1>7, <1>8, <1>9, IdleOK, CallOf

\* A request that arrives: when it overlaps none, every client was idle.
LEMMA SendStep ==
    ASSUME AppsInv, NEW c \in Clients, NEW r \in Request, Send(c, r), RequestOK(r),
           r.pc = "read"
    PROVE  AppsInv'
  <1>1. /\ reqs \in [Clients -> Request] /\ app \in App /\ TypeOK
        /\ UNCHANGED <<app, deps, secret, outdated>>
    BY DEF Send, AppsInv, TypeOK
  <1>2. /\ reqs' \in [Clients -> Request] /\ reqs'[c] = r
        /\ \A o \in Clients \ {c} : reqs'[o] = reqs[o]
    BY <1>1 DEF Send, Becomes
  <1>3. requests' \in 0..MaxRequests
    BY <1>1, AppsAssumption DEF Send, TypeOK
  <1>4. overlapped' \in BOOLEAN
    BY DEF Send
  <1>5. TypeOK'
    BY <1>1, <1>2, <1>3, <1>4 DEF TypeOK
  <1>6. DepsKeep /\ Known' = Known /\ Actives' = Actives
    BY <1>1, DepsUnchanged
  <1>7. /\ outdated' \subseteq Known' /\ app'.active \in Known' \cup {0}
        /\ Known' # {} => app'.exists
    BY <1>1, <1>6 DEF AppsInv, RegistriesInv
  <1>8. RequestOK(reqs[c])'
    BY <1>1, <1>2, <1>6 DEF RequestOK
  <1>9. ASSUME ~overlapped' PROVE Alone(c)'
    <2>1. ~overlapped /\ Quiescent
      BY <1>9 DEF Send, Quiescent
    <2>2. Alone(c) /\ ~Busy(c)
      BY <2>1, AloneHolds DEF Quiescent, Busy
    <2>3. \A o \in Clients \ {c} : ~Busy(o)'
      BY <2>1, <1>2 DEF Quiescent, Busy
    <2>4. OneDeploymentPerManifest' /\ (NoManifest' => NoManifest)
      BY <2>2, <1>6, ManifestsKept DEF Alone
    <2>5. Busy(c)' /\ AloneOK(reqs[c])'
      BY <1>2 DEF Busy, AloneOK, Last
    <2>6. NoManifest' => StatusOK(reqs[c])'
      BY <2>2, <2>4, <1>1, <1>2, <1>6 DEF Alone, StatusOK, Pointed
    <2> QED
      BY <2>3, <2>4, <2>5, <2>6 DEF Alone
  <1> QED
    BY <1>1, <1>2, <1>5, <1>6, <1>7, <1>8, <1>9, StepOf

LEMMA RequestStep ==
    ASSUME AppsInv, NEW c \in Clients, NEW s \in Specs, NEW n \in ReplicaCounts,
           RequestDeploy(c, s, n) \/ RequestUpdate(c, s, n) \/ RequestApply(c, s, n)
    PROVE  AppsInv'
  <1>1. CASE RequestDeploy(c, s, n)
    <2>1. PICK r \in Request : r = [Idle EXCEPT !.pc = "read", !.spec = s, !.replicas = n]
      BY DEF Idle, Request
    <2>2. r.op = "deploy" /\ r.pc = "read" /\ r.old = 0 /\ Send(c, r)
      BY <2>1, <1>1 DEF Idle, RequestDeploy
    <2> QED
      BY <2>2, SendStep DEF RequestOK, Last
  <1>2. CASE RequestUpdate(c, s, n)
    <2>1. PICK r \in Request :
              r = [Idle EXCEPT !.op = "update", !.pc = "read", !.spec = s, !.replicas = n]
      BY DEF Idle, Request
    <2>2. r.op = "update" /\ r.pc = "read" /\ r.old = 0 /\ Send(c, r)
      BY <2>1, <1>2 DEF Idle, RequestUpdate
    <2> QED
      BY <2>2, SendStep DEF RequestOK, Last
  <1>3. CASE RequestApply(c, s, n)
    <2>1. PICK r \in Request :
              r = [Idle EXCEPT !.op = "apply", !.pc = "read", !.spec = s, !.replicas = n]
      BY DEF Idle, Request
    <2>2. r.op = "apply" /\ r.pc = "read" /\ r.old = 0 /\ Send(c, r)
      BY <2>1, <1>3 DEF Idle, RequestApply
    <2> QED
      BY <2>2, SendStep DEF RequestOK, Last
  <1> QED
    BY <1>1, <1>2, <1>3

LEMMA RequestRollbackStep ==
    ASSUME AppsInv, NEW c \in Clients, NEW d \in Deployments, RequestRollback(c, d)
    PROVE  AppsInv'
  <1>1. PICK r \in Request : r = [Idle EXCEPT !.op = "rollback", !.pc = "read", !.dep = d]
    BY DEF Idle, Request
  <1>2. r.op = "rollback" /\ r.pc = "read" /\ r.old = 0 /\ r.dep = d
    BY <1>1 DEF Idle
  <1>3. RequestOK(r) /\ Send(c, r)
    BY <1>1, <1>2 DEF RequestOK, RequestRollback, Last, Deploys
  <1> QED
    BY <1>2, <1>3, SendStep

\* Secrets: deployments that exist become outdated, and no request is under way
\* unless requests overlap.
LEMMA SecretStep ==
    ASSUME AppsInv, SetSecret \/ DeleteSecret
    PROVE  AppsInv'
  <1>1. /\ UNCHANGED <<app, deps, reqs>> /\ TypeOK /\ RegistriesInv
        /\ outdated' \in {outdated, Known}
    BY DEF SetSecret, DeleteSecret, AppsInv
  <1>2. requests < MaxRequests /\ requests' = requests + 1
    BY DEF SetSecret, DeleteSecret
  <1>3. requests' \in 0..MaxRequests
    BY <1>1, <1>2, AppsAssumption DEF TypeOK
  <1>4. secret' \in BOOLEAN /\ overlapped' \in BOOLEAN
    BY DEF SetSecret, DeleteSecret
  <1>5. DepsKeep /\ Known' = Known /\ Actives' = Actives
    BY <1>1, DepsUnchanged
  <1>6. outdated' \subseteq Known' /\ Known \subseteq Deployments
    BY <1>1, <1>5 DEF RegistriesInv, Known
  <1>7. TypeOK'
    BY <1>1, <1>3, <1>4, <1>5, <1>6 DEF TypeOK
  <1>8. \A o \in Clients : RequestOK(reqs[o])'
    BY <1>1, <1>5 DEF RegistriesInv, RequestOK
  <1>9. RegistriesInv'
    BY <1>1, <1>5, <1>6, <1>8 DEF RegistriesInv
  <1>10. ASSUME ~overlapped' PROVE OneAtATime'
    <2>1. ~overlapped /\ Quiescent
      BY <1>10 DEF SetSecret, DeleteSecret, Quiescent
    <2>2. OneAtATime
      BY <2>1 DEF AppsInv
    <2>3. \A c \in Clients : ~Busy(c)'
      BY <2>1, <1>1 DEF Quiescent, Busy
    <2>4. OneDeploymentPerManifest' /\ (NoManifest' => NoManifest)
      BY <2>2, <1>5, ManifestsKept DEF OneAtATime
    <2>5. Pointed' = Pointed
      BY <1>1 DEF Pointed
    <2> QED
      BY <2>1, <2>2, <2>3, <2>4, <2>5, <1>5 DEF OneAtATime
  <1> QED
    BY <1>7, <1>9, <1>10 DEF AppsInv

\* A step in which nothing changes.
LEMMA StutterStep ==
    ASSUME AppsInv, UNCHANGED vars PROVE AppsInv'
  BY DEF vars, AppsInv, TypeOK, RegistriesInv, RequestOK, OneAtATime, AloneOK, StatusOK,
         Known, Matching, Actives, Pointed, NoManifest, Busy, Quiescent,
         OneDeploymentPerManifest

LEMMA AppsInvInit == Init => AppsInv
  <1> SUFFICES ASSUME Init PROVE AppsInv
    OBVIOUS
  <1>1. Known = {} /\ Actives = {} /\ Pointed = {}
    BY DEF Init, Known, Actives, Pointed, NoDeployment
  <1>2. NoDeployment \in Deployment /\ Idle \in Request
    BY IdleOK DEF NoDeployment, Deployment
  <1>3. app \in App
    BY DEF Init, App
  <1>4. TypeOK
    <2>1. deps \in [Deployments -> Deployment] /\ reqs \in [Clients -> Request]
      BY <1>2 DEF Init
    <2>2. requests \in 0..MaxRequests
      BY AppsAssumption DEF Init
    <2>3. secret \in BOOLEAN /\ overlapped \in BOOLEAN /\ outdated \subseteq Deployments
      BY DEF Init
    <2> QED
      BY <2>1, <2>2, <2>3, <1>3 DEF TypeOK
  <1>5. RegistriesInv
    BY <1>1, IdleOK DEF Init, RegistriesInv
  <1>6. OneAtATime
    BY <1>1, IdleOK DEF Init, OneAtATime, Busy, OneDeploymentPerManifest
  <1> QED
    BY <1>4, <1>5, <1>6 DEF AppsInv

LEMMA AppsInvStep == AppsInv /\ [Next]_vars => AppsInv'
  <1> SUFFICES ASSUME AppsInv, [Next]_vars PROVE AppsInv'
    OBVIOUS
  <1>1. CASE UNCHANGED vars
    BY <1>1, StutterStep
  <1>2. CASE SetSecret \/ DeleteSecret
    BY <1>2, SecretStep
  <1>3. ASSUME NEW c \in Clients, NEW s \in Specs, NEW n \in ReplicaCounts,
               RequestDeploy(c, s, n) \/ RequestUpdate(c, s, n) \/ RequestApply(c, s, n)
        PROVE  AppsInv'
    BY <1>3, RequestStep
  <1>4. ASSUME NEW c \in Clients, NEW d \in Deployments, RequestRollback(c, d) PROVE AppsInv'
    BY <1>4, RequestRollbackStep
  <1>5. ASSUME NEW c \in Clients,
               \/ DeployReads(c) \/ UpdateReads(c) \/ Registers(c) \/ Creates(c) \/ Switches(c)
               \/ RollbackReads(c) \/ RollbackSwitches(c) \/ Supersedes(c) \/ Activates(c)
        PROVE  AppsInv'
    BY <1>5, DeployReadsStep, UpdateReadsStep, RegistersStep, CreatesStep, SwitchesStep,
       RollbackReadsStep, RollbackSwitchesStep, SupersedesStep, ActivatesStep
  <1>6. ASSUME NEW c \in Clients,
               \/ ApplyReads(c) \/ ApplyPrepares(c) \/ ApplyLists(c) \/ ApplyCreates(c)
               \/ ApplySwitches(c)
        PROVE  AppsInv'
    BY <1>6, ApplyReadsStep, ApplyPreparesStep, ApplyListsStep, ApplyCreatesStep,
       ApplySwitchesStep
  <1> QED
    BY <1>1, <1>2, <1>3, <1>4, <1>5, <1>6 DEF Next

-----------------------------------------------------------------------------
(* Theorems.                                                               *)

\* The inductive invariant holds whatever clients do: the pointer, the copies of
\* it that requests hold and the outdated deployments name registered
\* deployments, and one request at a time leaves what the next one needs.
THEOREM Invariant == Spec => []AppsInv
  <1> QED
    BY AppsInvInit, AppsInvStep, PTL DEF Spec

\* One request at a time and no manifest: exactly the active deployment is
\* ACTIVE between requests (create, switch, supersede, activate).
THEOREM OneActiveHolds == Spec => []OneActiveDeployment
  <1>1. AppsInv => OneActiveDeployment
    <2> SUFFICES ASSUME AppsInv, ~overlapped, Quiescent, app.active # 0, NoManifest
                 PROVE  Actives = {app.active}
      BY DEF OneActiveDeployment, NoManifest, Actives
    <2>1. Actives = Pointed
      BY DEF AppsInv, OneAtATime
    <2> QED
      BY <2>1 DEF Pointed
  <1> QED
    BY <1>1, Invariant, PTL

\* One request at a time: a manifest has one deployment, however often it is
\* applied (Apply looks through all deployments for the hash).
THEOREM IdempotentHolds == Spec => []ApplyIdempotent
  <1>1. AppsInv => ApplyIdempotent
    BY DEF AppsInv, OneAtATime, ApplyIdempotent
  <1> QED
    BY <1>1, Invariant, PTL

\* Whatever requests overlap, what a registered deployment runs never changes:
\* every call keeps the snapshots, from the calls alone and the invariant's fact
\* that a request supersedes and activates registered deployments only.
LEMMA DepsKeepStep == AppsInv /\ [Next]_vars => DepsKeep
  <1> SUFFICES ASSUME AppsInv, [Next]_vars PROVE DepsKeep
    OBVIOUS
  <1>1. CASE UNCHANGED deps
    BY <1>1, DepsUnchanged
  <1>2. ASSUME NEW c \in Clients, Creates(c) \/ ApplyCreates(c) PROVE DepsKeep
    <2>1. reqs[c] \in Request /\ TypeOK
      BY Before DEF AppsInv
    <2>2. PICK d \in Deployments, b \in {"deploy", "apply"}, n \in ReplicaCounts \cup {0} :
            /\ d \notin Known
            /\ deps' = [deps EXCEPT ![d] = [status |-> "ACTIVE", by |-> b,
                                            spec |-> reqs[c].spec, replicas |-> n]]
      BY <2>1, <1>2 DEF Creates, ApplyCreates, NextDeployment, Request
    <2>3. PICK r \in Deployment : r = [status |-> "ACTIVE", by |-> b,
                                       spec |-> reqs[c].spec, replicas |-> n]
      BY <2>1 DEF Deployment, Request
    <2> QED
      BY <2>1, <2>2, <2>3, DepsCreate
  <1>3. ASSUME NEW c \in Clients, Supersedes(c) PROVE DepsKeep
    <2>1. CASE reqs[c].old \in {0, reqs[c].dep}
      BY <2>1, <1>3, DepsUnchanged DEF Supersedes
    <2>2. CASE reqs[c].old \notin {0, reqs[c].dep}
      <3>1. PICK d \in Known : d = reqs[c].old
        BY <2>2, Before DEF RequestOK
      <3>2. deps' = [deps EXCEPT ![d].status = "SUPERSEDED"]
        BY <3>1, <2>2, <1>3 DEF Supersedes
      <3> QED
        BY <3>2, DepsStatus DEF AppsInv
    <2> QED
      BY <2>1, <2>2
  <1>4. ASSUME NEW c \in Clients, Activates(c) PROVE DepsKeep
    <2>1. PICK d \in Known : d = reqs[c].dep
      BY <1>4, Before DEF RequestOK, Activates, Last
    <2>2. deps' = [deps EXCEPT ![d].status = "ACTIVE"]
      BY <2>1, <1>4 DEF Activates
    <2> QED
      BY <2>2, DepsStatus DEF AppsInv
  <1> QED
    BY <1>1, <1>2, <1>3, <1>4
    DEF Next, vars, SetSecret, DeleteSecret, RequestDeploy, RequestUpdate, RequestApply,
        RequestRollback, Send, DeployReads, UpdateReads, Registers, Switches, RollbackReads,
        RollbackSwitches, ApplyReads, ApplyPrepares, ApplyLists, ApplySwitches

THEOREM SnapshotsHold == Spec => SnapshotsImmutable
  <1>1. DepsKeep => \A d \in Known : /\ deps'[d].spec = deps[d].spec
                                     /\ deps'[d].replicas = deps[d].replicas
    BY DEF DepsKeep
  <1> QED
    BY <1>1, DepsKeepStep, Invariant, PTL DEF Spec, SnapshotsImmutable

\* By each of the three ways a deploy or update can return, the active deployment
\* has what was asked for, up to what specsMatch does not compare.
LEMMA DeployAnswers ==
    ASSUME AppsInv, [Next]_vars, NEW c \in Clients, reqs[c].op \in Deploys, app.exists,
           ~overlapped, Busy(c), ~Busy(c)'
    PROVE  /\ Compared[deps'[app'.active].spec] = Compared[reqs[c].spec]
           /\ deps'[app'.active].replicas = reqs[c].replicas
           /\ reqs[c].op = "update" => deps'[app'.active].spec = reqs[c].spec
           /\ ~(secret' /\ RefersToSecret(reqs[c].spec) /\ app'.active \in outdated')
  <1>1. reqs[c] \in Request /\ app \in App /\ RequestOK(reqs[c]) /\ Alone(c)
        /\ reqs \in [Clients -> Request]
    BY Before
  <1>2. AloneOK(reqs[c])
    BY <1>1 DEF Alone
  <1>3. \A q : Becomes(c, q) => q.pc = "idle"
    BY <1>1 DEF Becomes, Busy
  <1>4. CASE DeployReads(c)
    <2>1. specsMatch(app.active, reqs[c].spec, reqs[c].replicas)
      <3>1. /\ [reqs[c] EXCEPT !.op = "create", !.pc = "register"].pc = "register"
            /\ [reqs[c] EXCEPT !.pc = "create", !.old = app.active].pc = "create"
        BY <1>1 DEF Request
      <3> QED
        BY <3>1, <1>4, <1>3 DEF DeployReads
    <2>2. reqs[c].op = "deploy" /\ UNCHANGED <<app, deps, secret, outdated>>
      BY <1>4 DEF DeployReads, At
    <2> QED
      BY <2>1, <2>2 DEF specsMatch, SecretChanged, RefersToSecret
  <1>5. CASE Switches(c)
    <2>1. reqs[c].pc = "switch" /\ app'.active = reqs[c].dep
      BY <1>1, <1>5 DEF Switches, App
    <2>2. UNCHANGED <<deps, secret, outdated>>
      BY <1>5 DEF Switches
    <2> QED
      BY <2>1, <2>2, <1>1, <1>2 DEF RequestOK, AloneOK, Last
  <1>6. CASE Activates(c)
    <2>1. reqs[c].pc = "activate" /\ UNCHANGED <<app, secret, outdated>>
      BY <1>6 DEF Activates
    <2>2. app.active = reqs[c].dep /\ reqs[c].dep \in Known /\ reqs[c].dep \notin outdated
          /\ deps[reqs[c].dep].spec = reqs[c].spec
          /\ deps[reqs[c].dep].replicas = reqs[c].replicas
      BY <2>1, <1>1, <1>2 DEF RequestOK, AloneOK, Last
    <2>3. DepsKeep
      BY DepsKeepStep
    <2> QED
      BY <2>1, <2>2, <2>3 DEF DepsKeep
  <1>7. DeployReads(c) \/ Switches(c) \/ Activates(c)
    <2>1. reqs[c].pc # "idle" /\ reqs'[c].pc = "idle" /\ reqs' # reqs
      BY DEF Busy
    <2>2. \A o \in Clients : Busy(o) => o = c
      BY <1>1 DEF Alone
    <2>3. PICK o \in Clients :
            \/ \E s \in Specs, n \in ReplicaCounts :
                  RequestDeploy(o, s, n) \/ RequestUpdate(o, s, n) \/ RequestApply(o, s, n)
            \/ \E d \in Deployments : RequestRollback(o, d)
            \/ DeployReads(o) \/ UpdateReads(o) \/ Registers(o) \/ Creates(o) \/ Switches(o)
            \/ RollbackReads(o) \/ RollbackSwitches(o) \/ Supersedes(o) \/ Activates(o)
            \/ ApplyReads(o) \/ ApplyPrepares(o) \/ ApplyLists(o) \/ ApplyCreates(o)
            \/ ApplySwitches(o)
      BY <2>1 DEF Next, vars, SetSecret, DeleteSecret
    <2>4. ASSUME NEW r, Send(o, r) PROVE FALSE
      <3>1. o # c
        BY <2>1, <2>4 DEF Send
      <3> QED
        BY <3>1, <2>1, <2>4, <1>1 DEF Send, Becomes
    <2>5. o = c
      BY <2>2, <2>3, <2>4 DEF Busy, RequestDeploy, RequestUpdate, RequestApply,
         RequestRollback, DeployReads, UpdateReads, Registers, Creates, Switches,
         RollbackReads, RollbackSwitches, Supersedes, Activates, ApplyReads, ApplyPrepares,
         ApplyLists, ApplyCreates, ApplySwitches, At
    <2>6. ASSUME NEW pc \in {"create", "switch", "activate", "prepare"}, NEW d
          PROVE  /\ [reqs[c] EXCEPT !.pc = pc].pc # "idle"
                 /\ [reqs[c] EXCEPT !.pc = pc, !.old = d].pc # "idle"
                 /\ [reqs[c] EXCEPT !.pc = pc, !.dep = d].pc # "idle"
      BY <1>1 DEF Request
    <2>7. ~UpdateReads(c) /\ ~Creates(c) /\ ~Supersedes(c)
      BY <2>6, <1>3, ZenonT(40) DEF UpdateReads, Creates, Supersedes, GoesTo
    <2>8. ~Registers(c)
      BY <2>6, <1>1, <1>2, <1>3 DEF Registers, RequestOK, AloneOK, Deploys, GoesTo
    <2>9. /\ ~RollbackReads(c) /\ ~RollbackSwitches(c) /\ ~ApplyReads(c) /\ ~ApplyPrepares(c)
          /\ ~ApplyLists(c) /\ ~ApplyCreates(c) /\ ~ApplySwitches(c)
      BY DEF Deploys, RollbackReads, RollbackSwitches, ApplyReads, ApplyPrepares, ApplyLists,
             ApplyCreates, ApplySwitches, At
    <2> QED
      BY <2>3, <2>4, <2>5, <2>7, <2>8, <2>9
      DEF RequestDeploy, RequestUpdate, RequestApply, RequestRollback
  <1> QED
    BY <1>4, <1>5, <1>6, <1>7

\* A deploy or update that is answered has made active what it asked for, up to
\* the resources and probes that specsMatch does not compare (DeployApp,
\* specsMatch, UpdateApp, SecretRegistry.Set).
THEOREM DeployHolds == Spec => DeployTakesEffect
  <1>1. AppsInv /\ [Next]_vars =>
          [\A c \in Clients : DeployEnds(c) =>
              /\ Compared[deps'[app'.active].spec] = Compared[reqs[c].spec]
              /\ deps'[app'.active].replicas = reqs[c].replicas
              /\ reqs[c].op = "update" => deps'[app'.active].spec = reqs[c].spec
              /\ ~(secret' /\ RefersToSecret(reqs[c].spec) /\ app'.active \in outdated')]_vars
    BY DeployAnswers DEF Deploys, Busy, DeployEnds
  <1> QED
    BY <1>1, Invariant, PTL DEF Spec, DeployTakesEffect
=============================================================================
