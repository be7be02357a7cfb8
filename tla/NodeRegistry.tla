---------------------------- MODULE NodeRegistry ----------------------------
(***************************************************************************)
(* The control plane's node registry (internal/node/registry.go) and the   *)
(* offline detector of cmd/runstack/cp.go.  Each operation runs under      *)
(* r.mu.  Clock values are abstracted to what the code compares: whether   *)
(* the last heartbeat is older than the offline timeout (30s), and whether *)
(* an offline node has been offline for the recovery grace period (30s).   *)
(* Hardware facts and tokens are not modelled.                             *)
(***************************************************************************)
CONSTANT Nodes

VARIABLE nodes

\* "none" stands for a node that never registered.
Node == [status: {"none", "online", "offline"}, stale: BOOLEAN,
         since: {"nil", "recent", "expired"}]

NodeTypeOK == nodes \in [Nodes -> Node]

NodeInit ==
    nodes = [n \in Nodes |-> [status |-> "none", stale |-> FALSE, since |-> "nil"]]

Fresh == [status |-> "online", stale |-> FALSE, since |-> "nil"]

Registered(n) == nodes[n].status # "none"
Online(n) == nodes[n].status = "online"

\* Register replaces the record: a registering agent is online at once.
Register(n) == nodes' = [nodes EXCEPT ![n] = Fresh]

\* Mutant of Heartbeat: OfflineSince survives the node's return.
HeartbeatKeepsSince(n) ==
    /\ Registered(n)
    /\ nodes' = [nodes EXCEPT ![n].status = "online", ![n].stale = FALSE]

Heartbeat(n) ==
    /\ Registered(n)
    /\ nodes' = [nodes EXCEPT ![n] = Fresh]

GoesOffline(n) == Online(n) /\ nodes[n].stale

\* One sweep over all nodes; OfflineSince is set when a node changes status
\* and not moved by later sweeps.
MarkOfflineNodes ==
    /\ \E n \in Nodes : GoesOffline(n)
    /\ nodes' = [n \in Nodes |->
          IF GoesOffline(n)
          THEN [nodes[n] EXCEPT !.status = "offline", !.since = "recent"]
          ELSE nodes[n]]

\* Time: the heartbeat of n becomes older than the offline timeout.
HeartbeatStale(n) ==
    /\ Registered(n) /\ ~nodes[n].stale
    /\ nodes' = [nodes EXCEPT ![n].stale = TRUE]

\* Time: n has been offline for the grace period.
GraceExpires(n) ==
    /\ nodes[n].since = "recent"
    /\ nodes' = [nodes EXCEPT ![n].since = "expired"]

\* OfflineSince is set exactly on offline nodes, and only nodes whose
\* heartbeat is overdue are offline; otherwise the scheduler would take jobs
\* from a node that is back (Heartbeat, Register, MarkOfflineNodes).
OfflineSinceMatches ==
    \A n \in Nodes : /\ nodes[n].status = "offline" <=> nodes[n].since # "nil"
                     /\ nodes[n].status = "offline" => nodes[n].stale
=============================================================================
