--------------------------- MODULE MCJobRegistry ---------------------------
(***************************************************************************)
(* TLC instances of JobRegistry.  A job that is assigned and recovered     *)
(* again and again without being claimed grows its event log for ever;     *)
(* MaxEvents bounds the log.                                               *)
(***************************************************************************)
EXTENDS JobRegistry

CONSTANT MaxEvents  \* longest event log explored

MCExitCodes == {0, 1, -1}

NoPatches == {}

\* Every PATCH that names a status, and the ones that also set fields.
Patch(s, n, t, c, r) ==
    [status |-> s, node |-> n, started |-> t, completed |-> c, result |-> r]

AllPatches ==
    {Patch(s, n, t, c, r) :
        s \in {Absent, "assigned", "running", "succeeded", "failed"},
        n \in {Absent, NoNode} \cup Nodes, t \in {"nil", "overdue"},
        c \in BOOLEAN, r \in {NoResult, 0}}

LogsBounded == \A j \in Jobs : Len(events'[j]) <= MaxEvents

MCCoreSpec == Init /\ [][CoreNext /\ LogsBounded]_vars
MCSpec == Init /\ [][Next /\ LogsBounded]_vars
=============================================================================
