---------------------------- MODULE MCJobSystem ----------------------------
(***************************************************************************)
(* TLC instances of JobSystem.                                             *)
(***************************************************************************)
EXTENDS JobSystem

MCExitCodes == {0, 1, -1}

NoPatches == {}

\* A client assigns the job itself, says that it runs, or that it has succeeded.
MCPatches ==
    {[status |-> s, node |-> n, started |-> "nil", completed |-> FALSE,
      result |-> NoResult] :
        s \in {"assigned", "running", "succeeded"}, n \in {Absent, 1}}
=============================================================================
