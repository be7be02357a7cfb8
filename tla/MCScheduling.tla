---------------------------- MODULE MCScheduling ----------------------------
(* TLC instance of Scheduling: two nodes of different size; an instance of *)
(* deployment A only fits on the larger one, one of B on both, and B's is  *)
(* listed between those of A.                                              *)
EXTENDS Scheduling

MCDeploymentOf == [i \in Instances |-> IF i = 2 THEN "B" ELSE "A"]
MCResources == {"cpu", "memory"}
MCCapacity == [n \in Nodes |-> IF n = 1 THEN [cpu |-> 2, memory |-> 2]
                               ELSE [cpu |-> 1, memory |-> 1]]
MCRequest == [A |-> [cpu |-> 1, memory |-> 2], B |-> [cpu |-> 1, memory |-> 1]]
=============================================================================
