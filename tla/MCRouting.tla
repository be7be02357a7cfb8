------------------------------ MODULE MCRouting -----------------------------
(* TLC instance of Routing: two applications, one with an instance.        *)
EXTENDS Routing

MCNormalize == [s \in Spellings |-> s]
MCAppOf == [i \in Instances |-> "A"]
MCPortOf == [i \in Instances |-> 80]
=============================================================================
