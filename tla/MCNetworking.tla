---------------------------- MODULE MCNetworking ----------------------------
(* TLC instance of Networking.  Clients are interchangeable.               *)
EXTENDS Networking, TLC

MCNormalize == [s \in Spellings |-> IF s = "Example.com" THEN "example.com" ELSE s]
Symmetry == Permutations(Clients)
=============================================================================
