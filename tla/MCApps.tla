------------------------------- MODULE MCApps -------------------------------
(* TLC instances of Apps.  Clients are interchangeable.                    *)
EXTENDS Apps, TLC

\* "probed" is "plain" with a probe added.
MCCompared == [s \in Specs |-> IF s = "probed" THEN "plain" ELSE s]

Symmetry == Permutations(Clients)
=============================================================================
