-------------------------- MODULE MCInstanceSystem --------------------------
(* TLC instance of InstanceSystem.                                         *)
EXTENDS InstanceSystem

MCProbesNone == {}
MCProbesReadiness == {"readiness"}
MCProbesBoth == {"readiness", "liveness"}
=============================================================================
