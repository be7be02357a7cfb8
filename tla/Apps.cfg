SPECIFICATION Spec

CONSTANTS
  Clients = {c1, c2}
  Deployments = {1, 2, 3}
  Specs = {"plain", "probed", "other"}
  Compared <- MCCompared
  ProbedSpecs = {"probed"}
  SecretParts = {"plain"}
  ReplicaCounts = {1}
  Ops = {"deploy", "update", "rollback", "apply", "secret"}
  MaxRequests = 4

SYMMETRY Symmetry

CHECK_DEADLOCK FALSE

INVARIANTS
  OneActiveDeployment
  ApplyIdempotent

PROPERTIES
  SnapshotsImmutable
  DeployTakesEffect
