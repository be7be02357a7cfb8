\* Statements of documents that the code does not keep (README, section 5).
\* One at a time: leave the one to be refuted uncommented.
SPECIFICATION Spec
CONSTANTS
  Clients = {c1, c2}
  Deployments = {1, 2, 3}
  Specs = {"plain", "other"}
  Compared <- MCCompared
  ProbedSpecs = {}
  SecretParts = {}
  ReplicaCounts = {1}
  Ops = {"deploy", "apply"}
  MaxRequests = 3
CHECK_DEADLOCK FALSE

INVARIANT ExactlyOneActive
\* INVARIANT OneDeploymentPerManifest
