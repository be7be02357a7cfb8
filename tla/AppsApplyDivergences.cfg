\* Statements of documents that the code does not keep (README, section 5).
\* One at a time: leave the one to be refuted uncommented.
SPECIFICATION Spec
CONSTANTS
  Clients = {c1}
  Deployments = {1, 2}
  Specs = {"plain", "probed"}
  Compared <- MCCompared
  ProbedSpecs = {"probed"}
  SecretParts = {}
  ReplicaCounts = {1, 2}
  Ops = {"deploy", "apply"}
  MaxRequests = 2
CHECK_DEADLOCK FALSE

PROPERTY ApplyTakesEffect
\* PROPERTY DeployIsExact
\* INVARIANT AppliedReplicasAreTarget
