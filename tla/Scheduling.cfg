SPECIFICATION Spec
CONSTANTS
  Nodes = {1, 2}
  Instances = {1, 2, 3}
  Deployments = {"A", "B"}
  DeploymentOf <- MCDeploymentOf
  Resources <- MCResources
  Capacity <- MCCapacity
  Request <- MCRequest
  MaxOutages = 1
INVARIANTS
  NeverOvercommitted
PROPERTIES
  ReasonNotHidden
  PendingIsPlaced
