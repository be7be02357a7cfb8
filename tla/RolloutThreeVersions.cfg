SPECIFICATION Spec
CONSTANTS
  Deployments = {1, 2, 3}
  Replicas <- MCTwo
  MaxSurge <- MCOne
  MaxUnavailable <- MCZero
  Instances = {1, 2, 3, 4}
  CrashLimit = 2
  MaxFaults = 0
  MaxDeploys = 3
INVARIANTS
  Available
