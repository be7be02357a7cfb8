SPECIFICATION FairSpec
CONSTANTS
  Deployments = {1, 2}
  Replicas <- MCOne
  MaxSurge <- MCOne
  MaxUnavailable <- MCOne
  Instances = {1, 2, 3}
  CrashLimit = 2
  MaxFaults = 0
  MaxDeploys = 2
PROPERTIES
  RolloutCompletes
