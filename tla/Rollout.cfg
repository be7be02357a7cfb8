SPECIFICATION FairSpec

CONSTANTS
  Deployments = {1, 2}
  Replicas <- MCReplicasDiffer
  MaxSurge <- MCSurgeDiffer
  MaxUnavailable <- MCUnavailableDiffer
  Instances = {1, 2, 3}
  CrashLimit = 1
  MaxFaults = 1
  MaxDeploys = 3

INVARIANTS
  TickEndsWithinSurge
  TickKeepsAvailable

PROPERTIES
  DegradedSpares
  RolloutConverges
