SPECIFICATION ProbedSpec
CONSTANTS
  Nodes = {n1}
  NoNode = NoNode
  PortRange = {1, 2}
  CrashLimit = 2
  Instances = {1, 2}
  Replicas = 1
  Probes <- MCProbesNone
  MaxFaults = 0
  MaxDeploys = 2
PROPERTIES
  RollbackServes
