SPECIFICATION Spec
CONSTANTS
  Nodes = {n1}
  NoNode = NoNode
  PortRange = {1, 2}
  CrashLimit = 2
  Instances = {1}
  Replicas = 1
  Probes <- MCProbesBoth
  MaxFaults = 2
  MaxDeploys = 0
INVARIANTS
  CrashesCountInstances
