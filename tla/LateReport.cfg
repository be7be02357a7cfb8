SPECIFICATION Spec
CONSTANTS
  Nodes = {n1}
  NoNode = NoNode
  PortRange = {1, 2}
  CrashLimit = 2
  Instances = {1}
  Replicas = 1
  Probes <- MCProbesReadiness
  MaxFaults = 0
  MaxDeploys = 1
PROPERTIES
  StoppingNotUndone
