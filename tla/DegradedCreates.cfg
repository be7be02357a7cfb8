SPECIFICATION Spec
CONSTANTS
  Nodes = {n1}
  NoNode = NoNode
  PortRange = {1, 2}
  CrashLimit = 1
  Instances = {1, 2, 3}
  Replicas = 2
  Probes <- MCProbesNone
  MaxFaults = 2
  MaxDeploys = 0
PROPERTIES
  DegradedCreatesNothing
