SPECIFICATION Spec
CONSTANTS
  Nodes = {n1}
  NoNode = NoNode
  PortRange = {1, 2}
  CrashLimit = 2
  Instances = {1, 2}
  Replicas = 1
  Probes <- MCProbesNone
  MaxFaults = 1
  MaxDeploys = 1
INVARIANTS
  NeverOverProvisions
  ClaimedOnce
PROPERTIES
  LossTakesTimeout
