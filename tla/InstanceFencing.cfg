SPECIFICATION FairSpec
CONSTANTS
  Nodes = {n1}
  NoNode = NoNode
  PortRange = {1, 2}
  CrashLimit = 2
  Instances = {1}
  Replicas = 1
  Probes <- MCProbesBoth
  MaxFaults = 1
  MaxDeploys = 1
PROPERTIES
  FencedContainersStop
  SupersededStops
  TerminalFrozen
