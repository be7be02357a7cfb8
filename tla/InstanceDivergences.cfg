\* Statements of documents that the code does not keep (README, section 5).
\* One at a time: leave the one to be refuted uncommented.
SPECIFICATION ProbedSpec
CONSTANTS
  Nodes = {n1}
  NoNode = NoNode
  PortRange = {1, 2}
  CrashLimit = 2
  Instances = {1}
  Replicas = 1
  Probes <- MCProbesNone
  MaxFaults = 1
  MaxDeploys = 1

PROPERTY StoppingEnds
\* PROPERTY RunningBecomesHealthy
