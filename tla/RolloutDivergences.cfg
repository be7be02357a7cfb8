\* Statements of documents that the code does not keep (README, section 5).
\* One at a time: leave the one to be refuted uncommented.
SPECIFICATION Spec
CONSTANTS
  Deployments = {1, 2}
  Replicas <- MCTwo
  MaxSurge <- MCOne
  MaxUnavailable <- MCZero
  Instances = {1, 2, 3, 4, 5}
  CrashLimit = 2
  MaxFaults = 0
  MaxDeploys = 3

INVARIANT Available
\* INVARIANT TotalWithinSurge
