SPECIFICATION Spec
CONSTANTS
  Nodes = {1, 2}
  NoNode = NoNode
  NoResult = NoResult
  Absent = Absent
  ExitCodes <- MCExitCodes
  Jobs = {1}
  RetryLimits = {0, 1}
  AgentCodes = {0, 1}
  Patches <- MCPatches
  Overcommitted = {}
  MaxTries = 2
  MaxFaults = 2
INVARIANTS
  ResultIntegrity
  OneRunPerExecution
  HolderIsAssigned
  BudgetRespected
  OfflineSinceMatches
PROPERTIES
  SpreadsLoad
  StaleTickSpares
