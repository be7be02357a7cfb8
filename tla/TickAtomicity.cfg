SPECIFICATION Spec
CONSTANTS
  Nodes = {1, 2}
  NoNode = NoNode
  NoResult = NoResult
  Absent = Absent
  ExitCodes <- MCExitCodes
  Jobs = {1}
  RetryLimits = {0}
  AgentCodes = {0, 1}
  Patches <- NoPatches
  Overcommitted = {}
  MaxTries = 2
  MaxFaults = 1
PROPERTIES
  AssignedToOnlineNode
