SPECIFICATION MCSpec
CONSTANTS
  Nodes = {n1}
  NoNode = NoNode
  NoResult = NoResult
  Absent = Absent
  ExitCodes <- MCExitCodes

  Jobs = {j1}
  RetryLimits = {0, 1}
  Patches <- AllPatches
  MaxEvents = 7
CHECK_DEADLOCK FALSE
INVARIANTS
  RetryBudget
PROPERTIES
  TerminalFrozen
  ExecutionsNeverReturn
