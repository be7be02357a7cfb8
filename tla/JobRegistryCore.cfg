SPECIFICATION MCCoreSpec
CONSTANTS
  Nodes = {n1, n2}
  NoNode = NoNode
  NoResult = NoResult
  Absent = Absent
  ExitCodes <- MCExitCodes

  Jobs = {j1, j2}
  RetryLimits = {0, 1}
  Patches <- NoPatches
  MaxEvents = 7
CHECK_DEADLOCK FALSE
INVARIANTS
  TypeOK
  ExecutionFieldsMatchStatus
  EventLogComplete
PROPERTIES
  LifecycleSpec
