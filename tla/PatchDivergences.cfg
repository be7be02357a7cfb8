\* Statements of documents that the code does not keep (README, section 5).
\* One at a time: leave the one to be refuted uncommented.
SPECIFICATION MCSpec
CONSTANTS
  Nodes = {n1, n2}
  NoNode = NoNode
  NoResult = NoResult
  Absent = Absent
  ExitCodes <- MCExitCodes

  Jobs = {j1}
  RetryLimits = {0, 1}
  Patches <- AllPatches
  MaxEvents = 6
CHECK_DEADLOCK FALSE

INVARIANT RefusedUpdateChangesNothing
\* INVARIANT RunningHasExecution
\* PROPERTY TransitionsLogged
