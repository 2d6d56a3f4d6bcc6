SPECIFICATION LiveSpec
CONSTANTS
  StallAction = "deny"
  MaxRestarts = 1
  MaxFaults = 1
  MaxMishaps = 2
  MaxCalls = 2
  MaxDecisions = 1
  MaxChanges = 1
  MaxVisits = 2
CHECK_DEADLOCK FALSE
INVARIANTS
  ConsoleTypeOK
  OwnWritesAreShown
  AppliedOnce
  DecisionStands
  OneDecisionSparesTheRun
PROPERTIES
  CallsSettle
  PageCatchesUp
  EveryPermissionSettles
