SPECIFICATION LiveSpec
CONSTANTS
  NoTask = NoTask
  code = code
  review = review
  release = release
  report = report
  InOrder <- MCInOrder
  Tasks = {review, report}
  Deps <- ChainDeps
  Gated = {review}
  Remote = {review}
  Repeated = {}
  MaxRuns = 2
  MaxOverrides = 1
  MaxCancels = 1
  MaxRestarts = 1
  MaxBusy = 2
CHECK_DEADLOCK FALSE
INVARIANTS
  TasksFollowRuns
  DependenciesFirst
  CompletedIsDone
PROPERTIES
  MissionEnds
