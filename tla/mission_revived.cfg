SPECIFICATION Spec
CONSTANTS
  NoTask = NoTask
  code = code
  review = review
  release = release
  report = report
  InOrder <- MCInOrder
  Tasks = {code, review, report}
  Deps <- FanInDeps
  Gated = {review}
  Remote = {}
  Repeated = {}
  MaxRuns = 2
  MaxOverrides = 1
  MaxCancels = 0
  MaxRestarts = 0
  MaxBusy = 2
CHECK_DEADLOCK FALSE
PROPERTIES
  OnlyBlockedResumes
