SPECIFICATION LiveSpec
CONSTANTS
  NoWorker = NoWorker
  NoDrainer = NoDrainer
  NoAttempt = NoAttempt
  Matches <- MCMatches
  Capacity <- MCCapacity
  r1 = r1
  l1 = l1
  w1 = w1
  d1 = d1
  c1 = c1
  Runs = {r1}
  Workers = {l1, w1}
  Locals = {l1}
  Drainers = {d1}
  Claimers = {c1}
  Timed = {r1}
  Cancels = {r1}
  Operated = {}
  Punctual = TRUE
  Revives = FALSE
  MaxAttempts = 2
  MaxCrashes = 1
  MaxRestarts = 0
INVARIANTS
  OneExecution
  OutcomeIsFirstTerminal
PROPERTIES
  EveryRunEnds
  FinishedRunsLeaveNoJob
