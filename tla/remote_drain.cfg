SPECIFICATION Spec
CONSTANTS
  NoWorker = NoWorker
  NoDrainer = NoDrainer
  NoAttempt = NoAttempt
  Matches <- MCMatches
  Capacity <- MCCapacity
  r1 = r1
  l1 = l1
  w1 = w1
  d1 = d1
  c1 = c1
  Runs = {r1}
  Workers = {l1, w1}
  Locals = {l1}
  Drainers = {d1}
  Claimers = {c1}
  Timed = {}
  Cancels = {}
  Operated = {w1}
  Punctual = TRUE
  Revives = FALSE
  MaxAttempts = 2
  MaxCrashes = 0
  MaxRestarts = 0
PROPERTIES
  DrainedWorkersClaimNothing
