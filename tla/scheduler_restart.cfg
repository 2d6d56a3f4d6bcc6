SPECIFICATION Spec
CONSTANTS
  NoWorker = NoWorker
  NoDrainer = NoDrainer
  NoAttempt = NoAttempt
  Matches <- MCMatches
  Capacity <- MCCapacity
  r1 = r1
  r2 = r2
  l1 = l1
  l2 = l2
  d1 = d1
  d2 = d2
  Runs = {r1, r2}
  Workers = {l1, l2}
  Locals = {l1, l2}
  Drainers = {d1, d2}
  Claimers = {}
  Timed = {}
  Cancels = {r1}
  Operated = {}
  Punctual = TRUE
  Revives = FALSE
  MaxAttempts = 2
  MaxCrashes = 0
  MaxRestarts = 1
SYMMETRY Symmetry
INVARIANTS
  LocalCapacity
  NoRunForgotten
PROPERTIES
  OutcomeIsFinal
