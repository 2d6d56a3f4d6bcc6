SPECIFICATION Spec
CONSTANTS
  r1 = r1
  l1 = l1
  w1 = w1
  d1 = d1
  c1 = c1
  Runs = {r1}
  Workers = {l1, w1}
  Locals = {l1}
  NoWorker = NoWorker
  NoDrainer = NoDrainer
  NoAttempt = NoAttempt
  Drainers = {d1}
  Claimers = {c1}
  Matches <- MCMatches
  Capacity <- MCCapacity
  Timed = {}
  MaxAttempts = 2
  Punctual = FALSE
  Cancels = {}
  Operated = {w1}
  Revives = TRUE
  MaxCrashes = 1
  MaxRestarts = 0
INVARIANTS
  TypeOK
  LeaseCustody
PROPERTIES
  DrainIsHonoured
  ImplementsLifecycle
