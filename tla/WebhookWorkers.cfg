SPECIFICATION Spec
CONSTANTS
  Events = {e1}
  Endpoints = {p1}
  Workers = {w1, w2}
  NoItem = NoItem
  maxAttempts = 2
  disableAfterConsecutiveFailures = 2
  batchSize = 2
  MaxUpdates = 1
  MaxCrashes = 1
  MaxErrors = 1
  MaxSubscriptions = 1
SYMMETRY WorkerSymmetry
INVARIANTS
  TypeOK
  AttemptSentOnce
  ChainInOrder
