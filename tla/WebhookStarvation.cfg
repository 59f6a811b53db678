SPECIFICATION FairSpec
CONSTANTS
  Events = {e1, e2}
  Endpoints = {p1}
  Workers = {w1}
  NoItem = NoItem
  maxAttempts = 2
  disableAfterConsecutiveFailures = 3
  batchSize = 1
  MaxUpdates = 0
  MaxCrashes = 0
  MaxErrors = 0
  MaxSubscriptions = 2
PROPERTIES
  ChainSettles
