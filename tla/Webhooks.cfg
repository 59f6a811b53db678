SPECIFICATION FairSpec
CONSTANTS
  Events = {e1, e2}
  Endpoints = {p1, p2}
  Workers = {w1}
  NoItem = NoItem
  maxAttempts = 2
  disableAfterConsecutiveFailures = 2
  batchSize = 1
  MaxUpdates = 0
  MaxCrashes = 1
  MaxErrors = 0
  MaxSubscriptions = 2
PROPERTIES
  KeepsPromise
  SettledRowsStay
  ChainSettlesUnlessOvertaken
  EventReachesEndpoint
