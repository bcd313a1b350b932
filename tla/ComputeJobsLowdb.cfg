SPECIFICATION FairSpec
CONSTANTS
  Backend = "lowdb"
  Handlers = {h1}
  Candidates = 2
  AutoResumeLimit = 1
  Backtests = {2}
  Optimizations = {1}
  MaxPids = 3
  MaxLive = 1
  MaxCrashes = 1
INVARIANTS OwnerIsOwnWorker CompletedIsWhole
PROPERTIES JobsSettle
