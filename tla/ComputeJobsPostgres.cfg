SPECIFICATION Spec
CONSTANTS
  Backend = "postgres"
  Handlers = {h1}
  Candidates = 2
  AutoResumeLimit = 2
  Backtests = {2}
  Optimizations = {1}
  MaxPids = 3
  MaxLive = 0
  MaxCrashes = 1
INVARIANTS SingleExecutor
PROPERTIES WorkersMindTheirJob
