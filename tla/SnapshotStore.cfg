SPECIFICATION Spec
CONSTANTS
  Backends = {"postgres", "dual"}
  server = server
  worker = worker
  Procs = {server, worker}
  Overlap <- MCOverlap
  Ids = {1, 2}
  Trials = {1, 2}
  Pinned = {1}
  TrialLimit = 1
  MaxClock = 2
  MaxFaults = 1
  MaxEvents <- MCEvents
  None = None
CHECK_DEADLOCK FALSE
INVARIANTS ShadowIsNotBehind
PROPERTIES RegisterSpec WrittenIsStored
