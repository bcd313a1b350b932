SPECIFICATION FairSpec
CONSTANTS
  Orders = {o1}
  Signals = {s1}
  Confirms = {}
  Watchdog = w
  MaxRounds = 2
  MaxFaults = 1
  MaxSwings = 1
  MaxResets = 1
  MaxExports = 1
  MaxCrashes = 1
INVARIANTS SettledHasClosedAll
PROPERTIES DrawdownSettles
CHECK_DEADLOCK FALSE
