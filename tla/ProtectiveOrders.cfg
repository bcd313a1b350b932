SPECIFICATION Spec
CONSTANTS
  MaxEntries = 2
  Timed = {1}
  Ticks = {t1}
  TpCount = 2
  Lots = 3
  LevelSets <- MCLevelSets
  Budgets <- MCBudgets
CHECK_DEADLOCK FALSE
INVARIANTS StopIsKept MovedOnce

PROPERTIES FillIsNoticed
