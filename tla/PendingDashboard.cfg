SPECIFICATION Spec
CONSTANTS
  Backend = "lowdb"
  Symbols = {btc}
  Sides = {long, short}
  Dashboards = {d1, d2}
  Telegram = tg1
  Monitors = {m1, m2}
  MaxSignals = 2
  MaxUpdates = 0
  MaxTrouble = 0
  MaxFills = 2
  MaxCopies = 1
INVARIANTS OnePendingPerSymbol EntriesAreProtected
CHECK_DEADLOCK FALSE
SYMMETRY Interchangeable
