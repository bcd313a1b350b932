SPECIFICATION FairSpec
CONSTANTS
  Backend = "lowdb"
  Symbols = {btc}
  Sides = {long, short}
  Dashboards = {}
  Telegram = tg1
  Monitors = {m1}
  MaxSignals = 1
  MaxUpdates = 2
  MaxTrouble = 1
  MaxFills = 3
  MaxCopies = 0
INVARIANTS ReentryNeedsTrouble AnsweredStaysAnswered
PROPERTIES TelegramDrains
CHECK_DEADLOCK FALSE
