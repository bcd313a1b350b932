SPECIFICATION Spec
CONSTANTS
  MaxNewsTime = 2
  MaxWatchTime = 6
  MaxEdits = 1
  MaxStarts = 2
  Prices = {990, 1000, 1008, 1030}
  Size = 100
  Requests = {r1}
  MaxQuarter = 24
  MaxChampions = 1
  Error = Error
  None = None
CHECK_DEADLOCK FALSE
INVARIANTS  AccountsAgree BestIsPromoted TestsTile
PROPERTY SourcesAreWatched
