SPECIFICATION Spec
CONSTANTS
  Requests = {r1, r2}
  Shapes <- MCShapes
  Manual = TRUE
  Equity = 1
  SymbolCap = 2
  GrossCap = 3
  LeverageCap = 2
  MaxMoves = 1
  MaxCrashes = 1
  NoOrder = NoOrder
  NoKey = NoKey
  k1 = k1
SYMMETRY MCSymmetry
CHECK_DEADLOCK FALSE
INVARIANTS RecordsAreTrue LateRetryPlacesNothing CapUnlessBlind
