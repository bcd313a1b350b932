SPECIFICATION Spec
CONSTANTS
  buy = buy
  sell = sell
  None = None
  Sides <- MCSides
  Monitors = {"engulfing", "fvg"}
  EntryTfs <- MCEntryTfs
  ExitTfs <- MCExitTfs
  Lot = 2
  MaxSize = 4
  MaxBar = 2
  MaxFaults = 1
  MaxOrders = 2
SYMMETRY Alike
INVARIANTS OneActPerCandle Protected
