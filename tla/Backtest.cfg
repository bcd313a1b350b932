SPECIFICATION Spec
CONSTANTS
  Shapes <- MCShapes
  Configs <- MCConfigs
  Mid = 10
  EntryHistory = 3
  MaxCandles = 6
  Deposit = 100000
  MaxLeverage = 2
  FastPeriod = 2
  SlowPeriod = 3
  AdxPeriod = 2
  NaN = NaN
CHECK_DEADLOCK FALSE
INVARIANTS TradesAddUp MirrorImage
PROPERTY StopIsNeverLoosened
