----------------------------- MODULE MCBacktest -----------------------------
(***************************************************************************)
(* Every short history of a handful of candles is replayed by the backtest *)
(* engine under a few settings.                                            *)
(***************************************************************************)
EXTENDS BacktestEngine, ResearchReports

CONSTANTS
  Mid,           (* prices are mirrored at this price                       *)
  EntryHistory   (* candles a live monitor fetches for an entry: 37 or 35,  *)
                 (* where the slow average needs 56                         *)

Candle(o, h, l, c) == [open |-> o, high |-> h, low |-> l, close |-> c]
Mirrored(c) == Candle(2 * Mid - c.open, 2 * Mid - c.low, 2 * Mid - c.high, 2 * Mid - c.close)
Mirror(cs)  == [i \in DOMAIN cs |-> Mirrored(cs[i])]

Ups       == {Candle(9, 12, 8, 11), Candle(9, 13, 7, 12), Candle(13, 17, 13, 16)}
MCShapes  == Ups \cup {Mirrored(c) : c \in Ups}

FvgSettings(sweep, touch, retrace) ==
  [requireSweep |-> sweep, sweepLookback |-> 2, requireFirstTouch |-> touch, maxZoneAge |-> 2,
   requireConfirmation |-> FALSE, retracePct |-> retrace, lookback |-> 5, structureLookback |-> 3,
   minWidthPct |-> 0]

Rules(levels, exit, bars, bias, fvg, gate) ==
  [slPct |-> 30, tpLevels |-> levels, exitClosePct |-> exit, timeStopBars |-> bars,
   biasMode |-> bias, pct |-> 100, riskPerTradePct |-> 10, grossCap |-> 0, lookback |-> 1,
   fvg |-> fvg, gate |-> gate]

NoGate == [on |-> FALSE, adxMin |-> 0, minQuarters |-> 0]
MCConfigs ==
  { Rules(<<9, 25, 40>>, 70, 0, "both", FvgSettings(FALSE, FALSE, 50), NoGate),
    Rules(<<9, 40>>, 100, 2, "both", FvgSettings(TRUE, FALSE, 0), NoGate),
    Rules(<<25>>, 0, 0, "long", FvgSettings(FALSE, FALSE, 0), [on |-> TRUE, adxMin |-> 20, minQuarters |-> 2]) }

-----------------------------------------------------------------------------
(* Properties                                                              *)

Chunks(id) == {i \in DOMAIN trades : trades[i].id = id /\ trades[i].action # "open"}
ClosedOf(id) == FoldSet(LAMBDA i, sum : sum + trades[i].qty, 0, Chunks(id))
SizeOf(id) == LET i == CHOOSE j \in DOMAIN trades : trades[j].id = id /\ trades[j].action = "open"
              IN  trades[i].qty
ExitBeforeFirstTarget(id) ==
  \E i, j \in Chunks(id) : i < j /\ trades[i].reason = <<"exit">> /\ trades[j].reason = <<"tp", 1>>

(* Stops, three kinds of targets, the time stop, reverse signals and the   *)
(* end of the range close a position in chunks: together they close the    *)
(* whole position once it has ended, and never more than it, unless the    *)
(* first target follows a reverse signal, which takes its share of the     *)
(* size the position had at first (see ClosesAtMostOnce).                  *)
EveryUnitIsClosedOnce ==
  \A id \in 1 .. Opened :
     /\ ~(Open /\ pos.id = id) => ClosedOf(id) >= SizeOf(id)
     /\ ClosedOf(id) > SizeOf(id) => ExitBeforeFirstTarget(id)

(* No chunk closes more than is left: what live TP orders, which are       *)
(* reduce-only, guarantee.  Does not hold: backtestEngine.ts:410.          *)
ClosesAtMostOnce == \A id \in 1 .. Opened : ClosedOf(id) <= SizeOf(id)

(* Whatever moves the stop of an open position moves it towards profit.    *)
StopIsNeverLoosened ==
  [][Open /\ pos'.id = pos.id => Sign(pos.side) * (pos'.stop - pos.stop) >= 0]_vars

(* The breakdown that is stored with a run is made from its trade records  *)
(* alone: it accounts for every position once, as won or lost, and for the *)
(* whole change of the equity.                                             *)
BreakdownAddsUp ==
  LET rows == SummarizeBacktestTradeBreakdown(trades)
      Sum(Value(_)) == FoldSet(LAMBDA row, sum : sum + Value(row), 0, rows)
  IN  ~Open =>
        /\ Sum(LAMBDA row : row.netPnl) = equity - Deposit
        /\ Sum(LAMBDA row : row.tradeCount) = Opened
        /\ \A row \in rows : row.wins + row.losses = row.tradeCount

(* Both: the records, position by position and summed up, are complete.    *)
TradesAddUp == EveryUnitIsClosedOnce /\ BreakdownAddsUp

(* Averages do not depend on the rules: once for each history is enough.   *)
Judged == rules.gate.on

OtherSide(side) == IF side = "long" THEN "short" ELSE IF side = "short" THEN "long" ELSE side

(* Long and short are each other's mirror image: turned upside down, the   *)
(* same candles give the opposite engulfing signal, gap and regime, and a  *)
(* signal for the other side passes or fails for the same reason.          *)
MirrorImage ==
  LET m == Mirror(candles) IN
  candles # <<>> /\ ~done =>
    /\ EvaluateTimeframe(m, rules.lookback) = Opposite(EvaluateTimeframe(candles, rules.lookback))
    /\ FvgZone(m).direction = Opposite(FvgZone(candles).direction)
    /\ Judged =>
         /\ RegimeDirection(m, rules.gate.adxMin) = OtherSide(RegimeDirection(candles, rules.gate.adxMin))
         /\ \A side \in {"long", "short"} :
              Verdict(OtherSide(side), <<>>, m) = Verdict(side, <<>>, candles)

Between(x, values) == \E v \in values : Leq(v, x) /\ \E w \in values : Leq(x, w)

(* The averages the gate judges by are averages: each has a value from its *)
(* seed on, and whenever the gate takes the data as sufficient; EMA and    *)
(* ATR stay within what they average, ADX within 0 to 100.                 *)
SeriesAreAverages ==
  LET n    == Len(candles)
      ema(p) == ComputeEma(Closes(candles), p)[n]
      atr  == ComputeAtr(candles, AdxPeriod)[n]
      adx  == ComputeAdx(candles, AdxPeriod)[n]
  IN  Judged /\ ~done /\ n > 0 =>
      /\ \A p \in {FastPeriod, SlowPeriod} :
           /\ ema(p) = NaN <=> n < p
           /\ n >= p => Between(ema(p), {Whole(candles[i].close) : i \in 1 .. n})
      /\ atr = NaN <=> n < AdxPeriod + 1
      /\ n > AdxPeriod => Between(atr, {TrueRanges(candles)[i] : i \in 2 .. n})
      /\ adx = NaN <=> n < 2 * AdxPeriod
      /\ n >= 2 * AdxPeriod => Leq(Zero, adx) /\ Leq(adx, Whole(100))
      /\ EnoughData(candles) => NaN \notin {ema(FastPeriod), ema(SlowPeriod), adx, atr}

(* dto.ts:59: "Only allow the first touch of a fresh HTF FVG; reject       *)
(* already mitigated zones."  A zone into which the price comes back for   *)
(* the first time with the latest candle is fresh.  Does not hold.         *)
FreshFirstTouchQualifies ==
  \A z \in DetectFvgZones(candles, rules.fvg.lookback, rules.fvg.minWidthPct) :
     /\ FindFirstTouch(z, candles, Price(candles)) >= Len(candles)
     /\ Inside(Price(candles), z)
     => QualifiesFirstTouch(z, candles, Price(candles), rules.fvg)

(* backtestEngine.ts:5: "Uses the SAME canonical signal evaluators and     *)
(* TP/SL logic as the live production engine."  Where regime and entry     *)
(* have the same timeframe the live gate should come to the verdict of the *)
(* backtest's.  Does not hold: its candles never reach the slow average.   *)
LiveGateAgrees ==
  LET recent == LastN(candles, EntryHistory) IN
  Judged /\ candles # <<>> =>
    \A side \in {"long", "short"} :
      RunSignalQualityGate(Question(side, <<>>, recent), TRUE, TRUE) = Verdict(side, <<>>, candles)
=============================================================================
