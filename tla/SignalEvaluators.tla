-------------------------- MODULE SignalEvaluators --------------------------
(***************************************************************************)
(* The pattern detectors of core/engulfingEvaluator.ts and                 *)
(* core/fvgEvaluator.ts, shared by the live monitors and the backtest      *)
(* engine.  A candle is [open, high, low, close]; its place in the         *)
(* sequence is its time.  A retracement is a whole number of percent.      *)
(***************************************************************************)
EXTENDS Integers, FiniteSets, Sequences, SequencesExt, FiniteSetsExt

Opposite(direction) == CASE direction = "bullish" -> "bearish"
                         [] direction = "bearish" -> "bullish"
                         [] OTHER -> direction

Lowest(cs)  == Min({cs[i].low : i \in DOMAIN cs})
Highest(cs) == Max({cs[i].high : i \in DOMAIN cs})
LastN(cs, n) == SubSeq(cs, Max({1, Len(cs) - n + 1}), Len(cs))

-----------------------------------------------------------------------------
(* Engulfing                                                               *)

BodyTop(c)    == Max({c.open, c.close})
BodyBottom(c) == Min({c.open, c.close})
Wraps(prev, curr) == BodyBottom(curr) <= BodyBottom(prev) /\ BodyTop(curr) >= BodyTop(prev)

IsBullishEngulfingBody(prev, curr) == curr.close > curr.open /\ Wraps(prev, curr)
IsBearishEngulfingBody(prev, curr) == curr.close < curr.open /\ Wraps(prev, curr)

(* The pair sweeps the extreme of the history before it.                   *)
IsLowBreakout(history, pair)  == history # <<>> /\ Lowest(pair) < Lowest(history)
(* Mutant: equal highs count as swept. *)
IsHighBreakoutOrEqual(history, pair) == history # <<>> /\ Highest(pair) >= Highest(history)

IsHighBreakout(history, pair) == history # <<>> /\ Highest(pair) > Highest(history)

EvaluateBodyEngulfingTimeframe(cs) ==
  LET n == Len(cs) IN
    IF n < 2 THEN "none"
    ELSE IF IsBullishEngulfingBody(cs[n - 1], cs[n]) THEN "bullish"
    ELSE IF IsBearishEngulfingBody(cs[n - 1], cs[n]) THEN "bearish" ELSE "none"

EvaluateTimeframe(cs, lookback) ==
  LET n       == Len(cs)
      pair    == LastN(cs, 2)
      history == SubSeq(cs, n - 1 - lookback, n - 2)
  IN  IF n < lookback + 2 THEN "none"
      ELSE IF IsBullishEngulfingBody(pair[1], pair[2]) /\ IsLowBreakout(history, pair) THEN "bullish"
      ELSE IF IsBearishEngulfingBody(pair[1], pair[2]) /\ IsHighBreakout(history, pair) THEN "bearish"
      ELSE "none"

-----------------------------------------------------------------------------
(* Fair value gaps                                                         *)

(* The last candle is left out, the one before it is compared.             *)
DetectStructureBreak(cs, lookback) ==
  LET history == Front(cs)
      window  == Front(LastN(history, lookback + 1))
  IN  IF Len(cs) < lookback + 1 \/ window = <<>> THEN "none"
      ELSE IF Last(history).close > Highest(window) THEN "bullish"
      ELSE IF Last(history).close < Lowest(window) THEN "bearish" ELSE "none"

WideEnough(top, bottom, minWidthPct) == 200 * (top - bottom) >= minWidthPct * (top + bottom)

(* A zone lies between a candle and the one two later, which completes it. *)
DetectFvgZones(cs, lookback, minWidthPct) ==
  {[direction |-> "bullish", top |-> cs[i].low, bottom |-> cs[i - 2].high, completed |-> i] :
      i \in {j \in Max({3, Len(cs) - lookback + 1}) .. Len(cs) :
               /\ cs[j - 2].high < cs[j].low
               /\ WideEnough(cs[j].low, cs[j - 2].high, minWidthPct)}}
  \cup
  {[direction |-> "bearish", top |-> cs[i - 2].low, bottom |-> cs[i].high, completed |-> i] :
      i \in {j \in Max({3, Len(cs) - lookback + 1}) .. Len(cs) :
               /\ cs[j - 2].low > cs[j].high
               /\ WideEnough(cs[j - 2].low, cs[j].high, minWidthPct)}}

Inside(price, zone) == price >= zone.bottom /\ price <= zone.top

(* Between the trigger, retracePct of the gap back from its near edge, and *)
(* the far edge (prices times 100, so that the trigger is a whole number). *)
IsFvgRetracedToLevel(zone, price, retracePct) ==
  /\ Inside(price, zone)
  /\ IF zone.direction = "bullish"
     THEN 100 * price <= 100 * zone.top - (zone.top - zone.bottom) * retracePct
     ELSE 100 * price >= 100 * zone.bottom + (zone.top - zone.bottom) * retracePct

CandleTouchesZone(c, zone) == c.low <= zone.top /\ c.high >= zone.bottom

QualifiesSweep(zone, cs, settings) ==
  LET triple  == SubSeq(cs, zone.completed - 2, zone.completed)
      history == SubSeq(cs, Max({1, zone.completed - 2 - settings.sweepLookback}), zone.completed - 3)
  IN  settings.requireSweep =>
        IF zone.direction = "bullish" THEN IsLowBreakout(history, triple)
        ELSE IsHighBreakout(history, triple)

(* The time of the first touch: that of a candle after the zone, now (the  *)
(* candle after the last has begun before), or never (0).                  *)
FindFirstTouch(zone, cs, price) ==
  LET touches == {i \in zone.completed + 1 .. Len(cs) : CandleTouchesZone(cs[i], zone)}
  IN  IF touches # {} THEN Min(touches) ELSE IF Inside(price, zone) THEN Len(cs) + 2 ELSE 0

(* As the code has it: every candle before the first touch counts, those   *)
(* the zone is made of included.                                           *)
QualifiesFirstTouch(zone, cs, price, settings) ==
  LET touch == FindFirstTouch(zone, cs, price) IN
  /\ Len(cs) - zone.completed <= settings.maxZoneAge
  /\ \/ touch = 0
     \/ /\ Inside(price, zone)
        /\ ~ \E i \in 1 .. touch - 1 : i <= Len(cs) /\ CandleTouchesZone(cs[i], zone)

(* An engulfing candle of a lower timeframe since the touch, in the        *)
(* direction of the zone; a lower candle i opens within candle at[i].      *)
FindConfirmation(direction, lower, at, touch) ==
  \E i \in 2 .. Len(lower) :
     at[i] >= touch /\ EvaluateBodyEngulfingTimeframe(SubSeq(lower, 1, i)) = direction

Confirmed(zone, cs, price, settings, lower, at) ==
  settings.requireConfirmation =>
    FindConfirmation(zone.direction, lower, at, FindFirstTouch(zone, cs, price))

Qualifies(zone, cs, price, settings, lower, at) ==
  /\ QualifiesSweep(zone, cs, settings)
  /\ IsFvgRetracedToLevel(zone, price, settings.retracePct)
  /\ settings.requireFirstTouch => QualifiesFirstTouch(zone, cs, price, settings)
  /\ Confirmed(zone, cs, price, settings, lower, at)

NoZone == [direction |-> "none"]

(* The newest qualifying zone that agrees with the structure break.        *)
EvaluateFvg(cs, price, settings, lower, at) ==
  LET break == DetectStructureBreak(cs, settings.structureLookback)
      zones == {z \in DetectFvgZones(cs, settings.lookback, settings.minWidthPct) :
                  /\ break # "none" => z.direction = break
                  /\ Qualifies(z, cs, price, settings, lower, at)}
  IN  IF Len(cs) < 3 \/ zones = {} THEN NoZone
      ELSE CHOOSE z \in zones : \A y \in zones : y.completed <= z.completed
=============================================================================
