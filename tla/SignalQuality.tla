--------------------------- MODULE SignalQuality ----------------------------
(***************************************************************************)
(* The signal-quality gate of core/signalQualityContext.ts: EMA, ATR and   *)
(* ADX with Wilder's smoothing, the regime they give, displacement of the  *)
(* signal candle, expected reward to risk, and the verdict.  Numbers are   *)
(* exact fractions; NaN is the value a series has before its seed.         *)
(***************************************************************************)
EXTENDS Sequences, SequencesExt, FiniteSetsExt, Fractions

CONSTANTS
  FastPeriod, SlowPeriod,  (* of the moving averages (21 and 55)            *)
  AdxPeriod,               (* of ADX and ATR (14)                           *)
  NaN

ASSUME PeriodAssumption ==
  /\ FastPeriod \in Nat \ {0, 1} /\ AdxPeriod \in Nat \ {0, 1}
  /\ SlowPeriod \in Nat /\ SlowPeriod > FastPeriod

Zero == Whole(0)
Distance(a, b) == IF a < b THEN b - a ELSE a - b

(* The mean of f over the indices from a to b.                             *)
SumOf(f, a, b)  == FoldLeft(Plus, Zero, SubSeq(f, a, b))
MeanOf(f, a, b) == Over(SumOf(f, a, b), Whole(b - a + 1))

(* A series of length n that has NaN before index seed, start at seed, and *)
(* Step(previous value, index) after it.                                   *)
Series(n, seed, start, Step(_, _)) ==
  LET s[i \in 1 .. n] == IF i < seed THEN NaN ELSE IF i = seed THEN start ELSE Step(s[i - 1], i)
  IN  s

(* Wilder's smoothing: one part of the new value, p - 1 of the old.        *)
Smoothed(old, new, p) == Over(Plus(Times(old, Whole(p - 1)), new), Whole(p))

-----------------------------------------------------------------------------
Fractional(values) == [i \in DOMAIN values |-> Whole(values[i])]

ComputeEma(values, p) ==
  LET v == Fractional(values) IN
    IF Len(v) < p THEN [i \in DOMAIN v |-> NaN]
    ELSE Series(Len(v), p, MeanOf(v, 1, p),
                LAMBDA old, i : Plus(Times(v[i], Frac(2, p + 1)), Times(old, Frac(p - 1, p + 1))))

TrueRange(prev, curr) ==
  Max({curr.high - curr.low, Distance(curr.high, prev.close), Distance(curr.low, prev.close)})

TrueRanges(cs) == [i \in DOMAIN cs |-> Whole(IF i = 1 THEN 0 ELSE TrueRange(cs[i - 1], cs[i]))]

ComputeAtr(cs, p) ==
  LET trs == TrueRanges(cs) IN
    IF Len(cs) < p + 1 THEN [i \in DOMAIN cs |-> NaN]
    ELSE Series(Len(cs), p + 1, MeanOf(trs, 2, p + 1), LAMBDA old, i : Smoothed(old, trs[i], p))

UpMove(cs, i)   == cs[i].high - cs[i - 1].high
DownMove(cs, i) == cs[i - 1].low - cs[i].low
PlusDm(cs)  == [i \in DOMAIN cs |-> Whole(IF i > 1 /\ UpMove(cs, i) > DownMove(cs, i) /\ UpMove(cs, i) > 0
                                          THEN UpMove(cs, i) ELSE 0)]
MinusDm(cs) == [i \in DOMAIN cs |-> Whole(IF i > 1 /\ DownMove(cs, i) > UpMove(cs, i) /\ DownMove(cs, i) > 0
                                          THEN DownMove(cs, i) ELSE 0)]

(* Sums in Wilder's manner: the part 1/p is given up for each new value.   *)
Accumulated(f, p) ==
  Series(Len(f), p + 1, SumOf(f, 2, p + 1),
         LAMBDA old, i : Plus(Minus(old, Over(old, Whole(p))), f[i]))

Dx(plus, minus, range) ==
  IF Leq(range, Zero) \/ Leq(Plus(plus, minus), Zero) THEN Zero
  ELSE LET d == Minus(plus, minus) IN
         Over(Times(Whole(100), IF d.n < 0 THEN Minus(Zero, d) ELSE d), Plus(plus, minus))

ComputeAdx(cs, p) ==
  IF Len(cs) < 2 * p THEN [i \in DOMAIN cs |-> NaN]
  ELSE LET range == Accumulated(TrueRanges(cs), p)
           plus  == Accumulated(PlusDm(cs), p)
           minus == Accumulated(MinusDm(cs), p)
           dx    == [i \in DOMAIN cs |-> IF i <= p THEN NaN ELSE Dx(plus[i], minus[i], range[i])]
       IN  Series(Len(cs), 2 * p, MeanOf(dx, p + 1, 2 * p), LAMBDA old, i : Smoothed(old, dx[i], p))

-----------------------------------------------------------------------------
(* Regime                                                                  *)

Closes(cs) == [i \in DOMAIN cs |-> cs[i].close]

EnoughData(cs) == Len(cs) > SlowPeriod /\ Len(cs) >= 2 * AdxPeriod

(* The slope of the slow average over three candles; 0 where it has no     *)
(* value yet.                                                              *)
Slope(slow, n) ==
  LET before == slow[Max({1, n - 3})] IN IF before = NaN THEN Zero ELSE Minus(slow[n], before)

RegimeDirection(cs, adxMin) ==
  LET n     == Len(cs)
      fast  == ComputeEma(Closes(cs), FastPeriod)
      slow  == ComputeEma(Closes(cs), SlowPeriod)
      slope == Slope(slow, n)
  IN  IF ~EnoughData(cs) \/ ~Leq(Whole(adxMin), ComputeAdx(cs, AdxPeriod)[n]) THEN "neutral"
      ELSE IF ~Leq(fast[n], slow[n]) /\ Leq(Zero, slope) THEN "long"
      ELSE IF ~Leq(slow[n], fast[n]) /\ Leq(slope, Zero) THEN "short" ELSE "neutral"

-----------------------------------------------------------------------------
(* Displacement, reward to risk, verdict                                   *)

AtLeast(part, whole, n, d) == d * part >= n * whole

(* The body against a quarter multiple of ATR; no ATR passes.              *)
MeetsBody(body, atr, minQuarters) ==
  atr = NaN \/ Leq(atr, Zero) \/ Leq(Times(atr, Frac(minQuarters, 4)), Whole(body))

(* Where the close lies between low and high, half-way in a flat range.    *)
MeetsClose(close, low, high, side, n, d) ==
  LET range == high - low
      up    == IF range > 0 THEN close - low ELSE 1
      all   == IF range > 0 THEN range ELSE 2
  IN  IF side = "long" THEN AtLeast(up, all, n, d) ELSE AtLeast(all - up, all, n, d)

EvaluateDisplacement(c, atr, side, minQuarters) ==
  [body  |-> MeetsBody(Distance(c.close, c.open), atr, minQuarters),
   close |-> minQuarters = 0 \/ MeetsClose(c.close, c.low, c.high, side, 3, 4)]

EvaluateImpulseDisplacement(triple, atr, side, minQuarters) ==
  [body  |-> MeetsBody(Distance(triple[3].close, triple[1].open), atr, minQuarters),
   close |-> MeetsClose(triple[3].close, Min({triple[i].low : i \in 1 .. 3}),
                        Max({triple[i].high : i \in 1 .. 3}), side, 3, 5)]

(* The mean reward of the targets beyond the entry, per unit of risk.      *)
ExpectedRewardToRisk(entry, stop, targets, side) ==
  LET sign    == IF side = "long" THEN 1 ELSE -1
      risk    == sign * (entry - stop)
      rewards == SelectSeq([i \in DOMAIN targets |-> sign * (targets[i] - entry)], LAMBDA x : x > 0)
  IN  IF risk <= 0 \/ rewards = <<>> THEN Zero
      ELSE Over(MeanOf(Fractional(rewards), 1, Len(rewards)), Whole(risk))

(* The first failing check, or "ok"; no candles for the regime is a        *)
(* failure of its own, and a lockout goes before everything.               *)
EvaluateSignalQuality(q) ==
  LET n         == Len(q.regimeCandles)
      direction == RegimeDirection(q.regimeCandles, q.adxMin)
      atr       == ComputeAtr(q.entryCandles, AdxPeriod)[Len(q.entryCandles)]
      displaced == IF q.triple # <<>>
                   THEN EvaluateImpulseDisplacement(q.triple, atr, q.side, q.minQuarters)
                   ELSE EvaluateDisplacement(Last(q.entryCandles), atr, q.side, q.minQuarters)
  IN  CASE q.lockout -> "event_lockout_active"
        [] ~q.lockout /\ ~EnoughData(q.regimeCandles) -> "regime_data_insufficient"
        [] OTHER ->
             IF ~Leq(Whole(q.adxMin), ComputeAdx(q.regimeCandles, AdxPeriod)[n]) THEN "adx_below_min"
             ELSE IF direction = "neutral" THEN "regime_neutral"
             ELSE IF direction # q.side THEN "regime_blocks"
             ELSE IF ~displaced.body THEN "displacement_body_below_atr"
             ELSE IF ~displaced.close THEN "displacement_close_outside_quartile"
             ELSE IF q.minRr > 0 /\ ~Leq(Whole(q.minRr), ExpectedRewardToRisk(q.entry, q.stop, q.targets, q.side))
                  THEN "expected_rr_below_min"
             ELSE "ok"

(* runSignalQualityGate (server/index.ts), the live monitors' way to the   *)
(* verdict: nothing is judged when every filter is off.  The candles of    *)
(* the regime are fetched, and a failed fetch (no candles) counts as too   *)
(* little data, unless the regime has the timeframe of the entry: then the *)
(* candles of the entry are taken for both.                                *)
RunSignalQualityGate(q, regimeFilter, sameTimeframe) ==
  IF ~regimeFilter /\ q.adxMin = 0 /\ q.minQuarters = 0 /\ ~q.lockout THEN "ok"
  ELSE IF sameTimeframe THEN EvaluateSignalQuality([q EXCEPT !.regimeCandles = q.entryCandles])
  ELSE IF q.regimeCandles = <<>> THEN "regime_data_insufficient"
  ELSE EvaluateSignalQuality(q)
=============================================================================
