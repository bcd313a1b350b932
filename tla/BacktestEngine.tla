--------------------------- MODULE BacktestEngine ---------------------------
(***************************************************************************)
(* runBacktestEngine (core/backtestEngine.ts) on one timeframe: candles    *)
(* close one after the other; each is an event that settles or protects    *)
(* the open position, or looks for an engulfing entry and then an FVG      *)
(* entry, with the evaluators the live monitors use.                       *)
(*                                                                         *)
(* Prices are whole numbers, stops and targets prices times 100, sizes     *)
(* whole units; money is then a whole number too.  On one timeframe a      *)
(* candle is an event once, so the debounces always pass.                  *)
(***************************************************************************)
EXTENDS SignalEvaluators, SignalQuality

CONSTANTS
  Shapes,       (* the candles that can occur                               *)
  MaxCandles,   (* bound                                                    *)
  Deposit, MaxLeverage,
  Configs       (* rules: slPct, tpLevels, exitClosePct, timeStopBars,      *)
                (* biasMode, pct, riskPerTradePct, grossCap, lookback, fvg, *)
                (* and gate: off or the thresholds of the quality gate      *)

ASSUME DepositAssumption == Deposit \in Nat \ {0} /\ MaxLeverage \in Nat \ {0}

VARIABLES
  rules,    (* the snapshot of the run                                      *)
  candles,  (* closed so far                                                *)
  pos,      (* the open position, or NoPosition                             *)
  trades,   (* BacktestTradeRecord, with the position's number              *)
  equity, rejected,
  done      (* whether the run has ended                                    *)

vars == <<rules, candles, pos, trades, equity, rejected, done>>

NoPosition == [id |-> 0]
Open       == pos # NoPosition
Price(cs)  == Last(cs).close
Opened     == Cardinality({i \in DOMAIN trades : trades[i].action = "open"})

Init ==
  /\ rules \in Configs
  /\ candles = <<>> /\ pos = NoPosition /\ trades = <<>>
  /\ equity = Deposit /\ rejected = 0 /\ done = FALSE

-----------------------------------------------------------------------------
(* Levels and sizes                                                        *)

Sign(side)    == IF side = "long" THEN 1 ELSE -1
StopLoss(entry, side)   == entry * (100 - Sign(side) * rules.slPct)
Target(p, k)  == p.entry * (100 + Sign(p.side) * rules.tpLevels[k])
Rounded(a, b) == (2 * a + b) \div (2 * b)
Share(k)      == CASE Len(rules.tpLevels) >= 3 -> <<34, 33, 33>>[k]
                   [] Len(rules.tpLevels) = 2  -> 50
                   [] OTHER -> 100

(* computeSizeFromRules: allocation times leverage, capped by the risk per *)
(* trade; nothing when that is more than the deposit or the gross cap.     *)
SizeFromRules(price) ==
  LET allocation == equity * rules.pct * MaxLeverage
      riskCap    == IF rules.riskPerTradePct > 0 THEN 100 * ((equity * rules.riskPerTradePct) \div rules.slPct)
                    ELSE allocation
      notional   == Min({allocation, riskCap})
  IN  IF notional > 100 * equity * MaxLeverage THEN 0
      ELSE IF rules.grossCap > 0 /\ notional > equity * rules.grossCap THEN 0
      ELSE notional \div (100 * price)

SideAllowed(side) == rules.biasMode \in {"both", side}

-----------------------------------------------------------------------------
(* A tick of an open position.  t is the position, the trades and the      *)
(* equity as they change.                                                  *)

Pnl(p, price, qty) == Sign(p.side) * (price - p.entry) * qty
Reduced(p, qty)    == [p EXCEPT !.left = Max({0, @ - qty})]
(* qty is what the chunk closes, size what the record shows.               *)
Record(p, action, price, qty, size, pnl, reason) ==
  [id |-> p.id, action |-> action, price |-> price, qty |-> qty, size |-> size, pnl |-> pnl,
   reason |-> reason]

CloseChunk(t, action, price, qty, recorded, reason) ==
  LET pnl == Pnl(t.pos, price, qty) IN
    [pos    |-> Reduced(t.pos, qty),
     trades |-> Append(t.trades, Record(t.pos, action, price, qty, recorded, pnl, reason)),
     equity |-> t.equity + pnl]

Closed(t) == [t EXCEPT !.pos = NoPosition]

HitStop(p, price)      == Sign(p.side) * (100 * price - p.stop) <= 0
HitTarget(p, price, k) == Sign(p.side) * (100 * price - Target(p, k)) >= 0

(* The quantity of a target: the first is taken as it is, the second up to *)
(* what is left, the third is what is left.                                *)
Quantity(p, k) ==
  LET share == Rounded(p.size * Share(k), 100) IN
    CASE k = 1 -> share
      [] k = 2 -> Min({share, p.left})
      [] k = 3 -> p.left

(* Mutant: the first target leaves the position as large as it was. *)
TakeProfitOnPaper(t, price, k) ==
  LET u == IF t.pos = NoPosition \/ k > Len(rules.tpLevels) THEN t
           ELSE IF k \in t.pos.taken \/ ~HitTarget(t.pos, price, k) THEN t
           ELSE LET qty == Quantity(t.pos, k) IN
                  CloseChunk(t, IF k = 3 THEN "close" ELSE "partial", price, qty, qty, <<"tp", k>>)
  IN  IF u = t THEN t ELSE [u EXCEPT !.pos = [t.pos EXCEPT !.taken = @ \cup {k}]]

TakeProfit(t, price, k) ==
  IF t.pos = NoPosition \/ k > Len(rules.tpLevels) THEN t
  ELSE IF k \in t.pos.taken \/ ~HitTarget(t.pos, price, k) THEN t
  ELSE LET qty == Quantity(t.pos, k)
           u   == CloseChunk(t, IF k = 3 THEN "close" ELSE "partial", price, qty, qty, <<"tp", k>>)
           v   == [u EXCEPT !.pos.taken = @ \cup {k},
                            !.pos.stop = IF k = 1 THEN 100 * t.pos.entry ELSE @]
       IN  IF k = 3 THEN Closed(v) ELSE v

(* With one or two targets the last one closes; what is left then is       *)
(* closed first, and the record shows what is left after that.             *)
AllTaken(t, price) ==
  LET n     == Len(rules.tpLevels)
      ended == \/ t.pos.left = 0
               \/ n <= 2 /\ 2 \in t.pos.taken
               \/ n <= 1 /\ 1 \in t.pos.taken
  IN  IF ~ended THEN t
      ELSE IF t.pos.left = 0 THEN Closed(t)
      ELSE Closed(CloseChunk(t, "close", price, t.pos.left, 0, <<"tp", n>>))

TimedOut(p, cs) == rules.timeStopBars > 0 /\ 1 \notin p.taken /\ Len(cs) - p.at >= rules.timeStopBars

(* A reverse engulfing closes a part and moves the stop to the entry.      *)
Reverses(p, cs) ==
  LET direction == EvaluateTimeframe(cs, rules.lookback) IN
    \/ p.side = "long"  /\ direction = "bearish"
    \/ p.side = "short" /\ direction = "bullish"

(* Mutant: the stop is set anew from the current price. *)
EmergencyExitReset(t, cs) ==
  LET qty == Rounded(t.pos.left * rules.exitClosePct, 100)
      u   == CloseChunk(t, "partial", Price(cs), qty, qty, <<"exit">>)
  IN  IF qty = 0 \/ ~Reverses(t.pos, cs) THEN t
      ELSE IF u.pos.left = 0 THEN Closed(u)
      ELSE [u EXCEPT !.pos.stop = StopLoss(Price(cs), t.pos.side)]

EmergencyExit(t, cs) ==
  LET qty == Rounded(t.pos.left * rules.exitClosePct, 100)
      u   == CloseChunk(t, IF qty >= t.pos.left THEN "close" ELSE "partial", Price(cs), qty, qty, <<"exit">>)
  IN  IF qty = 0 \/ ~Reverses(t.pos, cs) THEN t
      ELSE IF u.pos.left = 0 THEN Closed(u)
      ELSE [u EXCEPT !.pos.stop = 100 * t.pos.entry]

Tick(cs) ==
  LET price == Price(cs)
      t0    == [pos |-> pos, trades |-> trades, equity |-> equity]
      taken == TakeProfit(TakeProfit(TakeProfit(t0, price, 1), price, 2), price, 3)
      ended == IF taken.pos = NoPosition THEN taken ELSE AllTaken(taken, price)
  IN  IF HitStop(pos, price) THEN Closed(CloseChunk(t0, "close", price, pos.left, pos.left, <<"sl">>))
      ELSE IF ended.pos = NoPosition THEN ended
      ELSE IF TimedOut(ended.pos, cs)
           THEN Closed(CloseChunk(ended, "close", price, ended.pos.left, ended.pos.left, <<"time">>))
      ELSE EmergencyExit(ended, cs)

-----------------------------------------------------------------------------
(* An entry                                                                *)

SideOf(direction) == IF direction = "bullish" THEN "long" ELSE "short"

Question(side, triple, cs) ==
  [side |-> side, regimeCandles |-> cs, entryCandles |-> cs, triple |-> triple,
   lockout |-> FALSE, adxMin |-> rules.gate.adxMin, minQuarters |-> rules.gate.minQuarters,
   minRr |-> 0, entry |-> Price(cs), stop |-> 0, targets |-> <<>>]

Verdict(side, triple, cs) == EvaluateSignalQuality(Question(side, triple, cs))

(* Bias, equity, size and the quality gate, in this order.                 *)
Accepted(side, triple, cs) ==
  /\ SideAllowed(side)
  /\ equity > 0 /\ SizeFromRules(Price(cs)) > 0
  /\ rules.gate.on => Verdict(side, triple, cs) = "ok"

Entered(side, reason, cs) ==
  LET size == SizeFromRules(Price(cs))
      p    == [id |-> Opened + 1, side |-> side, entry |-> Price(cs), size |-> size, left |-> size,
               stop |-> StopLoss(Price(cs), side), taken |-> {}, at |-> Len(cs)]
  IN  /\ pos' = p
      /\ trades' = Append(trades, Record(p, "open", Price(cs), size, size, 0, reason))

FvgZone(cs) == EvaluateFvg(cs, Price(cs), rules.fvg, <<>>, <<>>)

(* A rejected engulfing signal ends the event; a rejected FVG does not     *)
(* matter any more, being the last to be looked at.                        *)
Engulfing(cs) ==
  LET direction == EvaluateTimeframe(cs, rules.lookback)
      side      == SideOf(direction)
  IN  /\ direction # "none"
      /\ \/ Accepted(side, <<>>, cs) /\ Entered(side, <<"engulfing">>, cs) /\ UNCHANGED rejected
         \/ ~Accepted(side, <<>>, cs) /\ rejected' = rejected + 1 /\ UNCHANGED <<pos, trades>>

Fvg(cs) ==
  LET zone   == FvgZone(cs)
      side   == SideOf(zone.direction)
      triple == SubSeq(cs, zone.completed - 2, zone.completed)
  IN  /\ EvaluateTimeframe(cs, rules.lookback) = "none"
      /\ zone # NoZone
      /\ \/ Accepted(side, triple, cs) /\ Entered(side, <<"fvg">>, cs) /\ UNCHANGED rejected
         \/ ~Accepted(side, triple, cs) /\ rejected' = rejected + 1 /\ UNCHANGED <<pos, trades>>

NoEntry(cs) ==
  /\ EvaluateTimeframe(cs, rules.lookback) = "none" /\ FvgZone(cs) = NoZone
  /\ UNCHANGED <<pos, trades, rejected>>

-----------------------------------------------------------------------------
Appends(c) == candles' = Append(candles, c) /\ UNCHANGED <<rules, done>>
Running    == ~done /\ Len(candles) < MaxCandles

(* The first two candles are history only.                                 *)
History(c) ==
  /\ Running /\ Len(candles) < 2
  /\ Appends(c)
  /\ UNCHANGED <<pos, trades, equity, rejected>>

Held(c) ==
  /\ Running /\ Len(candles) >= 2 /\ Open
  /\ Appends(c)
  /\ LET t == Tick(candles') IN pos' = t.pos /\ trades' = t.trades /\ equity' = t.equity
  /\ UNCHANGED rejected

Flat(c) ==
  /\ Running /\ Len(candles) >= 2 /\ ~Open
  /\ Appends(c)
  /\ Engulfing(candles') \/ Fvg(candles') \/ NoEntry(candles')
  /\ UNCHANGED equity

(* At the end of the range what is open is closed at the last price.       *)
End ==
  /\ ~done /\ candles # <<>> /\ done' = TRUE
  /\ IF Open
     THEN LET t == CloseChunk([pos |-> pos, trades |-> trades, equity |-> equity], "close",
                              Price(candles), pos.left, pos.left, <<"end">>)
          IN  pos' = NoPosition /\ trades' = t.trades /\ equity' = t.equity
     ELSE UNCHANGED <<pos, trades, equity>>
  /\ UNCHANGED <<rules, candles, rejected>>

Next == (\E c \in Shapes : History(c) \/ Held(c) \/ Flat(c)) \/ End

Spec == Init /\ [][Next]_vars
=============================================================================
