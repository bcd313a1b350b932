--------------------------- MODULE ResearchReports ---------------------------
(***************************************************************************)
(* What core/experimentGovernance.ts and the optimizer make of backtests:  *)
(* the schedule of windows, summaries, breakdowns, pruning and acceptance. *)
(* Money is whole; percentages are left as fractions of whole numbers.     *)
(***************************************************************************)
EXTENDS Integers, FiniteSets, Sequences, SequencesExt, FiniteSetsExt

LOCAL Over(S, Value(_)) == FoldSet(LAMBDA x, sum : sum + Value(x), 0, S)

-----------------------------------------------------------------------------
(* buildRollingWindowSchedule.  Times are counted in parts of a month,     *)
(* Parts of them; the first window starts with the month the range starts  *)
(* in.  A range too short for one window is one test without training.     *)

WindowAt(start, train, test) ==
  [trainFrom |-> start, testFrom |-> start + train, testTo |-> start + train + test]

(* Mutant: a test that ends with the range does not fit. *)
BuildRollingWindowScheduleShort(from, to, train, test, step, parts) ==
  LET anchor  == (from \div parts) * parts
      At(i)   == WindowAt(anchor + (i - 1) * step * parts, train * parts, test * parts)
      fitting == {i \in 1 .. to + 1 : At(i).testTo < to}
  IN  IF fitting = {} THEN <<[trainFrom |-> from, testFrom |-> from, testTo |-> to]>>
      ELSE [i \in 1 .. Cardinality(fitting) |-> At(i)]

BuildRollingWindowSchedule(from, to, train, test, step, parts) ==
  LET anchor  == (from \div parts) * parts
      At(i)   == WindowAt(anchor + (i - 1) * step * parts, train * parts, test * parts)
      fitting == {i \in 1 .. to + 1 : At(i).testTo <= to}
  IN  IF fitting = {} THEN <<[trainFrom |-> from, testFrom |-> from, testTo |-> to]>>
      ELSE [i \in 1 .. Cardinality(fitting) |-> At(i)]

(* A candle as long as a part is traded in the test of window w: its        *)
(* opening lies in the slice from the training to the end of the test, its  *)
(* close in the timeline of the test, and both ends belong to them.         *)
Trades(w, close) == close - 1 \in w.trainFrom .. w.testTo /\ close \in w.testFrom .. w.testTo

-----------------------------------------------------------------------------
(* Trades: [id, action, pnl, reason], the reason of an opening being the   *)
(* setup it came from.                                                     *)

OpenedIds(trades) == {trades[i].id : i \in {j \in DOMAIN trades : trades[j].action = "open"}}
SetupOf(trades, id) ==
  LET i == CHOOSE j \in DOMAIN trades : trades[j].id = id /\ trades[j].action = "open"
  IN  trades[i].reason[1]
ChunksOf(trades, id) == {i \in DOMAIN trades : trades[i].id = id /\ trades[i].action # "open"}
NetOf(trades, id) == Over(ChunksOf(trades, id), LAMBDA i : trades[i].pnl)

(* Mutant: every chunk counts as a trade. *)
BreakdownByChunk(trades) ==
  {LET ids == {id \in OpenedIds(trades) : SetupOf(trades, id) = setup} IN
     [setup |-> setup, tradeCount |-> Cardinality(UNION {ChunksOf(trades, id) : id \in ids}),
      wins |-> Cardinality({i \in DOMAIN trades : trades[i].id \in ids /\ trades[i].pnl > 0}),
      losses |-> Cardinality({i \in DOMAIN trades : trades[i].id \in ids /\ trades[i].action # "open"
                                                     /\ trades[i].pnl <= 0}),
      netPnl |-> Over(ids, LAMBDA id : NetOf(trades, id))] :
     setup \in {SetupOf(trades, id) : id \in OpenedIds(trades)}}

(* summarizeBacktestTradeBreakdown: a row for each setup.                  *)
SummarizeBacktestTradeBreakdown(trades) ==
  {LET ids == {id \in OpenedIds(trades) : SetupOf(trades, id) = setup} IN
     [setup |-> setup, tradeCount |-> Cardinality(ids),
      wins |-> Cardinality({id \in ids : NetOf(trades, id) > 0}),
      losses |-> Cardinality({id \in ids : NetOf(trades, id) <= 0}),
      netPnl |-> Over(ids, LAMBDA id : NetOf(trades, id))] :
     setup \in {SetupOf(trades, id) : id \in OpenedIds(trades)}}

-----------------------------------------------------------------------------
(* Summaries: [trades, wins, netPnl, drawdown]                             *)

CombineSummaries(ws) ==
  LET Sum(Value(_)) == Over(DOMAIN ws, LAMBDA i : Value(ws[i])) IN
    [trades   |-> Sum(LAMBDA w : w.trades),
     wins     |-> Sum(LAMBDA w : w.wins),
     netPnl   |-> Sum(LAMBDA w : w.netPnl),
     drawdown |-> Max({0} \cup {ws[i].drawdown : i \in DOMAIN ws})]

(* Profit per trade, and the part of trades won, against a bound.          *)
ExpectancyBelow(s, bound) == s.netPnl < bound * s.trades \/ (s.trades = 0 /\ 0 < bound)
WinRateBelow(s, pct)      == 100 * s.wins < pct * s.trades \/ (s.trades = 0 /\ 0 < pct)

(* shouldEarlyPruneTrial, after each window *)
ShouldEarlyPruneTrial(criteria, latest) ==
  ExpectancyBelow(latest, criteria.minExpectancy) \/ latest.drawdown > criteria.maxDrawdown

(* evaluateChampionAcceptance: nothing to note *)
EvaluateChampionAcceptance(criteria, metrics, ws) ==
  /\ metrics.trades >= criteria.minTrades
  /\ ~ExpectancyBelow(metrics, criteria.minExpectancy)
  /\ ~WinRateBelow(metrics, criteria.minWinRate)
  /\ metrics.drawdown <= criteria.maxDrawdown
  /\ Cardinality({i \in DOMAIN ws : ws[i].netPnl < 0}) <= criteria.maxNegative
=============================================================================
