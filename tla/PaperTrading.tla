---------------------------- MODULE PaperTrading ----------------------------
(***************************************************************************)
(* The paper engine on one symbol: core/simulation.ts with the signals of  *)
(* core/strategyAdapter.ts, the bias commands of core/services.ts and the  *)
(* chained log of core/tradeEvents.ts.  Prices are whole cents, to which   *)
(* round2 rounds; time is counted in buckets of five minutes.              *)
(***************************************************************************)
EXTENDS Integers, FiniteSets, Sequences, SequencesExt, FiniteSetsExt

CONSTANTS
  Prices,                (* of a tick                                       *)
  Lookback,              (* candles that are swept (30)                     *)
  MinTicks, MinCandles,  (* for a signal (40 and 33)                        *)
  Size,                  (* of a paper position                             *)
  MaxTicks, MaxCommands, (* bounds; the first command comes within MaxWait  *)
  MaxWait, MaxRepeats    (* ticks, MaxRepeats ticks come in an old bucket   *)

VARIABLES
  ticks,      (* marketTicks: [price, at], at counts buckets                *)
  commands,   (* biasCommands, the last one counts                          *)
  positions,  (* by id                                                      *)
  tradeLogs,  (* [action, id, qty, pnl]                                     *)
  events      (* tradeEvents: [seq, prev, type, id, qty]; prev stands for   *)
              (* the hash of the event before, 0 for none                   *)

vars == <<ticks, commands, positions, tradeLogs, events>>

Init ==
  /\ ticks = <<>> /\ commands = <<>> /\ positions = <<>> /\ tradeLogs = <<>> /\ events = <<>>

Now(history) == IF history = <<>> THEN 0 ELSE Last(history).at
Bias         == IF commands = <<>> THEN "off" ELSE Last(commands)
IsOpen(p)    == p.status = "open"

-----------------------------------------------------------------------------
(* Signals                                                                 *)

(* The candles of n five-minute buckets each, without the last.            *)
BuildCandles(history, n) ==
  LET In(b)   == SelectSeq(history, LAMBDA t : t.at \div n = b)
      Of(b)   == LET ts == In(b) IN
                   [open |-> ts[1].price, close |-> Last(ts).price,
                    high |-> Max({ts[i].price : i \in DOMAIN ts}),
                    low  |-> Min({ts[i].price : i \in DOMAIN ts})]
      sorted  == SelectSeq([b \in 1 .. Now(history) \div n + 1 |-> b - 1], LAMBDA b : In(b) # <<>>)
  IN  IF Len(sorted) <= 1 THEN <<>> ELSE [i \in 1 .. Len(sorted) - 1 |-> Of(sorted[i])]

(* The candle before the last sweeps the extreme of those before it, and   *)
(* the last closes beyond its open, the other way.                         *)
CheckTrigger(cs, side) ==
  LET n       == Len(cs)
      swept   == cs[n - 1]
      history == {cs[i] : i \in n - 1 - Lookback .. n - 2}
  IN  /\ n >= MinCandles
      /\ IF side = "short"
         THEN swept.high > Max({c.high : c \in history}) /\ cs[n].close < swept.open
         ELSE swept.low < Min({c.low : c \in history}) /\ cs[n].close > swept.open

ShouldOpen(history) ==
  /\ Bias # "off"
  /\ Len(history) >= MinTicks
  /\ CheckTrigger(BuildCandles(history, 1), Bias) \/ CheckTrigger(BuildCandles(history, 3), Bias)

-----------------------------------------------------------------------------
(* One step of the simulation: w is the world as it changes.               *)

AppendTradeEvent(w, type, id, qty) ==
  [w EXCEPT !.events = Append(@, [seq  |-> IF @ = <<>> THEN 1 ELSE Last(@).seq + 1,
                                  prev |-> Len(@), type |-> type, id |-> id, qty |-> qty])]

PushLog(w, action, id, qty, pnl) ==
  [w EXCEPT !.tradeLogs = Append(@, [action |-> action, id |-> id, qty |-> qty, pnl |-> pnl])]

Sign(side) == IF side = "long" THEN 1 ELSE -1
Diff(p, price) == Sign(p.side) * (price - p.entry)

(* price changed by so many hundredths of a percent, to the cent.          *)
Round2(price, tenthousandths) == (2 * price * (10000 + tenthousandths) + 10000) \div 20000

OpenPosition(w, price) ==
  LET sign == Sign(Bias)
      p    == [side |-> Bias, entry |-> price, left |-> Size, status |-> "open", realized |-> 0, pnl |-> 0,
               stop |-> Round2(price, -70 * sign), tp |-> <<Round2(price, 70 * sign),
               Round2(price, 154 * sign), Round2(price, 266 * sign)>>, taken |-> {}]
      id   == Len(w.positions) + 1
      w1   == AppendTradeEvent(w, "order_submitted", 0, Size)
      w2   == PushLog([w1 EXCEPT !.positions = Append(@, p)], "open", id, Size, 0)
  IN  AppendTradeEvent(w2, "order_acknowledged", id, Size)

(* A chunk is closed and recorded.                                         *)
CloseChunk(w, id, price, qty, action, type) ==
  LET pnl == Diff(w.positions[id], price) * qty
      w1  == [w EXCEPT !.positions[id].realized = @ + pnl, !.positions[id].left = Max({0, @ - qty})]
  IN  AppendTradeEvent(PushLog(w1, action, id, qty, pnl), type, id, qty)

Close(w, id) ==
  [w EXCEPT !.positions[id].status = "closed", !.positions[id].pnl = w.positions[id].realized]

HitStop(p, price)  == Diff([p EXCEPT !.entry = p.stop], price) <= 0
Hit(p, price, k)   == k \notin p.taken /\ Diff([p EXCEPT !.entry = p.tp[k]], price) >= 0

(* Mutant: the last target leaves the position open, with nothing left. *)
TakeProfitStaysOpen(w, id, price, k) ==
  LET p   == w.positions[id]
      qty == CASE k = 1 -> (34 * Size) \div 100
               [] k = 2 -> Min({(33 * Size) \div 100, p.left})
               [] k = 3 -> p.left
      w1  == CloseChunk(w, id, price, qty, IF k = 3 THEN "close" ELSE "partial",
                        IF k = 3 THEN "position_closed" ELSE "partial_fill")
  IN  IF ~Hit(p, price, k) THEN w
      ELSE [w1 EXCEPT !.positions[id].taken = @ \cup {k},
                      !.positions[id].stop = IF k = 1 THEN p.entry ELSE @]

TakeProfit(w, id, price, k) ==
  LET p   == w.positions[id]
      qty == CASE k = 1 -> (34 * Size) \div 100
               [] k = 2 -> Min({(33 * Size) \div 100, p.left})
               [] k = 3 -> p.left
      w1  == CloseChunk(w, id, price, qty, IF k = 3 THEN "close" ELSE "partial",
                        IF k = 3 THEN "position_closed" ELSE "partial_fill")
      w2  == [w1 EXCEPT !.positions[id].taken = @ \cup {k},
                        !.positions[id].stop = IF k = 1 THEN p.entry ELSE @]
  IN  IF ~Hit(p, price, k) THEN w ELSE IF k = 3 THEN Close(w2, id) ELSE w2

(* What is left is valued at the price; nothing left closes the position.  *)
Valued(w, id, price) ==
  LET p == w.positions[id] IN
    IF ~IsOpen(p) THEN w
    ELSE IF p.left = 0 THEN AppendTradeEvent(Close(w, id), "position_closed", id, 0)
    ELSE [w EXCEPT !.positions[id].pnl = p.realized + Diff(p, price) * p.left]

Settle(w, id, price) ==
  LET p == w.positions[id] IN
    IF ~IsOpen(p) \/ p.left = 0 THEN w
    ELSE IF HitStop(p, price)
         THEN Close(CloseChunk(w, id, price, p.left, "close", "position_closed"), id)
    ELSE Valued(TakeProfit(TakeProfit(TakeProfit(w, id, price, 1), id, price, 2), id, price, 3), id, price)

Step(price, history) ==
  LET w0     == [positions |-> positions, tradeLogs |-> tradeLogs, events |-> events]
      signal == ShouldOpen(history)
      open   == \E id \in DOMAIN positions : IsOpen(positions[id])
      w1     == IF signal THEN AppendTradeEvent(w0, "signal_detected", 0, 0) ELSE w0
      w2     == CASE signal /\ open  -> AppendTradeEvent(w1, "order_rejected", 0, 0)
                  [] signal /\ ~open -> OpenPosition(w1, price)
                  [] OTHER -> w1
  IN  FoldLeft(LAMBDA w, id : Settle(w, id, price), w2, [id \in 1 .. Len(w2.positions) |-> id])

-----------------------------------------------------------------------------
(* runSimulationStep: a tick arrives in the current bucket or a later one. *)
RunSimulationStep(price, later) ==
  /\ Len(ticks) < MaxTicks /\ (commands = <<>> => Len(ticks) < MaxWait)
  /\ later = 0 => Len(ticks) - Now(ticks) < MaxRepeats
  /\ ticks' = Append(ticks, [price |-> price, at |-> Now(ticks) + later])
  /\ LET w == Step(price, ticks') IN
       positions' = w.positions /\ tradeLogs' = w.tradeLogs /\ events' = w.events
  /\ UNCHANGED commands

(* submitBias *)
SubmitBias(bias) ==
  /\ Len(commands) < MaxCommands
  /\ commands' = Append(commands, bias)
  /\ LET w == AppendTradeEvent(PushLog([positions |-> positions, tradeLogs |-> tradeLogs, events |-> events],
                                       "bias", 0, 0, 0), "bias_changed", 0, 0)
     IN  tradeLogs' = w.tradeLogs /\ events' = w.events
  /\ UNCHANGED <<ticks, positions>>

Next ==
  \/ \E price \in Prices, later \in 0 .. 1 : RunSimulationStep(price, later)
  \/ \E bias \in {"long", "short"} : SubmitBias(bias)

Spec == Init /\ [][Next]_vars

-----------------------------------------------------------------------------
(* What the replay and the statistics report                               *)

SumOver(S, Value(_)) == FoldSet(LAMBDA id, sum : sum + Value(id), 0, S)
ClosedIds   == {id \in DOMAIN positions : ~IsOpen(positions[id])}
RealizedPnl == SumOver(ClosedIds, LAMBDA id : positions[id].pnl)
OpenPnl     == SumOver(DOMAIN positions \ ClosedIds, LAMBDA id : positions[id].pnl)
NetPnl      == RealizedPnl + OpenPnl
Wins        == Cardinality({id \in ClosedIds : positions[id].pnl > 0})

-----------------------------------------------------------------------------
(* Properties                                                              *)

Chunks(id) == {i \in DOMAIN tradeLogs : tradeLogs[i].id = id /\ tradeLogs[i].action \in {"partial", "close"}}
EventsOf(id, types) == {i \in DOMAIN events : events[i].id = id /\ events[i].type \in types}

(* Positions, trade logs and the event chain are three accounts of the     *)
(* same trades, written piece by piece in every branch: they agree on what *)
(* has been closed and at which profit, a position is closed once, after   *)
(* everything else that happened to it, and at most one is open.           *)
AccountsAgree ==
  /\ \A id \in DOMAIN positions :
       LET p      == positions[id]
           closed == EventsOf(id, {"position_closed"})
           fills  == EventsOf(id, {"partial_fill", "position_closed"})
       IN  /\ SumOver(Chunks(id), LAMBDA i : tradeLogs[i].qty) = Size - p.left
           /\ SumOver(Chunks(id), LAMBDA i : tradeLogs[i].pnl) = p.realized
           /\ SumOver(fills, LAMBDA i : events[i].qty) = Size - p.left
           /\ Cardinality(closed) = IF IsOpen(p) THEN 0 ELSE 1
           /\ \A c \in closed, i \in EventsOf(id, {"order_acknowledged", "partial_fill"}) : i < c
           /\ ~IsOpen(p) => p.left = 0
           /\ p.pnl = p.realized + (IF IsOpen(p) THEN Diff(p, Last(ticks).price) * p.left ELSE 0)
  /\ Cardinality(DOMAIN positions \ ClosedIds) <= 1
  /\ \A i \in DOMAIN events : events[i].seq = i /\ events[i].prev = i - 1

(* simulation.ts:8: "0.70%" is the distance of the stop.  A position is    *)
(* not stopped out by the very price it was opened at.  Does not hold for  *)
(* prices below 72 cents: the stop, to the cent, is the entry.             *)
SurvivesOpening ==
  \A id \in ClosedIds : \E i \in Chunks(id) : tradeLogs[i].pnl # 0 \/ 1 \in positions[id].taken
=============================================================================
