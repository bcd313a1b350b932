-------------------------- MODULE StrategyMonitors --------------------------
(***************************************************************************)
(* The engulfing and the FVG monitor (server/index.ts 4781-5895) on one    *)
(* symbol: two timers that each read positions and prices once, then walk  *)
(* through the timeframes with awaits in between, place or queue entries   *)
(* while the symbol was flat, and exit on a reverse signal while it was    *)
(* not.  The account goes on changing meanwhile.                           *)
(*                                                                         *)
(* Whether candles hold a signal, whether bias, signal-quality gate, radar *)
(* policy, sizing and risk gates let it pass, and whether orders are       *)
(* confirmed by hand are choices here; SignalEvaluators, OrderRoutes and   *)
(* DrawdownWatchdog are about those.                                       *)
(***************************************************************************)
EXTENDS Naturals, Sequences, Functions

CONSTANTS
  Sides, None, (* "buy" and "sell" (a position has the side it was opened   *)
              (* with), and neither                                         *)
  Monitors,   (* "engulfing" and "fvg"                                      *)
  EntryTfs, ExitTfs,  (* timeframes, in the order they are walked through   *)
  Lot,        (* size of an entry                                           *)
  MaxSize,    (* bound: size of the position                                *)
  MaxOrders,  (* bound: entry orders                                        *)
  MaxBar,     (* bound: candles                                             *)
  MaxFaults   (* bound: failed calls, lost answers, restarts                *)

ASSUME MonitorsAssumption ==
  /\ None \notin Sides /\ \E s, r \in Sides : s # r /\ Sides = {s, r}
  /\ Monitors \subseteq {"engulfing", "fvg"}
  /\ Lot \in Nat \ {0} /\ MaxSize \in Nat /\ MaxOrders \in Nat /\ MaxBar \in Nat /\ MaxFaults \in Nat

Other(side) == CHOOSE s \in Sides : s # side
Flat  == [side |-> None, size |-> 0]

VARIABLES
  pos,      (* the position: the side that opened it, and its size          *)
  resting,  (* entry orders on the book, by side                            *)
  stops,    (* stop orders, by the side they close with                     *)
  bar,      (* the current candle                                           *)
  fired,    (* lastEntrySignalAt, lastFvgSignalAt: the candle, by monitor   *)
  exited,   (* lastEmergencyExitSignalAt: the candle                        *)
  mon,      (* the ticks of the monitors                                    *)
  ordered,  (* ghost: entry orders by monitor, timeframe, side and candle   *)
  exits,    (* ghost: exits carried out, by timeframe, side and candle      *)
  bare,     (* ghost: a failure that may leave the position without a stop  *)
  restarts, faults

market == <<pos, resting, stops>>
ghosts == <<ordered, exits, bare>>
vars   == <<market, bar, fired, exited, mon, ghosts, restarts, faults>>

Tfs   == {EntryTfs[i] : i \in DOMAIN EntryTfs} \cup {ExitTfs[i] : i \in DOMAIN ExitTfs}
Bars  == 1 .. MaxBar
(* A tick: where it is, the position and the candle it has read, the       *)
(* timeframes left to look at, the side of its signal.                     *)
Tick(pc, snap, now, todo, side) ==
  [pc |-> pc, snap |-> snap, now |-> now, todo |-> todo, side |-> side]
Idle == Tick("idle", Flat, 1, <<>>, None)

Init ==
  /\ pos = Flat /\ resting = [s \in Sides |-> 0] /\ stops = [s \in Sides |-> 0]
  /\ bar = 1
  /\ fired = [k \in Monitors \X Tfs \X Sides |-> 0]
  /\ exited = [k \in Tfs \X Sides |-> 0]
  /\ mon = [m \in Monitors |-> Idle]
  /\ ordered = [k \in Monitors \X Tfs \X Sides \X Bars |-> 0]
  /\ exits = [k \in Tfs \X Sides \X Bars |-> 0]
  /\ bare = FALSE /\ restarts = 0 /\ faults = 0

Fault == faults < MaxFaults /\ faults' = faults + 1

Goes(m, pc) == mon' = [mon EXCEPT ![m].pc = pc]
Turns(m, pc, side) == mon' = [mon EXCEPT ![m].pc = pc, ![m].side = side]
(* The next timeframe, if there is one.                                    *)
Onward(tick) ==
  IF Len(tick.todo) <= 1 THEN Idle
  ELSE Tick(IF tick.pc = "exit" THEN "exit" ELSE "entry", tick.snap, tick.now, Tail(tick.todo), tick.side)
Continues(m) == mon' = [mon EXCEPT ![m] = Onward(@)]
Tf(m) == Head(mon[m].todo)

-----------------------------------------------------------------------------
(* A tick: rules, positions, prices and the operator's bias are read once. *)
(* With no position it looks for entries; with one, the symbol's           *)
(* confirmation is cleared (PendingConfirmation) and the engulfing monitor *)
(* looks for exits.                                                        *)
TickStart(m) ==
  /\ mon[m].pc = "idle"
  /\ mon' = [mon EXCEPT ![m] =
                IF pos.side = None
                THEN Tick("entry", Flat, bar, EntryTfs, None)
                ELSE IF m = "engulfing"
                THEN Tick("exit", pos, bar, ExitTfs, None)
                ELSE Idle]
  /\ UNCHANGED <<market, bar, fired, exited, ghosts, restarts, faults>>

-----------------------------------------------------------------------------
(* Entries                                                                 *)

(* Mutant: one debounce for both directions. *)
FreshAnySide(m, side) == \E s \in Sides : fired[<<m, Tf(m), s>>] < mon[m].now

Fresh(m, side) == fired[<<m, Tf(m), side>>] < mon[m].now

(* No signal, no candles, no price, blocked by the bias, or one that fired *)
(* within this candle.                                                     *)
NoEntry(m) ==
  /\ mon[m].pc = "entry"
  /\ Continues(m)
  /\ UNCHANGED <<market, bar, fired, exited, ghosts, restarts, faults>>

(* The debounce is set before the signal-quality gate is asked.            *)
Signal(m, side) ==
  /\ mon[m].pc = "entry"
  /\ Fresh(m, side)
  /\ fired' = [fired EXCEPT ![<<m, Tf(m), side>>] = mon[m].now]
  /\ Turns(m, "gates", side)
  /\ UNCHANGED <<market, bar, exited, ghosts, restarts, faults>>

(* Quality, policy, sizing, risk or gross cap reject: next timeframe.      *)
Rejected(m) ==
  /\ mon[m].pc = "gates"
  /\ Continues(m)
  /\ UNCHANGED <<market, bar, fired, exited, ghosts, restarts, faults>>

(* Manual mode: a confirmation is queued (PendingConfirmation), or refused *)
(* when the bias forbids it by now; either way the symbol is done.         *)
Queue(m) ==
  /\ mon[m].pc = "gates"
  /\ mon' = [mon EXCEPT ![m] = Idle]
  /\ UNCHANGED <<market, bar, fired, exited, ghosts, restarts, faults>>

Placed(m) ==
  /\ resting' = [resting EXCEPT ![mon[m].side] = @ + 1]
  /\ ordered' = [ordered EXCEPT ![<<m, Tf(m), mon[m].side, mon[m].now>>] = @ + 1]
Room == /\ pos.size + Lot * (SumFunction(resting) + 1) <= MaxSize
        /\ SumFunction(ordered) < MaxOrders

(* Automatic: the entry is placed; its stop follows in a call of its own.  *)
Order(m) ==
  /\ mon[m].pc = "gates" /\ Room
  /\ Placed(m)
  /\ Goes(m, "protect")
  /\ UNCHANGED <<pos, stops, bar, fired, exited, exits, bare, restarts, faults>>

(* The venue has the order and the call fails: it counts as rejected.      *)
OrderLost(m) ==
  /\ mon[m].pc = "gates" /\ Room /\ Fault
  /\ Placed(m)
  /\ bare' = TRUE
  /\ Continues(m)
  /\ UNCHANGED <<pos, stops, bar, fired, exited, exits, restarts>>

(* placeTpSlTriggerOrders: best effort.                                    *)
Protect(m) ==
  /\ mon[m].pc = "protect"
  /\ \/ stops' = [stops EXCEPT ![Other(mon[m].side)] = @ + 1] /\ UNCHANGED <<bare, faults>>
     \/ Fault /\ bare' = TRUE /\ UNCHANGED stops
  /\ mon' = [mon EXCEPT ![m] = Idle]
  /\ UNCHANGED <<pos, resting, bar, fired, exited, ordered, exits, restarts>>

-----------------------------------------------------------------------------
(* Exits of the engulfing monitor, for the position it has read            *)

(* Mutant: every tick exits anew on the same candle. *)
ExitEveryTick(m, pc) ==
  /\ mon[m].pc = "exit"
  /\ mon' = [mon EXCEPT ![m] = IF pc = "idle" THEN Idle ELSE [@ EXCEPT !.pc = pc, !.side = Other(mon[m].snap.side)]]
  /\ exits' = IF pc = "idle" THEN exits
              ELSE [exits EXCEPT ![<<Tf(m), Other(mon[m].snap.side), mon[m].now>>] = @ + 1]
  /\ UNCHANGED <<market, bar, fired, exited, ordered, bare, restarts, faults>>

NoExit(m) ==
  /\ mon[m].pc = "exit"
  /\ Continues(m)
  /\ UNCHANGED <<market, bar, fired, exited, ghosts, restarts, faults>>

(* A reverse signal, once per candle: exitClosePct is read afresh.         *)
Exit(m, pc) ==
  LET side == Other(mon[m].snap.side)
      k    == <<Tf(m), side>>
  IN  /\ mon[m].pc = "exit"
      /\ exited[k] < mon[m].now
      /\ exited' = [exited EXCEPT ![k] = mon[m].now]
      /\ IF pc = "idle" THEN mon' = [mon EXCEPT ![m] = Idle] ELSE Turns(m, pc, side)
      /\ exits' = IF pc = "idle" THEN exits
                  ELSE [exits EXCEPT ![<<Tf(m), side, mon[m].now>>] = @ + 1]
      /\ UNCHANGED <<market, bar, fired, ordered, bare, restarts, faults>>

ClosedBy(size) ==
  IF pos.size <= size THEN Flat ELSE [pos EXCEPT !.size = @ - size]
Half(size) == size \div 2

(* The part of the size that was read at the start is closed, reduce-only: *)
(* nothing to reduce, nothing to close or a failure is an error, and an    *)
(* error falls back to closing the symbol.                                 *)
Partial(m) ==
  LET size == Half(mon[m].snap.size) IN
  /\ mon[m].pc = "partial"
  /\ \/ /\ size > 0 /\ pos.side = Other(mon[m].side)
        /\ pos' = ClosedBy(size)
        /\ stops' = IF pos'.side = None THEN [s \in Sides |-> 0] ELSE stops
        /\ Goes(m, "stops")
        /\ UNCHANGED faults
     \/ /\ size = 0 \/ pos.side # Other(mon[m].side)
        /\ Goes(m, "full") /\ UNCHANGED <<pos, stops, faults>>
     \/ /\ Fault
        /\ Goes(m, "full") /\ UNCHANGED <<pos, stops>>
  /\ UNCHANGED <<resting, bar, fired, exited, ghosts, restarts>>

(* The old stops are cancelled; a failure to read or to cancel them is     *)
(* swallowed.                                                              *)
CancelStops(m) ==
  /\ mon[m].pc = "stops"
  /\ \/ stops' = [stops EXCEPT ![mon[m].side] = 0] /\ UNCHANGED faults
     \/ Fault /\ UNCHANGED stops
  /\ Goes(m, "be")
  /\ UNCHANGED <<pos, resting, bar, fired, exited, ghosts, restarts>>

(* Mutant: a break-even stop that is refused is only logged. *)
BreakEvenLogged(m) ==
  /\ mon[m].pc = "be"
  /\ \/ stops' = [stops EXCEPT ![mon[m].side] = @ + 1] /\ UNCHANGED faults
     \/ Fault /\ UNCHANGED stops
  /\ mon' = [mon EXCEPT ![m] = Idle]
  /\ UNCHANGED <<pos, resting, bar, fired, exited, ghosts, restarts>>

(* The break-even stop; when it is refused the symbol is closed.           *)
BreakEven(m) ==
  /\ mon[m].pc = "be"
  /\ \/ /\ pos.side = Other(mon[m].side)
        /\ stops' = [stops EXCEPT ![mon[m].side] = @ + 1]
        /\ mon' = [mon EXCEPT ![m] = Idle]
        /\ UNCHANGED faults
     \/ /\ pos.side # Other(mon[m].side)
        /\ Goes(m, "full") /\ UNCHANGED <<stops, faults>>
     \/ /\ Fault
        /\ Goes(m, "full") /\ UNCHANGED stops
  /\ UNCHANGED <<pos, resting, bar, fired, exited, ghosts, restarts>>

(* emergencyCloseSymbol: everything is cancelled (a failure is logged), ...*)
CancelAll(m) ==
  /\ mon[m].pc = "full"
  /\ \/ /\ resting' = [s \in Sides |-> 0] /\ stops' = [s \in Sides |-> 0]
        /\ UNCHANGED faults
     \/ Fault /\ UNCHANGED <<resting, stops>>
  /\ Goes(m, "close")
  /\ UNCHANGED <<pos, bar, fired, exited, ghosts, restarts>>

(* ... and four rounds of IOC orders close what there is; when they do not *)
(* fill, or the positions cannot be read, what is left is left.            *)
Close(m) ==
  /\ mon[m].pc = "close"
  /\ \/ /\ pos' = Flat /\ stops' = [s \in Sides |-> 0] /\ UNCHANGED <<bare, faults>>
     \/ Fault /\ bare' = TRUE /\ UNCHANGED <<pos, stops>>
  /\ mon' = [mon EXCEPT ![m] = Idle]
  /\ UNCHANGED <<resting, bar, fired, exited, ordered, exits, restarts>>

-----------------------------------------------------------------------------
(* The account, time                                                       *)

(* An entry fills: it adds to the position, or reduces one of the other    *)
(* side and opens what is left.  One that outlived its stop (the position  *)
(* of the other monitor's entry closed, and took every reduce-only order   *)
(* with it) opens without one.                                             *)
Fill(side) ==
  /\ resting[side] > 0
  /\ resting' = [resting EXCEPT ![side] = @ - 1]
  /\ pos' = IF pos.side \in {None, side} THEN [side |-> side, size |-> pos.size + Lot]
            ELSE IF pos.size > Lot THEN [pos EXCEPT !.size = @ - Lot]
            ELSE IF pos.size = Lot THEN Flat ELSE [side |-> side, size |-> Lot - pos.size]
  /\ bare' = (bare \/ (/\ stops[Other(side)] = 0
                       /\ \A m \in Monitors : ~(mon[m].pc = "protect" /\ mon[m].side = side)))
  /\ UNCHANGED <<stops, bar, fired, exited, mon, ordered, exits, restarts, faults>>

(* The position closes by its stop, a target or the owner's hand, and with *)
(* it go the orders that can only reduce it.                               *)
Closes ==
  /\ pos.side # None
  /\ pos' = Flat /\ stops' = [s \in Sides |-> 0]
  /\ UNCHANGED <<resting, bar, fired, exited, mon, ghosts, restarts, faults>>

NewBar ==
  /\ bar < MaxBar /\ bar' = bar + 1
  /\ UNCHANGED <<market, fired, exited, mon, ghosts, restarts, faults>>

(* The debounce is in memory only.                                         *)
Restart ==
  /\ Fault
  /\ restarts' = restarts + 1
  /\ fired' = [k \in Monitors \X Tfs \X Sides |-> 0]
  /\ exited' = [k \in Tfs \X Sides |-> 0]
  /\ mon' = [m \in Monitors |-> Idle]
  /\ bare' = TRUE
  /\ UNCHANGED <<market, bar, ordered, exits>>

Steps(m) ==
  \/ NoEntry(m) \/ \E side \in Sides : Signal(m, side)
  \/ Rejected(m) \/ Queue(m) \/ Order(m) \/ OrderLost(m) \/ Protect(m)
  \/ NoExit(m) \/ \E pc \in {"idle", "partial", "full"} : Exit(m, pc)
  \/ Partial(m) \/ CancelStops(m) \/ BreakEven(m) \/ CancelAll(m) \/ Close(m)

Next ==
  \/ \E m \in Monitors : TickStart(m) \/ Steps(m)
  \/ \E side \in Sides : Fill(side)
  \/ Closes \/ NewBar \/ Restart

Spec == Init /\ [][Next]_vars

-----------------------------------------------------------------------------
(* Properties                                                              *)

TypeOK ==
  /\ pos \in [side: Sides \cup {None}, size: 0 .. MaxSize]
  /\ \A s \in Sides : resting[s] \in Nat /\ stops[s] \in Nat
  /\ bar \in Bars
  /\ \A m \in Monitors : mon[m].now <= bar

(* However ticks, restarts and lost answers fall: a monitor places one     *)
(* entry per timeframe, direction and candle, and one more per restart     *)
(* (5290-5296, 5733-5737).                                                 *)
OneEntryPerCandle ==
  \A k \in DOMAIN ordered : ordered[k] <= 1 + restarts

(* "One-shot per closed engulfing candle: prevent repeated emergency exits *)
(* on every monitor tick for the same TF signal" (5393-5394).              *)
OneExitPerCandle ==
  \A k \in DOMAIN exits : exits[k] <= 1 + restarts

(* Both: a signal is acted on once.                                        *)
OneActPerCandle == OneEntryPerCandle /\ OneExitPerCandle

(* When no tick is under way, an open position has a stop, unless a call   *)
(* that has no fallback failed or the server restarted: the partial exit,  *)
(* which cancels stops before it places one, falls back to a full close    *)
(* (5460-5575).                                                            *)
Protected ==
  (\A m \in Monitors : mon[m].pc = "idle") /\ pos.side # None /\ ~bare
    => stops[Other(pos.side)] > 0

(* "Entry signals: detected on entryTimeframes[] when no open position"    *)
(* (5215): the entry is placed while the symbol is flat.                   *)
EntersWhileFlat ==
  [][\A m \in Monitors : Order(m) => pos.side = None /\ resting = [s \in Sides |-> 0]]_vars

(* "Guarantee exactly one SL after partial close: cancel old SL(s), then   *)
(* place BE SL" (5526).                                                    *)
OneStopAfterPartial ==
  [][\A m \in Monitors : mon[m].pc = "be" /\ mon'[m].pc = "idle" /\ stops' # stops
       => stops'[mon[m].side] = 1]_vars
=============================================================================
