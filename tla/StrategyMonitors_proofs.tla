---------------------- MODULE StrategyMonitors_proofs ----------------------
(***************************************************************************)
(* The monitors act once on a signal, and no exit leaves a position bare:  *)
(* for any timeframes, sizes, candles, failures and restarts.              *)
(***************************************************************************)
EXTENDS StrategyMonitors, TLAPS

EntryKeys == Monitors \X Tfs \X Sides
ExitKeys  == Tfs \X Sides

MonRec(k) == k = [pc |-> k.pc, snap |-> k.snap, now |-> k.now, todo |-> k.todo, side |-> k.side]

(* A tick knows the side that it works on, or that of the position it has  *)
(* read.                                                                   *)
Sided(tick) ==
  /\ tick.pc \in {"gates", "protect", "partial", "stops", "be"} => tick.side \in Sides
  /\ tick.pc = "exit" => tick.snap.side \in Sides

Typed ==
  /\ mon = [m \in Monitors |-> mon[m]]
  /\ \A m \in Monitors :
       /\ MonRec(mon[m])
       /\ mon[m].now \in Nat
       /\ Sided(mon[m])
  /\ pos.side \in Sides \cup {None} /\ pos = [side |-> pos.side, size |-> pos.size]
  /\ stops \in [Sides -> Nat]
  /\ bar \in Nat /\ restarts \in Nat
  /\ fired \in [EntryKeys -> Nat] /\ exited \in [ExitKeys -> Nat]
  /\ ordered \in [Monitors \X Tfs \X Sides \X Bars -> Nat]
  /\ exits \in [Tfs \X Sides \X Bars -> Nat]

(* A tick that has found a signal and not placed its entry yet.            *)
Deciding(m, t, s, b) ==
  mon[m].pc = "gates" /\ Head(mon[m].todo) = t /\ mon[m].side = s /\ mon[m].now = b

(* As long as the debounce has not reached a candle, nothing has been done *)
(* on it since the last restart; nor has it while a tick decides about it. *)
EntriesSpaced ==
  \A m \in Monitors, t \in Tfs, s \in Sides, b \in Bars :
    /\ ordered[<<m, t, s, b>>] <= 1 + restarts
    /\ fired[<<m, t, s>>] < b => ordered[<<m, t, s, b>>] <= restarts
    /\ Deciding(m, t, s, b) =>
         fired[<<m, t, s>>] = b /\ ordered[<<m, t, s, b>>] <= restarts

ExitsSpaced ==
  \A t \in Tfs, s \in Sides, b \in Bars :
    /\ exits[<<t, s, b>>] <= 1 + restarts
    /\ exited[<<t, s>>] < b => exits[<<t, s, b>>] <= restarts

(* Whoever has taken a position's stop away is on the way to another stop, *)
(* or to closing the position.                                             *)
Relieving(m)     == mon[m].pc \in {"be", "full", "close"}
Protecting(m, s) == mon[m].pc = "protect" /\ mon[m].side = s
Guarded(s) ==
  \/ stops[Other(s)] > 0
  \/ \E m \in Monitors : Relieving(m) \/ Protecting(m, s)
Covered == pos.side # None /\ ~bare => Guarded(pos.side)

IInv == Typed /\ EntriesSpaced /\ ExitsSpaced /\ Covered

LEMMA TwoSides ==
  /\ \A s \in Sides : Other(s) \in Sides /\ Other(s) # s /\ Other(Other(s)) = s
  /\ \A s, r \in Sides : r # s => r = Other(s)
  /\ None \notin Sides
<1>1. PICK a \in Sides, b \in Sides : a # b /\ Sides = {a, b}
  BY MonitorsAssumption
<1>2. Other(a) = b /\ Other(b) = a BY <1>1 DEF Other
<1>3. QED BY <1>1, <1>2, MonitorsAssumption

-----------------------------------------------------------------------------
(* What a step of a tick does to the ticks.                                *)
Moved(m) ==
  /\ mon' = [k \in Monitors |-> mon'[k]]
  /\ \A k \in Monitors : k # m => mon'[k] = mon[k]
  /\ MonRec(mon'[m])
  /\ mon'[m].now \in {1, bar, mon[m].now}

LEMMA SetMoves ==
  ASSUME Typed, NEW m \in Monitors, NEW W, mon' = [mon EXCEPT ![m] = W],
         MonRec(W), W.now \in {1, bar, mon[m].now}
  PROVE  Moved(m) /\ mon'[m] = W
<1>1. mon'[m] = W /\ \A k \in Monitors : k # m => mon'[k] = mon[k] BY DEF Typed
<1>2. mon' = [k \in Monitors |-> mon'[k]] BY DEF Typed
<1>3. QED BY <1>1, <1>2 DEF Moved

LEMMA IdleMoves ==
  ASSUME Typed, NEW m \in Monitors, mon' = [mon EXCEPT ![m] = Idle]
  PROVE  Moved(m) /\ mon'[m].pc = "idle"
<1>1. MonRec(Idle) /\ Idle.now = 1 /\ Idle.pc = "idle" BY DEF Idle, Tick, MonRec
<1>2. QED BY <1>1, SetMoves

LEMMA GoesMoves ==
  ASSUME Typed, NEW m \in Monitors, NEW pc, Goes(m, pc)
  PROVE  Moved(m) /\ mon'[m].pc = pc /\ mon'[m].side = mon[m].side
<1>1. PICK W : W = [mon[m] EXCEPT !.pc = pc] OBVIOUS
<1>2. mon' = [mon EXCEPT ![m] = W] BY <1>1 DEF Goes
<1>3. MonRec(W) /\ W.pc = pc /\ W.side = mon[m].side /\ W.now = mon[m].now
  BY <1>1 DEF Typed, MonRec
<1>4. QED BY <1>2, <1>3, SetMoves

LEMMA OnwardIs ==
  ASSUME NEW tick, MonRec(tick)
  PROVE  /\ MonRec(Onward(tick)) /\ Onward(tick).now \in {1, tick.now}
         /\ Onward(tick).pc \in {"idle", "entry", "exit"}
         /\ Sided(tick) => Sided(Onward(tick))
<1>1. CASE Len(tick.todo) <= 1
  <2>1. Onward(tick) = Idle BY <1>1 DEF Onward
  <2>2. QED BY <2>1 DEF Idle, Tick, MonRec, Sided
<1>2. CASE ~(Len(tick.todo) <= 1)
  <2>1. PICK pc \in {"exit", "entry"} :
          /\ pc = "exit" => tick.pc = "exit"
          /\ Onward(tick) = Tick(pc, tick.snap, tick.now, Tail(tick.todo), tick.side)
    BY <1>2 DEF Onward
  <2>2. QED BY <2>1 DEF Tick, MonRec, Sided
<1>3. QED BY <1>1, <1>2

LEMMA ContinuesMoves ==
  ASSUME Typed, NEW m \in Monitors, Continues(m)
  PROVE  Moved(m) /\ mon'[m].pc \in {"idle", "entry", "exit"} /\ Sided(mon'[m])
<1>1. PICK W : W = Onward(mon[m]) OBVIOUS
<1>2. mon' = [mon EXCEPT ![m] = W] BY <1>1 DEF Continues
<1>3. /\ MonRec(W) /\ W.now \in {1, mon[m].now}
      /\ W.pc \in {"idle", "entry", "exit"} /\ Sided(W)
  BY <1>1, OnwardIs DEF Typed
<1>4. QED BY <1>2, <1>3, SetMoves

(* A step that neither decides about an entry nor carries out an exit.     *)
LEMMA ActsFrame ==
  ASSUME Typed, EntriesSpaced, ExitsSpaced, NEW m \in Monitors, Moved(m),
         mon'[m].pc # "gates", UNCHANGED <<fired, exited, ordered, exits, restarts>>
  PROVE  EntriesSpaced' /\ ExitsSpaced'
<1>1. ASSUME NEW k \in Monitors, NEW t \in Tfs, NEW s \in Sides, NEW b \in Bars
      PROVE  Deciding(k, t, s, b)' => Deciding(k, t, s, b)
  BY <1>1 DEF Moved, Deciding
<1>2. EntriesSpaced'
  <2> SUFFICES ASSUME NEW k \in Monitors, NEW t \in Tfs, NEW s \in Sides, NEW b \in Bars
               PROVE  /\ ordered'[<<k, t, s, b>>] <= 1 + restarts'
                      /\ fired'[<<k, t, s>>] < b => ordered'[<<k, t, s, b>>] <= restarts'
                      /\ Deciding(k, t, s, b)' =>
                           fired'[<<k, t, s>>] = b /\ ordered'[<<k, t, s, b>>] <= restarts'
    BY Zenon DEF EntriesSpaced
  <2>1. QED BY <1>1 DEF EntriesSpaced
<1>3. ExitsSpaced' BY DEF ExitsSpaced
<1>4. QED BY <1>2, <1>3

LEMMA TypedFrame ==
  ASSUME Typed, NEW m \in Monitors, Moved(m),
         Sided(mon'[m]),
         pos'.side \in Sides \cup {None}, pos' = [side |-> pos'.side, size |-> pos'.size],
         stops' \in [Sides -> Nat], bar' = bar, restarts' = restarts,
         fired' \in [EntryKeys -> Nat], exited' \in [ExitKeys -> Nat],
         ordered' \in [Monitors \X Tfs \X Sides \X Bars -> Nat],
         exits' \in [Tfs \X Sides \X Bars -> Nat]
  PROVE  Typed'
<1>1. ASSUME NEW k \in Monitors
      PROVE  /\ MonRec(mon'[k]) /\ mon'[k].now \in Nat
             /\ Sided(mon'[k])
  <2>1. CASE k = m BY <2>1 DEF Moved, Typed
  <2>2. CASE k # m BY <2>2 DEF Moved, Typed
  <2>3. QED BY <2>1, <2>2
<1>2. mon' = [k \in Monitors |-> mon'[k]] BY DEF Moved
<1>3. QED BY <1>1, <1>2 DEF Typed, MonRec

(* A step that leaves the position, its stops and their guards.            *)
LEMMA CoveredFrame ==
  ASSUME Covered, NEW m \in Monitors, Moved(m), UNCHANGED <<pos, stops, bare>>,
         (~Relieving(m) /\ mon[m].pc # "protect") \/ Relieving(m)'
  PROVE  Covered'
<1> SUFFICES ASSUME pos.side # None, ~bare PROVE Guarded(pos.side)'
  BY DEF Covered, Guarded, Relieving, Protecting
<1>1. Guarded(pos.side) BY DEF Covered
<1>2. \A k \in Monitors : k # m => /\ Relieving(k) => Relieving(k)'
                                   /\ Protecting(k, pos.side) => Protecting(k, pos.side)'
  BY DEF Moved, Relieving, Protecting
<1>3. QED BY <1>1, <1>2 DEF Guarded, Protecting

(* A step of a tick that does nothing to the account and the records.      *)
LEMMA Quiet ==
  ASSUME IInv, NEW m \in Monitors, Moved(m),
         UNCHANGED <<pos, stops, bar, fired, exited, ordered, exits, bare, restarts>>,
         mon'[m].pc # "gates",
         Sided(mon'[m]),
         (~Relieving(m) /\ mon[m].pc # "protect") \/ Relieving(m)'
  PROVE  IInv'
<1>1. Typed' BY TypedFrame DEF IInv, Typed
<1>2. EntriesSpaced' /\ ExitsSpaced' BY ActsFrame DEF IInv
<1>3. Covered' BY CoveredFrame DEF IInv
<1>4. QED BY <1>1, <1>2, <1>3 DEF IInv
-----------------------------------------------------------------------------
(* The steps of a tick that only go on.                                    *)
LEMMA TickStartStep == ASSUME IInv, NEW m \in Monitors, TickStart(m) PROVE IInv'
<1>1. PICK W : /\ mon' = [mon EXCEPT ![m] = W]
               /\ MonRec(W) /\ W.now \in {1, bar} /\ W.pc \in {"idle", "entry", "exit"}
               /\ Sided(W)
  <2>1. CASE pos.side = None
    <3>1. PICK W : W = Tick("entry", Flat, bar, EntryTfs, None) OBVIOUS
    <3>2. mon' = [mon EXCEPT ![m] = W] BY <2>1, <3>1 DEF TickStart
    <3>3. MonRec(W) /\ W.now = bar /\ W.pc = "entry" BY <3>1 DEF Tick, MonRec
    <3>4. Sided(W) BY <3>3 DEF Sided
    <3>5. QED BY <3>2, <3>3, <3>4
  <2>2. CASE pos.side # None /\ m = "engulfing"
    <3>1. PICK W : W = Tick("exit", pos, bar, ExitTfs, None) OBVIOUS
    <3>2. mon' = [mon EXCEPT ![m] = W] BY <2>2, <3>1 DEF TickStart
    <3>3. MonRec(W) /\ W.now = bar /\ W.pc = "exit" /\ W.snap = pos BY <3>1 DEF Tick, MonRec
    <3>4. Sided(W) BY <2>2, <3>3 DEF Sided, IInv, Typed
    <3>5. QED BY <3>2, <3>3, <3>4
  <2>3. CASE pos.side # None /\ m # "engulfing"
    <3>1. mon' = [mon EXCEPT ![m] = Idle] BY <2>3 DEF TickStart
    <3>2. MonRec(Idle) /\ Idle.now = 1 /\ Idle.pc = "idle" /\ Sided(Idle)
      BY DEF Idle, Tick, MonRec, Sided
    <3>3. QED BY <3>1, <3>2
  <2>4. QED BY <2>1, <2>2, <2>3
<1>2. Moved(m) /\ mon'[m] = W BY <1>1, SetMoves DEF IInv
<1>3. QED BY <1>1, <1>2, Quiet DEF TickStart, market, ghosts, Relieving

LEMMA PassStep ==
  ASSUME IInv, NEW m \in Monitors, NoEntry(m) \/ Rejected(m) \/ NoExit(m)
  PROVE  IInv'
<1>1. Continues(m) /\ mon[m].pc \in {"entry", "gates", "exit"}
  BY DEF NoEntry, Rejected, NoExit
<1>2. UNCHANGED <<pos, stops, bar, fired, exited, ordered, exits, bare, restarts>>
  BY DEF NoEntry, Rejected, NoExit, market, ghosts
<1>3. Moved(m) /\ mon'[m].pc \in {"idle", "entry", "exit"} /\ Sided(mon'[m])
  BY <1>1, ContinuesMoves DEF IInv
<1>4. QED BY <1>1, <1>2, <1>3, Quiet DEF Relieving

LEMMA QueueStep == ASSUME IInv, NEW m \in Monitors, Queue(m) PROVE IInv'
<1>1. Moved(m) /\ mon'[m].pc = "idle" BY IdleMoves DEF Queue, IInv
<1>2. Sided(mon'[m]) BY <1>1 DEF Sided
<1>3. QED BY <1>1, <1>2, Quiet DEF Queue, market, ghosts, Relieving

-----------------------------------------------------------------------------
(* Entries.                                                                *)
LEMMA TurnsMoves ==
  ASSUME Typed, NEW m \in Monitors, NEW pc, NEW side, Turns(m, pc, side)
  PROVE  \E W : /\ mon' = [mon EXCEPT ![m] = W]
                /\ MonRec(W) /\ W.pc = pc /\ W.side = side
                /\ W.now = mon[m].now /\ W.todo = mon[m].todo
<1>1. PICK V : V = [mon[m] EXCEPT !.pc = pc] OBVIOUS
<1>2. PICK W : W = [V EXCEPT !.side = side] OBVIOUS
<1>3. MonRec(V) /\ V.pc = pc /\ V.now = mon[m].now /\ V.todo = mon[m].todo
  BY <1>1 DEF Typed, MonRec
<1>4. MonRec(W) /\ W.pc = pc /\ W.side = side /\ W.now = mon[m].now /\ W.todo = mon[m].todo
  BY <1>2, <1>3 DEF MonRec
<1>5. mon' = [mon EXCEPT ![m] = W] BY <1>1, <1>2 DEF Typed, Turns
<1>6. QED BY <1>4, <1>5

LEMMA SignalStep ==
  ASSUME IInv, NEW m \in Monitors, NEW side \in Sides, Signal(m, side) PROVE IInv'
<1>0. Typed /\ EntriesSpaced /\ ExitsSpaced /\ Covered BY DEF IInv
<1> DEFINE key == <<m, Tf(m), side>>
<1>1. PICK W : /\ mon' = [mon EXCEPT ![m] = W]
               /\ MonRec(W) /\ W.pc = "gates" /\ W.side = side
               /\ W.now = mon[m].now /\ W.todo = mon[m].todo
  <2>1. Turns(m, "gates", side) BY DEF Signal
  <2>2. QED BY <1>0, <2>1, TurnsMoves
<1>4. Moved(m) /\ mon'[m] = W BY <1>0, <1>1, SetMoves
<1>5. /\ mon[m].pc = "entry" /\ fired[key] < mon[m].now
      /\ fired' = [fired EXCEPT ![key] = mon[m].now]
      /\ UNCHANGED <<pos, resting, stops, bar, exited, ordered, exits, bare, restarts>>
  BY DEF Signal, Fresh, market, ghosts
<1>6. mon[m].now \in Nat BY <1>0 DEF Typed
<1>7. fired' \in [EntryKeys -> Nat] BY <1>0, <1>5, <1>6 DEF Typed
<1>8. Typed'
  <2>1. Sided(mon'[m]) BY <1>1, <1>4 DEF Sided
  <2>2. QED BY <1>0, <1>1, <1>4, <1>5, <1>7, <2>1, TypedFrame DEF Typed
<1>9. EntriesSpaced'
  <2> SUFFICES ASSUME NEW k \in Monitors, NEW t \in Tfs, NEW s \in Sides, NEW b \in Bars
               PROVE  /\ ordered'[<<k, t, s, b>>] <= 1 + restarts'
                      /\ fired'[<<k, t, s>>] < b => ordered'[<<k, t, s, b>>] <= restarts'
                      /\ Deciding(k, t, s, b)' =>
                           fired'[<<k, t, s>>] = b /\ ordered'[<<k, t, s, b>>] <= restarts'
    BY Zenon DEF EntriesSpaced
  <2>1. /\ ordered[<<k, t, s, b>>] <= 1 + restarts
        /\ fired[<<k, t, s>>] < b => ordered[<<k, t, s, b>>] <= restarts
        /\ Deciding(k, t, s, b) =>
             fired[<<k, t, s>>] = b /\ ordered[<<k, t, s, b>>] <= restarts
    BY <1>0 DEF EntriesSpaced
  <2>2. fired \in [EntryKeys -> Nat] /\ <<k, t, s>> \in EntryKeys BY <1>0 DEF Typed, EntryKeys
  <2>3. fired[<<k, t, s>>] \in Nat /\ b \in Nat BY <2>2, MonitorsAssumption DEF Bars
  <2>4. CASE <<k, t, s>> = key
    <3>1. fired'[<<k, t, s>>] = mon[m].now BY <1>5, <2>2, <2>4
    <3>2. Deciding(k, t, s, b)' => b = mon[m].now BY <1>1, <1>4, <2>4 DEF Deciding
    <3>3. QED BY <1>5, <1>6, <2>1, <2>3, <2>4, <3>1, <3>2
  <2>5. CASE <<k, t, s>> # key
    <3>1. fired'[<<k, t, s>>] = fired[<<k, t, s>>] BY <1>5, <2>2, <2>5
    <3>2. k = m => ~Deciding(k, t, s, b)' BY <1>1, <1>4, <2>5 DEF Deciding, Tf
    <3>3. k # m => (Deciding(k, t, s, b)' => Deciding(k, t, s, b)) BY <1>4 DEF Moved, Deciding
    <3>4. QED BY <1>5, <2>1, <3>1, <3>2, <3>3
  <2>6. QED BY <2>4, <2>5
<1>10. ExitsSpaced' BY <1>0, <1>5 DEF ExitsSpaced
<1>11. Covered' BY <1>0, <1>4, <1>5, CoveredFrame DEF Relieving
<1>12. QED BY <1>8, <1>9, <1>10, <1>11 DEF IInv

(* Placing the entry that a tick has decided about.                        *)
LEMMA PlacedSpaced ==
  ASSUME Typed, EntriesSpaced, NEW m \in Monitors, mon[m].pc = "gates", Placed(m),
         Moved(m), mon'[m].pc # "gates", UNCHANGED <<fired, restarts>>
  PROVE  EntriesSpaced' /\ ordered' \in [Monitors \X Tfs \X Sides \X Bars -> Nat]
<1> DEFINE key == <<m, Tf(m), mon[m].side, mon[m].now>>
<1>1. ordered' = [ordered EXCEPT ![key] = @ + 1] BY DEF Placed
<1>2. ordered \in [Monitors \X Tfs \X Sides \X Bars -> Nat] BY DEF Typed
<1>3. ordered' \in [Monitors \X Tfs \X Sides \X Bars -> Nat]
  <2>1. CASE key \in Monitors \X Tfs \X Sides \X Bars
    <3>1. ordered[key] + 1 \in Nat BY <1>2, <2>1
    <3>2. QED BY <1>1, <1>2, <3>1
  <2>2. CASE key \notin Monitors \X Tfs \X Sides \X Bars
    <3>1. ordered' = ordered BY <1>1, <1>2, <2>2
    <3>2. QED BY <1>2, <3>1
  <2>3. QED BY <2>1, <2>2
<1>4. EntriesSpaced'
  <2> SUFFICES ASSUME NEW k \in Monitors, NEW t \in Tfs, NEW s \in Sides, NEW b \in Bars
               PROVE  /\ ordered'[<<k, t, s, b>>] <= 1 + restarts'
                      /\ fired'[<<k, t, s>>] < b => ordered'[<<k, t, s, b>>] <= restarts'
                      /\ Deciding(k, t, s, b)' =>
                           fired'[<<k, t, s>>] = b /\ ordered'[<<k, t, s, b>>] <= restarts'
    BY Zenon DEF EntriesSpaced
  <2>1. /\ ordered[<<k, t, s, b>>] <= 1 + restarts
        /\ fired[<<k, t, s>>] < b => ordered[<<k, t, s, b>>] <= restarts
        /\ Deciding(k, t, s, b) =>
             fired[<<k, t, s>>] = b /\ ordered[<<k, t, s, b>>] <= restarts
    BY DEF EntriesSpaced
  <2>2. <<k, t, s, b>> \in Monitors \X Tfs \X Sides \X Bars OBVIOUS
  <2>3. ordered[<<k, t, s, b>>] \in Nat BY <1>2, <2>2
  <2>4. b \in Nat /\ restarts \in Nat BY MonitorsAssumption DEF Bars, Typed
  <2>5. k = m => ~Deciding(k, t, s, b)' BY DEF Deciding
  <2>6. k # m => (Deciding(k, t, s, b)' => Deciding(k, t, s, b)) BY DEF Moved, Deciding
  <2>7. CASE <<k, t, s, b>> = key
    <3>1. Deciding(k, t, s, b) BY <2>7 DEF Deciding, Tf
    <3>2. ordered'[<<k, t, s, b>>] = ordered[<<k, t, s, b>>] + 1 BY <1>1, <1>2, <2>2, <2>7
    <3>3. k = m BY <2>7
    <3>4. QED BY <2>1, <2>3, <2>4, <2>5, <3>1, <3>2, <3>3
  <2>8. CASE <<k, t, s, b>> # key
    <3>1. ordered'[<<k, t, s, b>>] = ordered[<<k, t, s, b>>] BY <1>1, <1>2, <2>2, <2>8
    <3>2. QED BY <2>1, <2>5, <2>6, <3>1
  <2>9. QED BY <2>7, <2>8
<1>5. QED BY <1>3, <1>4

LEMMA OrderStep == ASSUME IInv, NEW m \in Monitors, Order(m) PROVE IInv'
<1>1. Typed /\ EntriesSpaced /\ ExitsSpaced /\ Covered BY DEF IInv
<1>2. /\ mon[m].pc = "gates" /\ Placed(m) /\ Goes(m, "protect")
      /\ UNCHANGED <<pos, stops, bar, fired, exited, exits, bare, restarts>>
  BY DEF Order
<1>3. Moved(m) /\ mon'[m].pc = "protect" /\ mon'[m].side = mon[m].side
  BY <1>1, <1>2, GoesMoves
<1>4. /\ EntriesSpaced'
      /\ ordered' \in [Monitors \X Tfs \X Sides \X Bars -> Nat]
  BY <1>1, <1>2, <1>3, PlacedSpaced
<1>5. Typed'
  <2>1. Sided(mon'[m]) BY <1>1, <1>2, <1>3 DEF Sided, Typed
  <2>2. QED BY <1>1, <1>2, <1>3, <1>4, <2>1, TypedFrame DEF Typed
<1>6. ExitsSpaced' BY <1>1, <1>2 DEF ExitsSpaced
<1>7. Covered' BY <1>1, <1>2, <1>3, CoveredFrame DEF Relieving
<1>8. QED BY <1>4, <1>5, <1>6, <1>7 DEF IInv

LEMMA OrderLostStep == ASSUME IInv, NEW m \in Monitors, OrderLost(m) PROVE IInv'
<1>1. Typed /\ EntriesSpaced /\ ExitsSpaced BY DEF IInv
<1>2. /\ mon[m].pc = "gates" /\ Placed(m) /\ Continues(m) /\ bare' = TRUE
      /\ UNCHANGED <<pos, stops, bar, fired, exited, exits, restarts>>
  BY DEF OrderLost
<1>3. Moved(m) /\ mon'[m].pc \in {"idle", "entry", "exit"} /\ Sided(mon'[m])
  BY <1>1, <1>2, ContinuesMoves
<1>4. /\ EntriesSpaced'
      /\ ordered' \in [Monitors \X Tfs \X Sides \X Bars -> Nat]
  BY <1>1, <1>2, <1>3, PlacedSpaced
<1>5. Typed' BY <1>1, <1>2, <1>3, <1>4, TypedFrame DEF Typed
<1>6. ExitsSpaced' BY <1>1, <1>2 DEF ExitsSpaced
<1>7. Covered' BY <1>2 DEF Covered
<1>8. QED BY <1>4, <1>5, <1>6, <1>7 DEF IInv

(* The stop that the entry was waiting for guards what it has opened.      *)
LEMMA ProtectStep == ASSUME IInv, NEW m \in Monitors, Protect(m) PROVE IInv'
<1>1. Typed /\ EntriesSpaced /\ ExitsSpaced /\ Covered BY DEF IInv
<1>2. /\ mon[m].pc = "protect" /\ mon' = [mon EXCEPT ![m] = Idle]
      /\ UNCHANGED <<pos, bar, fired, exited, ordered, exits, restarts>>
  BY DEF Protect
<1>3. Moved(m) /\ mon'[m].pc = "idle" /\ Sided(mon'[m]) BY <1>1, <1>2, IdleMoves DEF Sided
<1>4. mon[m].side \in Sides /\ Other(mon[m].side) \in Sides BY <1>1, <1>2, TwoSides DEF Typed, Sided
<1>5. CASE stops' = [stops EXCEPT ![Other(mon[m].side)] = @ + 1] /\ UNCHANGED bare
  <2>1. /\ stops' \in [Sides -> Nat] /\ stops'[Other(mon[m].side)] > 0
        /\ \A s \in Sides : stops[s] > 0 => stops'[s] > 0
    BY <1>1, <1>4, <1>5 DEF Typed
  <2>2. Covered'
    <3> SUFFICES ASSUME pos.side # None, ~bare PROVE Guarded(pos.side)'
      BY <1>2, <1>5 DEF Covered, Guarded, Relieving, Protecting
    <3>1. Guarded(pos.side) BY <1>1 DEF Covered
    <3>2. pos.side \in Sides /\ Other(pos.side) \in Sides BY <1>1, TwoSides DEF Typed
    <3>3. CASE stops[Other(pos.side)] > 0 BY <1>2, <2>1, <3>2, <3>3 DEF Guarded
    <3>4. CASE Protecting(m, pos.side) BY <1>2, <2>1, <3>4 DEF Guarded, Protecting
    <3>5. CASE \E k \in Monitors : k # m /\ (Relieving(k) \/ Protecting(k, pos.side))
      BY <1>2, <1>3, <3>5 DEF Guarded, Moved, Relieving, Protecting
    <3>6. ~Relieving(m) BY <1>2 DEF Relieving
    <3>7. QED BY <3>1, <3>3, <3>4, <3>5, <3>6 DEF Guarded
  <2>3. Typed' BY <1>1, <1>2, <1>3, <2>1, TypedFrame DEF Typed
  <2>4. EntriesSpaced' /\ ExitsSpaced' BY <1>1, <1>2, <1>3, ActsFrame
  <2>5. QED BY <2>2, <2>3, <2>4 DEF IInv
<1>6. CASE bare' = TRUE /\ UNCHANGED stops
  <2>1. Covered' BY <1>6 DEF Covered
  <2>2. Typed' BY <1>1, <1>2, <1>3, <1>6, TypedFrame DEF Typed
  <2>3. EntriesSpaced' /\ ExitsSpaced' BY <1>1, <1>2, <1>3, ActsFrame
  <2>4. QED BY <2>1, <2>2, <2>3 DEF IInv
<1>7. QED BY <1>5, <1>6 DEF Protect

-----------------------------------------------------------------------------
(* Exits.                                                                  *)
LEMMA ExitStep ==
  ASSUME IInv, NEW m \in Monitors, NEW pc \in {"idle", "partial", "full"}, Exit(m, pc)
  PROVE  IInv'
<1>1. Typed /\ EntriesSpaced /\ ExitsSpaced /\ Covered BY DEF IInv
<1>2. PICK side : side = Other(mon[m].snap.side) OBVIOUS
<1>3. PICK k : k = <<Tf(m), side>> OBVIOUS
<1>4. PICK key : key = <<Tf(m), side, mon[m].now>> OBVIOUS
<1>5. /\ mon[m].pc = "exit" /\ exited[k] < mon[m].now
      /\ exited' = [exited EXCEPT ![k] = mon[m].now]
      /\ IF pc = "idle" THEN mon' = [mon EXCEPT ![m] = Idle] ELSE Turns(m, pc, side)
      /\ exits' = IF pc = "idle" THEN exits ELSE [exits EXCEPT ![key] = @ + 1]
  BY <1>2, <1>3, <1>4 DEF Exit
<1>6. UNCHANGED <<pos, resting, stops, bar, fired, ordered, bare, restarts>>
  BY DEF Exit, market
<1>7. side \in Sides BY <1>1, <1>2, <1>5, TwoSides DEF Typed, Sided
<1>8. mon[m].now \in Nat BY <1>1 DEF Typed
<1>9. Moved(m) /\ mon'[m].pc = pc /\ (pc # "idle" => mon'[m].side = side)
  <2>1. CASE pc = "idle" BY <1>1, <1>5, <2>1, IdleMoves
  <2>2. CASE pc # "idle"
    <3>1. Turns(m, pc, side) BY <1>5, <2>2
    <3>2. PICK W : /\ mon' = [mon EXCEPT ![m] = W]
                   /\ MonRec(W) /\ W.pc = pc /\ W.side = side
                   /\ W.now = mon[m].now /\ W.todo = mon[m].todo
      BY <1>1, <3>1, TurnsMoves
    <3>3. QED BY <1>1, <3>2, SetMoves
  <2>3. QED BY <2>1, <2>2
<1>10. exited' \in [ExitKeys -> Nat] BY <1>1, <1>5, <1>8 DEF Typed
<1>11. exits' \in [Tfs \X Sides \X Bars -> Nat]
  <2>1. exits \in [Tfs \X Sides \X Bars -> Nat] BY <1>1 DEF Typed
  <2>2. CASE key \in Tfs \X Sides \X Bars
    <3>1. exits[key] + 1 \in Nat BY <2>1, <2>2
    <3>2. QED BY <1>5, <2>1, <3>1
  <2>3. CASE key \notin Tfs \X Sides \X Bars
    <3>1. exits' = exits BY <1>5, <2>1, <2>3
    <3>2. QED BY <2>1, <3>1
  <2>4. QED BY <2>2, <2>3
<1>12. Typed'
  <2>1. Sided(mon'[m]) BY <1>7, <1>9 DEF Sided
  <2>2. QED BY <1>1, <1>6, <1>9, <1>10, <1>11, <2>1, TypedFrame DEF Typed
<1>13. EntriesSpaced'
  <2> SUFFICES ASSUME NEW j \in Monitors, NEW t \in Tfs, NEW s \in Sides, NEW b \in Bars
               PROVE  /\ ordered'[<<j, t, s, b>>] <= 1 + restarts'
                      /\ fired'[<<j, t, s>>] < b => ordered'[<<j, t, s, b>>] <= restarts'
                      /\ Deciding(j, t, s, b)' =>
                           fired'[<<j, t, s>>] = b /\ ordered'[<<j, t, s, b>>] <= restarts'
    BY Zenon DEF EntriesSpaced
  <2>1. Deciding(j, t, s, b)' => Deciding(j, t, s, b) BY <1>9 DEF Moved, Deciding
  <2>2. QED BY <1>1, <1>6, <2>1 DEF EntriesSpaced
<1>14. ExitsSpaced'
  <2> SUFFICES ASSUME NEW t \in Tfs, NEW s \in Sides, NEW b \in Bars
               PROVE  /\ exits'[<<t, s, b>>] <= 1 + restarts'
                      /\ exited'[<<t, s>>] < b => exits'[<<t, s, b>>] <= restarts'
    BY Zenon DEF ExitsSpaced
  <2>1. /\ exits[<<t, s, b>>] <= 1 + restarts
        /\ exited[<<t, s>>] < b => exits[<<t, s, b>>] <= restarts
    BY <1>1 DEF ExitsSpaced
  <2>2. /\ exits \in [Tfs \X Sides \X Bars -> Nat] /\ exited \in [ExitKeys -> Nat]
        /\ <<t, s, b>> \in Tfs \X Sides \X Bars /\ <<t, s>> \in ExitKeys
    BY <1>1 DEF Typed, ExitKeys
  <2>3. /\ exits[<<t, s, b>>] \in Nat /\ exited[<<t, s>>] \in Nat
        /\ b \in Nat /\ restarts \in Nat
    BY <1>1, <2>2, MonitorsAssumption DEF Bars, Typed
  <2>4. exits'[<<t, s, b>>] \in {exits[<<t, s, b>>], exits[<<t, s, b>>] + 1}
    BY <1>5, <2>2
  <2>5. CASE <<t, s>> = k
    <3>1. exited'[<<t, s>>] = mon[m].now /\ exited[<<t, s>>] < mon[m].now
      BY <1>5, <2>2, <2>5
    <3>2. b # mon[m].now => exits'[<<t, s, b>>] = exits[<<t, s, b>>]
      BY <1>4, <1>5, <2>2
    <3>3. QED BY <1>6, <1>8, <2>1, <2>3, <2>4, <3>1, <3>2
  <2>6. CASE <<t, s>> # k
    <3>1. <<t, s, b>> # key BY <1>3, <1>4, <2>6
    <3>2. exits'[<<t, s, b>>] = exits[<<t, s, b>>] /\ exited'[<<t, s>>] = exited[<<t, s>>]
      BY <1>5, <2>2, <2>6, <3>1
    <3>3. QED BY <1>6, <2>1, <3>2
  <2>7. QED BY <2>5, <2>6
<1>15. Covered' BY <1>1, <1>5, <1>6, <1>9, CoveredFrame DEF Relieving
<1>16. QED BY <1>12, <1>13, <1>14, <1>15 DEF IInv

(* A step of a tick that changes the account.                              *)
LEMMA AccountStep ==
  ASSUME IInv, NEW m \in Monitors, Moved(m), Sided(mon'[m]), mon'[m].pc # "gates",
         pos'.side \in Sides \cup {None}, pos' = [side |-> pos'.side, size |-> pos'.size],
         stops' \in [Sides -> Nat],
         UNCHANGED <<bar, fired, exited, ordered, exits, restarts>>, Covered'
  PROVE  IInv'
<1>1. Typed' BY TypedFrame DEF IInv, Typed
<1>2. EntriesSpaced' /\ ExitsSpaced' BY ActsFrame DEF IInv
<1>3. QED BY <1>1, <1>2 DEF IInv

(* Somebody who is on the way to a stop or to a close stays there.         *)
LEMMA OnTheWay ==
  ASSUME NEW m \in Monitors, Moved(m), Relieving(m)' PROVE Covered'
BY DEF Covered, Guarded, Relieving

LEMMA PartialStep == ASSUME IInv, NEW m \in Monitors, Partial(m) PROVE IInv'
<1>1. Typed /\ Covered BY DEF IInv
<1>2. /\ mon[m].pc = "partial"
      /\ UNCHANGED <<resting, bar, fired, exited, ordered, exits, bare, restarts>>
  BY DEF Partial, ghosts
<1>3. mon[m].side \in Sides BY <1>1, <1>2 DEF Typed, Sided
<1>4. CASE Goes(m, "full") /\ UNCHANGED <<pos, stops>>
  <2>1. Moved(m) /\ mon'[m].pc = "full" BY <1>1, <1>4, GoesMoves
  <2>2. Sided(mon'[m]) /\ Relieving(m)' BY <2>1 DEF Sided, Relieving
  <2>3. QED BY <1>1, <1>2, <1>4, <2>1, <2>2, OnTheWay, AccountStep DEF Typed
<1>5. CASE /\ pos' = ClosedBy(Half(mon[m].snap.size))
           /\ stops' = IF pos'.side = None THEN [s \in Sides |-> 0] ELSE stops
           /\ Goes(m, "stops")
  <2>1. Moved(m) /\ mon'[m].pc = "stops" /\ mon'[m].side = mon[m].side
    BY <1>1, <1>5, GoesMoves
  <2>2. Sided(mon'[m]) BY <1>3, <2>1 DEF Sided
  <2>3. /\ pos' = [side |-> pos'.side, size |-> pos'.size]
        /\ pos'.side \in {None, pos.side}
    <3>1. pos = [side |-> pos.side, size |-> pos.size] BY <1>1 DEF Typed
    <3>2. pos' \in {Flat, [pos EXCEPT !.size = @ - Half(mon[m].snap.size)]}
      BY <1>5 DEF ClosedBy
    <3>3. QED BY <3>1, <3>2 DEF Flat
  <2>4. stops' \in [Sides -> Nat] BY <1>1, <1>5 DEF Typed
  <2>5. Covered'
    <3> SUFFICES ASSUME pos'.side # None, ~bare' PROVE Guarded(pos.side)'
      <4>1. pos'.side # None => pos'.side = pos.side BY <2>3
      <4>2. QED BY <4>1 DEF Covered, Guarded, Relieving, Protecting
    <3>1. pos'.side = pos.side /\ stops' = stops BY <1>5, <2>3
    <3>2. Guarded(pos.side) BY <1>1, <1>2, <3>1 DEF Covered
    <3>3. ~Relieving(m) /\ ~Protecting(m, pos.side) BY <1>2 DEF Relieving, Protecting
    <3>4. CASE stops[Other(pos.side)] > 0 BY <3>1, <3>4 DEF Guarded
    <3>5. CASE \E k \in Monitors : k # m /\ (Relieving(k) \/ Protecting(k, pos.side))
      BY <2>1, <3>1, <3>5 DEF Guarded, Moved, Relieving, Protecting
    <3>6. QED BY <3>2, <3>3, <3>4, <3>5 DEF Guarded
  <2>6. QED BY <1>1, <1>2, <2>1, <2>2, <2>3, <2>4, <2>5, AccountStep DEF Typed
<1>6. QED BY <1>4, <1>5 DEF Partial

LEMMA CancelStopsStep == ASSUME IInv, NEW m \in Monitors, CancelStops(m) PROVE IInv'
<1>1. Typed BY DEF IInv
<1>2. /\ mon[m].pc = "stops" /\ Goes(m, "be")
      /\ stops' = [stops EXCEPT ![mon[m].side] = 0] \/ UNCHANGED stops
      /\ UNCHANGED <<pos, resting, bar, fired, exited, ordered, exits, bare, restarts>>
  BY DEF CancelStops, ghosts
<1>3. Moved(m) /\ mon'[m].pc = "be" /\ mon'[m].side = mon[m].side BY <1>1, <1>2, GoesMoves
<1>4. Sided(mon'[m]) /\ Relieving(m)' BY <1>1, <1>2, <1>3 DEF Typed, Sided, Relieving
<1>5. stops' \in [Sides -> Nat] BY <1>1, <1>2 DEF Typed
<1>6. QED BY <1>1, <1>2, <1>3, <1>4, <1>5, OnTheWay, AccountStep DEF Typed

(* The new stop guards the position it is placed for; the other monitor    *)
(* may be closing it.                                                      *)
LEMMA BreakEvenStep == ASSUME IInv, NEW m \in Monitors, BreakEven(m) PROVE IInv'
<1>1. Typed BY DEF IInv
<1>2. /\ mon[m].pc = "be"
      /\ UNCHANGED <<pos, resting, bar, fired, exited, ordered, exits, bare, restarts>>
  BY DEF BreakEven, ghosts
<1>3. mon[m].side \in Sides BY <1>1, <1>2 DEF Typed, Sided
<1>4. CASE Goes(m, "full") /\ UNCHANGED stops
  <2>1. Moved(m) /\ mon'[m].pc = "full" BY <1>1, <1>4, GoesMoves
  <2>2. Sided(mon'[m]) /\ Relieving(m)' BY <2>1 DEF Sided, Relieving
  <2>3. QED BY <1>1, <1>2, <1>4, <2>1, <2>2, OnTheWay, AccountStep DEF Typed
<1>5. CASE /\ pos.side = Other(mon[m].side)
           /\ stops' = [stops EXCEPT ![mon[m].side] = @ + 1]
           /\ mon' = [mon EXCEPT ![m] = Idle]
  <2>1. Moved(m) /\ mon'[m].pc = "idle" BY <1>1, <1>5, IdleMoves
  <2>2. Sided(mon'[m]) BY <2>1 DEF Sided
  <2>3. stops' \in [Sides -> Nat] /\ stops'[mon[m].side] > 0 BY <1>1, <1>3, <1>5 DEF Typed
  <2>4. Other(pos.side) = mon[m].side BY <1>3, <1>5, TwoSides
  <2>5. Covered' BY <1>2, <2>3, <2>4 DEF Covered, Guarded
  <2>6. QED BY <1>1, <1>2, <2>1, <2>2, <2>3, <2>5, AccountStep DEF Typed
<1>6. QED BY <1>4, <1>5 DEF BreakEven

LEMMA CancelAllStep == ASSUME IInv, NEW m \in Monitors, CancelAll(m) PROVE IInv'
<1>1. Typed BY DEF IInv
<1>2. /\ mon[m].pc = "full" /\ Goes(m, "close")
      /\ stops' = [s \in Sides |-> 0] \/ UNCHANGED stops
      /\ UNCHANGED <<pos, bar, fired, exited, ordered, exits, bare, restarts>>
  BY DEF CancelAll, ghosts
<1>3. Moved(m) /\ mon'[m].pc = "close" BY <1>1, <1>2, GoesMoves
<1>4. Sided(mon'[m]) /\ Relieving(m)' BY <1>3 DEF Sided, Relieving
<1>5. stops' \in [Sides -> Nat] BY <1>1, <1>2 DEF Typed
<1>6. QED BY <1>1, <1>2, <1>3, <1>4, <1>5, OnTheWay, AccountStep DEF Typed

LEMMA CloseStep == ASSUME IInv, NEW m \in Monitors, Close(m) PROVE IInv'
<1>1. Typed BY DEF IInv
<1>2. /\ mon' = [mon EXCEPT ![m] = Idle]
      /\ (pos' = Flat /\ stops' = [s \in Sides |-> 0]) \/ (bare' = TRUE /\ UNCHANGED <<pos, stops>>)
      /\ UNCHANGED <<resting, bar, fired, exited, ordered, exits, restarts>>
  BY DEF Close
<1>3. Moved(m) /\ mon'[m].pc = "idle" BY <1>1, <1>2, IdleMoves
<1>4. Sided(mon'[m]) BY <1>3 DEF Sided
<1>5. /\ stops' \in [Sides -> Nat]
      /\ pos'.side \in Sides \cup {None} /\ pos' = [side |-> pos'.side, size |-> pos'.size]
  BY <1>1, <1>2 DEF Typed, Flat
<1>6. Covered' BY <1>2 DEF Covered, Flat
<1>7. QED BY <1>2, <1>3, <1>4, <1>5, <1>6, AccountStep

-----------------------------------------------------------------------------
(* The account, time.                                                      *)

(* A step that leaves the ticks alone.                                     *)
LEMMA OutsideStep ==
  ASSUME IInv, pos'.side \in Sides \cup {None}, pos' = [side |-> pos'.side, size |-> pos'.size],
         stops' \in [Sides -> Nat], bar' \in Nat,
         UNCHANGED <<mon, fired, exited, ordered, exits, restarts>>, Covered'
  PROVE  IInv'
<1>1. Typed' BY DEF IInv, Typed, MonRec, Sided
<1>2. EntriesSpaced' /\ ExitsSpaced' BY DEF IInv, EntriesSpaced, ExitsSpaced, Deciding
<1>3. QED BY <1>1, <1>2 DEF IInv

(* What a fill opens is guarded by its entry's stop or by whoever is about *)
(* to place it, or the fill itself is what left it bare.                   *)
LEMMA FillStep == ASSUME IInv, NEW side \in Sides, Fill(side) PROVE IInv'
<1>1. Typed /\ Covered BY DEF IInv
<1>2. UNCHANGED <<stops, bar, fired, exited, mon, ordered, exits, restarts>> BY DEF Fill
<1>3. bare' = (bare \/ (/\ stops[Other(side)] = 0
                        /\ \A m \in Monitors : ~(mon[m].pc = "protect" /\ mon[m].side = side)))
  BY DEF Fill
<1>4. /\ pos' = [side |-> pos'.side, size |-> pos'.size]
      /\ \/ pos'.side = None \/ pos'.side = side
         \/ pos'.side = pos.side /\ pos.side # None
  <2>1. pos = [side |-> pos.side, size |-> pos.size] BY <1>1 DEF Typed
  <2>2. CASE pos' = [side |-> side, size |-> pos.size + Lot] BY <2>2
  <2>3. CASE pos' = [side |-> side, size |-> Lot - pos.size] BY <2>3
  <2>4. CASE pos' = Flat BY <2>4 DEF Flat
  <2>5. CASE pos' = [pos EXCEPT !.size = @ - Lot] BY <2>1, <2>5
  <2>6. QED BY <2>2, <2>3, <2>4, <2>5 DEF Fill
<1>5. Covered'
  <2>1. PICK p : p = pos'.side OBVIOUS
  <2> SUFFICES ASSUME p # None, ~bare' PROVE Guarded(p)'
    BY <2>1 DEF Covered, Guarded, Relieving, Protecting
  <2>2. Guarded(p)
    <3>1. CASE p = side
      <4>1. CASE stops[Other(side)] # 0
        <5>1. stops[Other(side)] \in Nat BY <1>1, TwoSides DEF Typed
        <5>2. QED BY <3>1, <4>1, <5>1 DEF Guarded
      <4>2. CASE \E m \in Monitors : mon[m].pc = "protect" /\ mon[m].side = side
        BY <3>1, <4>2 DEF Guarded, Protecting
      <4>3. QED BY <1>3, <4>1, <4>2
    <3>2. CASE p = pos.side /\ pos.side # None
      <4>1. ~bare BY <1>3
      <4>2. QED BY <1>1, <3>2, <4>1 DEF Covered
    <3>3. QED BY <1>4, <2>1, <3>1, <3>2
  <2>3. QED BY <1>2, <2>2 DEF Guarded, Relieving, Protecting
<1>6. pos'.side \in Sides \cup {None} BY <1>1, <1>4 DEF Typed
<1>7. QED BY <1>1, <1>2, <1>4, <1>5, <1>6, OutsideStep DEF Typed

LEMMA ClosesStep == ASSUME IInv, Closes PROVE IInv'
<1>1. /\ pos' = Flat /\ stops' = [s \in Sides |-> 0]
      /\ UNCHANGED <<bar, fired, exited, mon, ordered, exits, restarts>>
  BY DEF Closes, ghosts
<1>2. Covered' BY <1>1 DEF Covered, Flat
<1>3. QED BY <1>1, <1>2, OutsideStep DEF Flat, IInv, Typed

LEMMA NewBarStep == ASSUME IInv, NewBar PROVE IInv'
<1>1. /\ bar' = bar + 1
      /\ UNCHANGED <<pos, resting, stops, fired, exited, mon, ordered, exits, bare, restarts>>
  BY DEF NewBar, market, ghosts
<1>2. Covered' BY <1>1 DEF IInv, Covered, Guarded, Relieving, Protecting
<1>3. QED BY <1>1, <1>2, OutsideStep DEF IInv, Typed

(* A restart forgets what has fired, and is counted.                       *)
LEMMA RestartStep == ASSUME IInv, Restart PROVE IInv'
<1>1. Typed /\ EntriesSpaced /\ ExitsSpaced BY DEF IInv
<1>2. /\ restarts' = restarts + 1
      /\ fired' = [k \in EntryKeys |-> 0] /\ exited' = [k \in ExitKeys |-> 0]
      /\ mon' = [m \in Monitors |-> Idle] /\ bare' = TRUE
      /\ UNCHANGED <<pos, resting, stops, bar, ordered, exits>>
  BY DEF Restart, market, EntryKeys, ExitKeys
<1>3. restarts \in Nat BY <1>1 DEF Typed
<1>4. MonRec(Idle) /\ Sided(Idle) /\ Idle.pc = "idle" /\ Idle.now \in Nat
  BY DEF Idle, Tick, MonRec, Sided
<1>5. \A m \in Monitors : mon'[m] = Idle BY <1>2
<1>6. Typed'
  <2>1. mon' = [m \in Monitors |-> mon'[m]] BY <1>2
  <2>2. \A m \in Monitors : MonRec(mon'[m]) /\ mon'[m].now \in Nat /\ Sided(mon'[m])
    BY <1>4, <1>5
  <2>3. fired' \in [EntryKeys -> Nat] /\ exited' \in [ExitKeys -> Nat] BY <1>2
  <2>4. QED BY <1>1, <1>2, <2>1, <2>2, <2>3 DEF Typed, MonRec, Sided
<1>7. EntriesSpaced'
  <2> SUFFICES ASSUME NEW j \in Monitors, NEW t \in Tfs, NEW s \in Sides, NEW b \in Bars
               PROVE  /\ ordered'[<<j, t, s, b>>] <= 1 + restarts'
                      /\ fired'[<<j, t, s>>] < b => ordered'[<<j, t, s, b>>] <= restarts'
                      /\ Deciding(j, t, s, b)' =>
                           fired'[<<j, t, s>>] = b /\ ordered'[<<j, t, s, b>>] <= restarts'
    BY Zenon DEF EntriesSpaced
  <2>1. ordered[<<j, t, s, b>>] <= 1 + restarts BY <1>1 DEF EntriesSpaced
  <2>2. ordered[<<j, t, s, b>>] \in Nat BY <1>1 DEF Typed
  <2>3. ~Deciding(j, t, s, b)' BY <1>4, <1>5 DEF Deciding
  <2>4. QED BY <1>2, <1>3, <2>1, <2>2, <2>3
<1>8. ExitsSpaced'
  <2> SUFFICES ASSUME NEW t \in Tfs, NEW s \in Sides, NEW b \in Bars
               PROVE  /\ exits'[<<t, s, b>>] <= 1 + restarts'
                      /\ exited'[<<t, s>>] < b => exits'[<<t, s, b>>] <= restarts'
    BY Zenon DEF ExitsSpaced
  <2>1. exits[<<t, s, b>>] <= 1 + restarts BY <1>1 DEF ExitsSpaced
  <2>2. exits[<<t, s, b>>] \in Nat BY <1>1 DEF Typed
  <2>3. QED BY <1>2, <1>3, <2>1, <2>2
<1>9. Covered' BY <1>2 DEF Covered
<1>10. QED BY <1>6, <1>7, <1>8, <1>9 DEF IInv

-----------------------------------------------------------------------------
LEMMA InitIInv == Init => IInv
<1> SUFFICES ASSUME Init PROVE IInv OBVIOUS
<1>1. MonRec(Idle) /\ Sided(Idle) /\ Idle.pc = "idle" /\ Idle.now \in Nat
  BY DEF Idle, Tick, MonRec, Sided
<1>2. \A m \in Monitors : mon[m] = Idle BY DEF Init
<1>3. Typed
  <2>1. mon = [m \in Monitors |-> mon[m]] BY DEF Init
  <2>2. /\ fired \in [EntryKeys -> Nat] /\ exited \in [ExitKeys -> Nat]
        /\ ordered \in [Monitors \X Tfs \X Sides \X Bars -> Nat]
        /\ exits \in [Tfs \X Sides \X Bars -> Nat]
    BY DEF Init, EntryKeys, ExitKeys
  <2>3. pos = Flat /\ bar = 1 /\ restarts = 0 /\ stops \in [Sides -> Nat] BY DEF Init
  <2>4. \A m \in Monitors : MonRec(mon[m]) /\ mon[m].now \in Nat /\ Sided(mon[m])
    BY <1>1, <1>2
  <2>5. QED BY <2>1, <2>2, <2>3, <2>4 DEF Typed, Flat
<1>4. EntriesSpaced /\ ExitsSpaced
  <2>1. \A m \in Monitors, t \in Tfs, s \in Sides, b \in Bars :
          ordered[<<m, t, s, b>>] = 0 /\ ~Deciding(m, t, s, b)
    BY <1>1, <1>2 DEF Init, Deciding
  <2>2. \A t \in Tfs, s \in Sides, b \in Bars : exits[<<t, s, b>>] = 0 BY DEF Init
  <2>3. restarts = 0 BY DEF Init
  <2>4. QED BY <2>1, <2>2, <2>3 DEF EntriesSpaced, ExitsSpaced
<1>5. Covered BY DEF Init, Covered, Flat
<1>6. QED BY <1>3, <1>4, <1>5 DEF IInv

LEMMA NextIInv == IInv /\ [Next]_vars => IInv'
<1> SUFFICES ASSUME IInv, [Next]_vars PROVE IInv' OBVIOUS
<1>1. ASSUME NEW m \in Monitors, TickStart(m) \/ Steps(m) PROVE IInv'
  <2>1. CASE TickStart(m) BY <2>1, TickStartStep
  <2>2. CASE NoEntry(m) \/ Rejected(m) \/ NoExit(m) BY <2>2, PassStep
  <2>3. CASE \E side \in Sides : Signal(m, side) BY <2>3, SignalStep
  <2>4. CASE Queue(m) \/ Order(m) \/ OrderLost(m) \/ Protect(m)
    BY <2>4, QueueStep, OrderStep, OrderLostStep, ProtectStep
  <2>5. CASE \E pc \in {"idle", "partial", "full"} : Exit(m, pc) BY <2>5, ExitStep
  <2>6. CASE Partial(m) \/ CancelStops(m) \/ BreakEven(m) BY <2>6, PartialStep, CancelStopsStep, BreakEvenStep
  <2>7. CASE CancelAll(m) \/ Close(m) BY <2>7, CancelAllStep, CloseStep
  <2>8. QED BY <1>1, <2>1, <2>2, <2>3, <2>4, <2>5, <2>6, <2>7 DEF Steps
<1>2. CASE \E side \in Sides : Fill(side) BY <1>2, FillStep
<1>3. CASE Closes \/ NewBar \/ Restart BY <1>3, ClosesStep, NewBarStep, RestartStep
<1>4. CASE UNCHANGED vars
  <2>1. UNCHANGED <<pos, stops, bar, fired, exited, mon, ordered, exits, bare, restarts>>
    BY <1>4 DEF vars, market, ghosts
  <2>2. Covered' BY <2>1 DEF IInv, Covered, Guarded, Relieving, Protecting
  <2>3. QED BY <2>1, <2>2, OutsideStep DEF IInv, Typed
<1>5. QED BY <1>1, <1>2, <1>3, <1>4 DEF Next

LEMMA IInvHolds == Spec => []IInv
BY InitIInv, NextIInv, PTL DEF Spec

(* However ticks, restarts and lost answers fall, a monitor places one     *)
(* entry per timeframe, direction and candle, and the engulfing monitor    *)
(* carries out one exit, and one more per restart, which forgets what has  *)
(* fired (5290-5296, 5393-5400, 5733-5737).                                *)
THEOREM ActsOnce == Spec => []OneActPerCandle
<1>1. IInv => OneActPerCandle
  <2> SUFFICES ASSUME IInv PROVE OneActPerCandle OBVIOUS
  <2>1. /\ DOMAIN ordered = Monitors \X Tfs \X Sides \X Bars
        /\ DOMAIN exits = Tfs \X Sides \X Bars
    BY DEF IInv, Typed
  <2>2. ASSUME NEW k \in DOMAIN ordered PROVE ordered[k] <= 1 + restarts
    <3>1. PICK m \in Monitors, t \in Tfs, s \in Sides, b \in Bars : k = <<m, t, s, b>>
      BY <2>1
    <3>2. QED BY <3>1 DEF IInv, EntriesSpaced
  <2>3. ASSUME NEW k \in DOMAIN exits PROVE exits[k] <= 1 + restarts
    <3>1. PICK t \in Tfs, s \in Sides, b \in Bars : k = <<t, s, b>> BY <2>1
    <3>2. QED BY <3>1 DEF IInv, ExitsSpaced
  <2>4. QED BY <2>2, <2>3 DEF OneActPerCandle, OneEntryPerCandle, OneExitPerCandle
<1>2. QED BY <1>1, IInvHolds, PTL

(* Once every tick is over, an open position has a stop, unless a call     *)
(* without a fallback failed or the server restarted (5460-5575).          *)
THEOREM NeverLeftBare == Spec => []Protected
<1>1. IInv => Protected BY DEF IInv, Covered, Guarded, Relieving, Protecting, Protected
<1>2. QED BY <1>1, IInvHolds, PTL
=============================================================================
