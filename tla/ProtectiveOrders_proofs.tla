----------------------- MODULE ProtectiveOrders_proofs -----------------------
(***************************************************************************)
(* However many runs of the monitor overlap, whatever the exchange answers *)
(* and wherever the server crashes: a trade's stop is moved to break even  *)
(* once at most.  The split of any size into one to three take-profit      *)
(* levels closes the whole position and nothing more.  And while the runs  *)
(* of the monitor do not overlap, a position keeps a stop.                 *)
(***************************************************************************)
EXTENDS ProtectiveOrders, FiniteSetTheorems, TLAPS

(* A function and a record that are what their entries say.                *)
IsFcn(f, S) == f = [x \in S |-> f[x]]
TickRec(k) ==
  k = [pc |-> k.pc, seen |-> k.seen, visited |-> k.visited, c |-> k.c,
       still |-> k.still, just |-> k.just, size |-> k.size]
TradeRec(r) == r = [live |-> r.live, sl |-> r.sl, tps |-> r.tps, fired |-> r.fired]
EntryRec(e) == e = [pc |-> e.pc, k |-> e.k, sl |-> e.sl, tps |-> e.tps]

(* A run that visits a trade, and one that moves its stop.                 *)
Working == {"timepos", "timeclose", "timecancel", "stopgone", "cancel", "size", "place", "closed"}
Moving  == {"cancel", "size", "place"}
Visits(t, c) == tick[t].pc \in Working /\ tick[t].c = c
Moves(t, c)  == tick[t].pc \in Moving /\ tick[t].c = c

(* A trade the monitor may still come upon.                                *)
Registered == {reg[i] : i \in 1..Len(reg)}
Known(c)   == c \in Registered \/ \E t \in Ticks : Visits(t, c)

Shapes ==
  /\ IsFcn(tick, Ticks) /\ \A t \in Ticks : TickRec(tick[t])
  /\ IsFcn(trades, Entries) /\ \A c \in Entries : TradeRec(trades[c])
  /\ IsFcn(entry, Entries) /\ \A c \in Entries : EntryRec(entry[c])
  /\ reg \in Seq(Entries)
  /\ moved \in [Entries -> Nat]
  /\ used \in [entries : Nat, levels : Nat, cancels : Nat, faults : Nat]

(* The hash of an order's name never reads as a name of the server's own,  *)
(* so the recovery finds nothing to set a trade back to.                   *)
Hashed == \A o \in orders : o.cloid = <<"0x", NoOne>>

(* A trade is known to the monitor only after its entry is through, and an *)
(* entry gets through once.                                                *)
Ahead    == \A c \in Entries : c > used.entries => entry[c].pc = "idle"
Through  == \A c \in Entries : Known(c) => entry[c].pc = "done"
(* What was moved, or is being moved, has fired, or is forgotten for good. *)
Flagged ==
  \A c \in Entries :
    (moved[c] > 0 \/ \E t \in Ticks : Moves(t, c)) =>
      entry[c].pc = "done" /\ (trades[c].fired \/ ~Known(c))
Once ==
  \A c \in Entries :
    /\ moved[c] <= 1
    /\ \A t \in Ticks : Moves(t, c) => moved[c] = 0 /\ \A u \in Ticks : Moves(u, c) => u = t
OnTrades == \A t \in Ticks : tick[t].pc \in Working => tick[t].c \in Entries

IInv == Shapes /\ Hashed /\ Ahead /\ Through /\ Flagged /\ Once /\ OnTrades

-----------------------------------------------------------------------------
LEMMA TickExcept ==
  ASSUME NEW k, TickRec(k), NEW where
  PROVE  LET m == [k EXCEPT !.pc = where] IN
         TickRec(m) /\ m.pc = where /\ m.c = k.c /\ m.seen = k.seen
BY DEF TickRec

(* The other fields a step sets keep the place and the trade of a run.     *)
LEMMA TickFields ==
  ASSUME NEW k, TickRec(k), NEW v
  PROVE  /\ TickRec([k EXCEPT !.seen = v]) /\ [k EXCEPT !.seen = v].pc = k.pc
         /\ TickRec([k EXCEPT !.visited = v]) /\ [k EXCEPT !.visited = v].pc = k.pc
         /\ TickRec([k EXCEPT !.c = v]) /\ [k EXCEPT !.c = v].c = v
         /\ TickRec([k EXCEPT !.still = v]) /\ [k EXCEPT !.still = v].c = k.c
         /\ TickRec([k EXCEPT !.just = v]) /\ [k EXCEPT !.just = v].c = k.c
         /\ TickRec([k EXCEPT !.size = v]) /\ [k EXCEPT !.size = v].c = k.c
<1>1. TickRec([k EXCEPT !.seen = v]) /\ [k EXCEPT !.seen = v].pc = k.pc
  BY DEF TickRec
<1>2. TickRec([k EXCEPT !.visited = v]) /\ [k EXCEPT !.visited = v].pc = k.pc
  BY DEF TickRec
<1>3. TickRec([k EXCEPT !.c = v]) /\ [k EXCEPT !.c = v].c = v
  BY DEF TickRec
<1>4. TickRec([k EXCEPT !.still = v]) /\ [k EXCEPT !.still = v].c = k.c
  BY DEF TickRec
<1>5. TickRec([k EXCEPT !.just = v]) /\ [k EXCEPT !.just = v].c = k.c
  BY DEF TickRec
<1>6. TickRec([k EXCEPT !.size = v]) /\ [k EXCEPT !.size = v].c = k.c
  BY DEF TickRec
<1> QED
  BY <1>1, <1>2, <1>3, <1>4, <1>5, <1>6

LEMMA TradeExcept ==
  ASSUME NEW r, TradeRec(r), NEW v
  PROVE  /\ TradeRec([r EXCEPT !.live = v]) /\ [r EXCEPT !.live = v].fired = r.fired
         /\ TradeRec([r EXCEPT !.sl = v]) /\ [r EXCEPT !.sl = v].fired = r.fired
         /\ TradeRec([r EXCEPT !.tps = v]) /\ [r EXCEPT !.tps = v].fired = r.fired
         /\ TradeRec([r EXCEPT !.fired = v]) /\ [r EXCEPT !.fired = v].fired = v
<1>1. r = [live |-> r.live, sl |-> r.sl, tps |-> r.tps, fired |-> r.fired]
  BY DEF TradeRec
<1>2. /\ [r EXCEPT !.live = v] = [live |-> v, sl |-> r.sl, tps |-> r.tps, fired |-> r.fired]
      /\ [r EXCEPT !.sl = v] = [live |-> r.live, sl |-> v, tps |-> r.tps, fired |-> r.fired]
      /\ [r EXCEPT !.tps = v] = [live |-> r.live, sl |-> r.sl, tps |-> v, fired |-> r.fired]
      /\ [r EXCEPT !.fired = v] = [live |-> r.live, sl |-> r.sl, tps |-> r.tps, fired |-> v]
  BY <1>1
<1> QED
  BY <1>2 DEF TradeRec

LEMMA OrderIsHashed ==
  ASSUME NEW kind, NEW id, NEW price, NEW size
  PROVE  Order(kind, id, price, size).cloid = <<"0x", NoOne>>
BY DEF Order, ToCloid

LEMMA UsedGoesOn ==
  ASSUME used \in [entries : Nat, levels : Nat, cancels : Nat, faults : Nat],
         NEW b \in BOOLEAN, Faulty(b)
  PROVE  /\ used' \in [entries : Nat, levels : Nat, cancels : Nat, faults : Nat]
         /\ used'.entries = used.entries
BY DEF Faulty, Spend

LEMMA ProtectiveInit == ASSUME Init PROVE IInv
<1>1. /\ \A t \in Ticks : tick[t] = NoTick
      /\ \A c \in Entries : trades[c] = NoTrade /\ entry[c] = NoEntry /\ moved[c] = 0
      /\ reg = <<>> /\ orders = {} /\ used = [entries |-> 0, levels |-> 0, cancels |-> 0, faults |-> 0]
  BY DEF Init
<1>2. Shapes
  <2>1. IsFcn(tick, Ticks) /\ IsFcn(trades, Entries) /\ IsFcn(entry, Entries)
    BY DEF Init, IsFcn
  <2>2. TickRec(NoTick) /\ TradeRec(NoTrade) /\ EntryRec(NoEntry)
    BY DEF TickRec, NoTick, TradeRec, NoTrade, EntryRec, NoEntry
  <2>3. reg \in Seq(Entries) /\ moved \in [Entries -> Nat]
    BY DEF Init
  <2> QED
    BY <1>1, <2>1, <2>2, <2>3 DEF Shapes
<1>3. \A t \in Ticks : tick[t].pc = "idle"
  BY <1>1 DEF NoTick
<1>4. \A c \in Entries : entry[c].pc = "idle" /\ ~Known(c)
  BY <1>1, <1>3 DEF NoEntry, Known, Registered, Visits, Working
<1> QED
  BY <1>1, <1>2, <1>3, <1>4
  DEF IInv, Hashed, Ahead, Through, Flagged, Once, OnTrades, Moves, Moving, Working

-----------------------------------------------------------------------------
(* What other steps than the monitor's and an entry's change.              *)
Hushed == UNCHANGED <<trades, reg, tick, moved, entry>>

LEMMA HushedKeeps ==
  ASSUME IInv, Hushed, Hashed', used' \in [entries : Nat, levels : Nat, cancels : Nat, faults : Nat],
         used'.entries = used.entries
  PROVE  IInv'
<1>1. Shapes'
  BY DEF IInv, Shapes, Hushed
<1>2. \A c \in Entries : Known(c)' <=> Known(c)
  BY DEF Known, Registered, Visits, Hushed
<1>3. Ahead' /\ Through' /\ OnTrades'
  BY <1>2 DEF IInv, Ahead, Through, OnTrades, Hushed
<1>4. Flagged' /\ Once'
  BY <1>2 DEF IInv, Flagged, Once, Moves, Hushed
<1> QED
  BY <1>1, <1>3, <1>4 DEF IInv

(* One step of a run: it goes on with the trade it visits, or visits a     *)
(* registered one, and starts to move a stop only when it sets the flag.   *)
LEMMA TickKeeps ==
  ASSUME IInv, NEW t \in Ticks, NEW k, TickRec(k), tick' = [tick EXCEPT ![t] = k],
         UNCHANGED <<reg, moved, entry>>, Hashed',
         used' \in [entries : Nat, levels : Nat, cancels : Nat, faults : Nat], used'.entries = used.entries,
         IsFcn(trades', Entries), \A c \in Entries : TradeRec(trades'[c]),
         \A c \in Entries : trades[c].fired => trades'[c].fired,
         k.pc \in Working => (tick[t].pc \in Working /\ k.c = tick[t].c) \/ k.c \in Registered,
         k.pc \in Moving =>
           (tick[t].pc \in Moving /\ k.c = tick[t].c) \/ (trades'[k.c].fired /\ ~trades[k.c].fired)
  PROVE  IInv'
<1>1. IsFcn(tick, Ticks)
  BY DEF IInv, Shapes
<1>2. IsFcn(tick', Ticks) /\ tick'[t] = k /\ \A u \in Ticks \ {t} : tick'[u] = tick[u]
  BY <1>1 DEF IsFcn
<1>3. Registered' = Registered /\ Registered \subseteq Entries
  BY DEF Registered, IInv, Shapes
<1>4. Shapes'
  <2>1. \A u \in Ticks : TickRec(tick'[u])
    BY <1>2 DEF IInv, Shapes
  <2> QED
    BY <1>2, <2>1 DEF IInv, Shapes
<1>5. \A c \in Entries : Known(c)' => Known(c)
  BY <1>2, <1>3 DEF Known, Visits
<1>6. OnTrades'
  BY <1>2, <1>3 DEF IInv, OnTrades
<1>7. k.pc \in Moving => k.pc \in Working /\ k.c \in Entries /\ Known(k.c)
  <2>1. k.pc \in Moving => k.pc \in Working
    BY DEF Moving, Working
  <2>2. k.pc \in Working => k.c \in Entries
    BY <1>3 DEF IInv, OnTrades
  <2>3. k.pc \in Working => Known(k.c)
    BY DEF Known, Visits
  <2> QED
    BY <2>1, <2>2, <2>3
<1>8. \A c \in Entries : \A u \in Ticks :
        Moves(u, c)' => \/ Moves(u, c)
                        \/ u = t /\ c = k.c /\ trades'[c].fired /\ ~trades[c].fired /\ Known(c)
  BY <1>2, <1>7 DEF Moves
<1>9. \A c \in Entries : ~trades[c].fired /\ Known(c) => moved[c] = 0 /\ \A u \in Ticks : ~Moves(u, c)
  BY DEF IInv, Flagged, Shapes
<1>10. Ahead' /\ Through'
  BY <1>5 DEF IInv, Ahead, Through
<1>11. Flagged'
  <2> SUFFICES ASSUME NEW c \in Entries, moved[c] > 0 \/ \E u \in Ticks : Moves(u, c)'
               PROVE  entry[c].pc = "done" /\ (trades'[c].fired \/ ~Known(c)')
    BY DEF Flagged
  <2>1. CASE moved[c] > 0 \/ \E u \in Ticks : Moves(u, c)
    BY <1>5, <2>1 DEF IInv, Flagged
  <2>2. CASE trades'[c].fired /\ Known(c)
    BY <2>2 DEF IInv, Through
  <2> QED
    BY <1>8, <2>1, <2>2
<1>12. Once'
  <2> SUFFICES ASSUME NEW c \in Entries
               PROVE  /\ moved[c] <= 1
                      /\ \A u \in Ticks : Moves(u, c)' => moved[c] = 0 /\ \A v \in Ticks : Moves(v, c)' => v = u
    BY DEF Once
  <2>1. CASE \A u \in Ticks : Moves(u, c)' => Moves(u, c)
    BY <2>1 DEF IInv, Once
  <2>2. CASE ~trades[c].fired /\ Known(c)
    <3>1. moved[c] = 0 /\ \A u \in Ticks : Moves(u, c)' => u = t
      BY <1>8, <1>9, <2>2
    <3> QED
      BY <3>1
  <2> QED
    BY <1>8, <2>1, <2>2
<1> QED
  BY <1>4, <1>6, <1>10, <1>11, <1>12 DEF IInv

-----------------------------------------------------------------------------
(* The monitor's steps are made of these.                                  *)

UsedType == [entries : Nat, levels : Nat, cancels : Nat, faults : Nat]
Rest == UNCHANGED <<reg, moved, entry>> /\ Hashed' /\ used' \in UsedType /\ used'.entries = used.entries
TradesGoOn ==
  /\ IsFcn(trades', Entries) /\ \A c \in Entries : TradeRec(trades'[c])
  /\ \A c \in Entries : trades[c].fired => trades'[c].fired

(* The trade tk is about is the one visited, or a registered one.          *)
Comes(t, tk) == (tick[t].pc \in Working /\ tk.c = tick[t].c) \/ tk.c \in Registered

LEMMA ComesToEntries ==
  ASSUME IInv, NEW t \in Ticks, NEW tk, Comes(t, tk)
  PROVE  tk.c \in Entries
<1>1. Registered \subseteq Entries
  BY DEF Registered, IInv, Shapes
<1> QED
  BY <1>1 DEF Comes, IInv, OnTrades

LEMMA TradesStay == ASSUME IInv, UNCHANGED trades PROVE TradesGoOn
BY DEF TradesGoOn, IInv, Shapes

LEMMA TradeSet ==
  ASSUME IInv, NEW c \in Entries, NEW r, TradeRec(r), trades[c].fired => r.fired,
         trades' = [trades EXCEPT ![c] = r]
  PROVE  TradesGoOn /\ trades'[c] = r
<1>1. IsFcn(trades, Entries) /\ \A d \in Entries : TradeRec(trades[d])
  BY DEF IInv, Shapes
<1>2. IsFcn(trades', Entries) /\ trades'[c] = r /\ \A d \in Entries \ {c} : trades'[d] = trades[d]
  BY <1>1 DEF IsFcn
<1> QED
  BY <1>1, <1>2 DEF TradesGoOn

LEMMA AtKeeps ==
  ASSUME IInv, NEW t \in Ticks, NEW tk, TickRec(tk), NEW where, At(t, where, tk), Rest, TradesGoOn,
         where \in Working => Comes(t, tk),
         where \in Moving =>
           (tick[t].pc \in Moving /\ tk.c = tick[t].c) \/ (trades'[tk.c].fired /\ ~trades[tk.c].fired)
  PROVE  IInv'
<1> DEFINE k == [tk EXCEPT !.pc = where]
<1>1. TickRec(k) /\ k.pc = where /\ k.c = tk.c
  BY TickExcept
<1>2. tick' = [tick EXCEPT ![t] = k]
  BY DEF At
<1> HIDE DEF k
<1>3. /\ UNCHANGED <<reg, moved, entry>> /\ Hashed' /\ used'.entries = used.entries
      /\ used' \in [entries : Nat, levels : Nat, cancels : Nat, faults : Nat]
  BY DEF Rest, UsedType
<1>4. k.pc \in Working => (tick[t].pc \in Working /\ k.c = tick[t].c) \/ k.c \in Registered
  BY <1>1 DEF Comes
<1>5. k.pc \in Moving =>
        (tick[t].pc \in Moving /\ k.c = tick[t].c) \/ (trades'[k.c].fired /\ ~trades[k.c].fired)
  BY <1>1
<1> QED
  BY <1>1, <1>2, <1>3, <1>4, <1>5, TickKeeps DEF TradesGoOn

(* A run that turns to another trade, or that ends.                        *)
LEMMA TurnKeeps ==
  ASSUME IInv, NEW t \in Ticks, NEW k, TickRec(k), k.pc \in {"loop", "idle", "orders", "recover"},
         tick' = [tick EXCEPT ![t] = k], Rest, TradesGoOn
  PROVE  IInv'
<1>1. /\ UNCHANGED <<reg, moved, entry>> /\ Hashed' /\ used'.entries = used.entries
      /\ used' \in [entries : Nat, levels : Nat, cancels : Nat, faults : Nat]
  BY DEF Rest, UsedType
<1>2. k.pc \notin Working /\ k.pc \notin Moving
  BY DEF Working, Moving
<1> QED
  BY <1>1, <1>2, TickKeeps DEF TradesGoOn

LEMMA NoTickRec == TickRec(NoTick) /\ NoTick.pc = "idle"
BY DEF TickRec, NoTick

LEMMA LoopRec ==
  ASSUME NEW seen, NEW visited
  PROVE  LET k == [NoTick EXCEPT !.pc = "loop", !.seen = seen, !.visited = visited]
         IN  TickRec(k) /\ k.pc = "loop"
<1> DEFINE k1 == [NoTick EXCEPT !.pc = "loop"]
           k2 == [k1 EXCEPT !.seen = seen]
           k3 == [k2 EXCEPT !.visited = visited]
<1>1. TickRec(k1) /\ k1.pc = "loop"
  BY NoTickRec, TickExcept
<1> HIDE DEF k1
<1>2. TickRec(k2) /\ k2.pc = "loop"
  BY <1>1, TickFields
<1> HIDE DEF k2
<1>3. TickRec(k3) /\ k3.pc = "loop"
  BY <1>2, TickFields
<1>4. k3 = [NoTick EXCEPT !.pc = "loop", !.seen = seen, !.visited = visited]
  BY DEF k1, k2
<1> QED
  BY <1>3, <1>4

LEMMA ContinueKeeps ==
  ASSUME IInv, NEW t \in Ticks, NEW tk, Continue(t, tk), Rest, TradesGoOn
  PROVE  IInv'
<1> DEFINE k == [NoTick EXCEPT !.pc = "loop", !.seen = tk.seen, !.visited = tk.visited \cup {tk.c}]
<1>1. TickRec(k) /\ k.pc = "loop"
  BY LoopRec
<1>2. tick' = [tick EXCEPT ![t] = k]
  BY DEF Continue
<1> HIDE DEF k
<1> QED
  BY <1>1, <1>2, TurnKeeps

LEMMA EndOfVisitKeeps ==
  ASSUME IInv, NEW t \in Ticks, NEW tk, TickRec(tk), EndOfVisit(t, tk), Rest, TradesGoOn, Comes(t, tk)
  PROVE  IInv'
<1>1. CASE At(t, "closed", tk)
  BY <1>1, AtKeeps DEF Moving
<1>2. CASE Continue(t, tk)
  BY <1>2, ContinueKeeps
<1> QED
  BY <1>1, <1>2 DEF EndOfVisit

(* Only a visit that finds the flag down goes on to move the stop.         *)
LEMMA ApplyFillsKeeps ==
  ASSUME IInv, NEW t \in Ticks, NEW tk, TickRec(tk), NEW tr, TradeRec(tr), Comes(t, tk),
         tr.fired = trades[tk.c].fired, ApplyFills(t, tk, tr), Rest
  PROVE  IInv'
<1>1. tk.c \in Entries
  BY ComesToEntries
<1>2. CASE tk.just = {}
  <2>1. TradesGoOn
    BY <1>1, <1>2, TradeSet DEF ApplyFills
  <2> QED
    BY <1>2, <2>1, ContinueKeeps DEF ApplyFills
<1>3. CASE tk.just # {}
  <2> DEFINE r == [tr EXCEPT !.tps = tk.still, !.fired = TRUE]
  <2> DEFINE q == [tr EXCEPT !.tps = tk.still]
  <2>0. TradeRec(q) /\ r = [q EXCEPT !.fired = TRUE]
    BY TradeExcept
  <2> HIDE DEF q
  <2>1. TradeRec(r) /\ r.fired = TRUE
    BY <2>0, TradeExcept
  <2>2. trades' = [trades EXCEPT ![tk.c] = r]
    BY <1>3 DEF ApplyFills
  <2> HIDE DEF r
  <2>3. TradesGoOn /\ trades'[tk.c].fired
    BY <1>1, <2>1, <2>2, TradeSet
  <2>4. CASE tr.fired
    BY <1>3, <2>3, <2>4, EndOfVisitKeeps DEF ApplyFills
  <2>5. CASE ~tr.fired
    <3>1. PICK where \in {"cancel", "size"} : At(t, where, tk)
      BY <1>3, <2>5 DEF ApplyFills
    <3> QED
      BY <2>3, <2>5, <3>1, AtKeeps
  <2> QED
    BY <2>4, <2>5
<1> QED
  BY <1>2, <1>3

LEMMA LookAtStopKeeps ==
  ASSUME IInv, NEW t \in Ticks, NEW tk, TickRec(tk), Comes(t, tk), LookAtStop(t, tk), Rest
  PROVE  IInv'
<1>1. tk.c \in Entries
  BY ComesToEntries
<1>2. TradeRec(trades[tk.c])
  BY <1>1 DEF IInv, Shapes
<1>3. CASE At(t, "stopgone", tk) /\ UNCHANGED trades
  BY <1>3, TradesStay, AtKeeps DEF Moving
<1>4. CASE ApplyFills(t, tk, trades[tk.c])
  BY <1>2, <1>4, ApplyFillsKeeps
<1> QED
  BY <1>3, <1>4 DEF LookAtStop

LEMMA DeletedGoesOn == ASSUME IInv, NEW c \in Entries, Deleted(c) PROVE TradesGoOn
<1> DEFINE r == [trades[c] EXCEPT !.live = FALSE]
<1>1. TradeRec(r) /\ r.fired = trades[c].fired
  <2>1. TradeRec(trades[c])
    BY DEF IInv, Shapes
  <2> QED
    BY <2>1, TradeExcept
<1>2. trades' = [trades EXCEPT ![c] = r]
  BY DEF Deleted
<1> HIDE DEF r
<1> QED
  BY <1>1, <1>2, TradeSet

(* What the exchange's answers change besides.                             *)
LEMMA UsedStays == ASSUME IInv, UNCHANGED used PROVE used' \in UsedType /\ used'.entries = used.entries
BY DEF IInv, Shapes, UsedType

LEMMA FaultyKeeps == ASSUME IInv, NEW b \in BOOLEAN, Faulty(b) PROVE used' \in UsedType /\ used'.entries = used.entries
BY UsedGoesOn DEF IInv, Shapes, UsedType

LEMMA FewerHashed == ASSUME IInv, orders' \subseteq orders PROVE Hashed'
BY DEF IInv, Hashed

LEMMA PlacedKeeps ==
  ASSUME IInv, NEW kind, NEW id, NEW price, NEW size, NEW ack \in Acks, Placed(Order(kind, id, price, size), ack)
  PROVE  Hashed' /\ used' \in UsedType /\ used'.entries = used.entries
<1>1. Hashed'
  BY OrderIsHashed DEF Placed, IInv, Hashed
<1>2. (ack # "ok" /\ pos > 0) \in BOOLEAN
  OBVIOUS
<1> QED
  BY <1>1, <1>2, FaultyKeeps DEF Placed

LEMMA CancelledKeeps ==
  ASSUME IInv, NEW ids, NEW failed \in BOOLEAN, Cancelled(ids, failed)
  PROVE  Hashed' /\ used' \in UsedType /\ used'.entries = used.entries
<1>1. orders' \subseteq orders
  BY DEF Cancelled
<1> QED
  BY <1>1, FewerHashed, FaultyKeeps DEF Cancelled

LEMMA PositionReadKeeps ==
  ASSUME IInv, NEW size, PositionRead(size)
  PROVE  used' \in UsedType /\ used'.entries = used.entries
BY FaultyKeeps DEF PositionRead

-----------------------------------------------------------------------------
(* The monitor                                                             *)

LEMMA TickIsRec == ASSUME IInv, NEW t \in Ticks PROVE TickRec(tick[t])
BY DEF IInv, Shapes

LEMMA TickStartKeeps == ASSUME IInv, NEW t \in Ticks, TickStart(t) PROVE IInv'
<1>1. Rest /\ TradesGoOn
  <2>1. UNCHANGED <<reg, moved, entry, orders, used, trades>>
    BY DEF TickStart, exchange
  <2> QED
    BY <2>1, FewerHashed, UsedStays, TradesStay DEF Rest
<1>2. PICK where \in {"recover", "orders"} : tick' = [tick EXCEPT ![t] = [tick[t] EXCEPT !.pc = where]]
  BY DEF TickStart
<1> DEFINE k == [tick[t] EXCEPT !.pc = where]
<1>3. TickRec(k) /\ k.pc = where
  BY TickIsRec, TickExcept
<1> HIDE DEF k
<1> QED
  BY <1>1, <1>2, <1>3, TurnKeeps DEF k

(* The hashed ids show the recovery no trade that it would set back.       *)
LEMMA NothingRecovered == ASSUME IInv, NEW t \in Ticks, TickRecover(t) PROVE trades' = trades
<1>1. \A c \in Entries : Recovered(c) = trades[c]
  <2>1. \A o \in orders, c \in Entries : ~SystemManaged(o, "tptr", c)
    BY DEF IInv, Hashed, SystemManaged
  <2> QED
    BY <2>1 DEF Recovered
<1>2. [c \in Entries |-> Recovered(c)] = trades
  BY <1>1 DEF IInv, Shapes, IsFcn
<1> QED
  BY <1>2 DEF TickRecover

LEMMA TickRecoverKeeps == ASSUME IInv, NEW t \in Ticks, TickRecover(t) PROVE IInv'
<1>1. trades' = trades
  BY NothingRecovered
<1>2. Rest /\ TradesGoOn
  <2>1. UNCHANGED <<reg, moved, entry, orders>> /\ used' \in UsedType /\ used'.entries = used.entries
    BY FaultyKeeps DEF TickRecover, exchange
  <2> QED
    BY <1>1, <2>1, FewerHashed, TradesStay DEF Rest
<1>3. PICK where \in {"orders", "idle"} : tick' = [tick EXCEPT ![t] = [tick[t] EXCEPT !.pc = where]]
  BY DEF TickRecover
<1> DEFINE k == [tick[t] EXCEPT !.pc = where]
<1>4. TickRec(k) /\ k.pc = where
  BY TickIsRec, TickExcept
<1> HIDE DEF k
<1> QED
  BY <1>2, <1>3, <1>4, TurnKeeps DEF k

LEMMA TickReadKeeps == ASSUME IInv, NEW t \in Ticks, TickRead(t) PROVE IInv'
<1>1. Rest /\ TradesGoOn
  <2>1. UNCHANGED <<reg, moved, entry, orders, trades>> /\ used' \in UsedType /\ used'.entries = used.entries
    BY FaultyKeeps DEF TickRead, exchange
  <2> QED
    BY <2>1, FewerHashed, TradesStay DEF Rest
<1>2. CASE tick' = [tick EXCEPT ![t] = [NoTick EXCEPT !.pc = "loop", !.seen = Ids(orders)]]
  <2> DEFINE k1 == [NoTick EXCEPT !.pc = "loop"]
             k2 == [k1 EXCEPT !.seen = Ids(orders)]
  <2>1. TickRec(k1) /\ k1.pc = "loop"
    BY NoTickRec, TickExcept
  <2> HIDE DEF k1
  <2>2. TickRec(k2) /\ k2.pc = "loop"
    BY <2>1, TickFields
  <2>3. tick' = [tick EXCEPT ![t] = k2]
    BY <1>2 DEF k1
  <2> HIDE DEF k2
  <2> QED
    BY <1>1, <2>2, <2>3, TurnKeeps
<1>3. CASE tick' = [tick EXCEPT ![t] = NoTick]
  BY <1>1, <1>3, NoTickRec, TurnKeeps
<1> QED
  BY <1>2, <1>3 DEF TickRead

(* A visit begins with a registered trade, or the run ends.                *)
LEMMA TickVisitKeeps == ASSUME IInv, NEW t \in Ticks, TickVisit(t) PROVE IInv'
<1>1. Rest
  <2>1. UNCHANGED <<reg, moved, entry, orders, used>>
    BY DEF TickVisit, exchange
  <2> QED
    BY <2>1, FewerHashed, UsedStays DEF Rest
<1>2. CASE tick' = [tick EXCEPT ![t] = NoTick] /\ UNCHANGED trades
  BY <1>1, <1>2, NoTickRec, TradesStay, TurnKeeps
<1>3. ASSUME NEW i \in Left(t), NEW tk,
             tk = [tick[t] EXCEPT !.c = reg[i], !.still = trades[reg[i]].tps \cap tick[t].seen,
                                  !.just = trades[reg[i]].tps \ tick[t].seen],
             (At(t, "timepos", tk) /\ UNCHANGED trades) \/ LookAtStop(t, tk)
      PROVE  IInv'
  <2>1. TickRec(tk) /\ tk.c = reg[i]
    <3> DEFINE k1 == [tick[t] EXCEPT !.c = reg[i]]
               k2 == [k1 EXCEPT !.still = trades[reg[i]].tps \cap tick[t].seen]
               k3 == [k2 EXCEPT !.just = trades[reg[i]].tps \ tick[t].seen]
    <3>0. TickRec(tick[t])
      BY TickIsRec
    <3>1. TickRec(k1) /\ k1.c = reg[i]
      BY <3>0 DEF TickRec
    <3>2. tk = k3
      BY <1>3
    <3> HIDE DEF k1
    <3>3. TickRec(k2) /\ k2.c = reg[i]
      BY <3>1, TickFields
    <3> HIDE DEF k2
    <3>4. TickRec(k3) /\ k3.c = reg[i]
      BY <3>3, TickFields
    <3> QED
      BY <3>2, <3>4
  <2>2. Comes(t, tk)
    BY <2>1 DEF Comes, Registered, Left
  <2>3. CASE At(t, "timepos", tk) /\ UNCHANGED trades
    BY <1>1, <2>1, <2>2, <2>3, TradesStay, AtKeeps DEF Moving
  <2>4. CASE LookAtStop(t, tk)
    BY <1>1, <2>1, <2>2, <2>4, LookAtStopKeeps
  <2> QED
    BY <1>3, <2>3, <2>4
<1> QED
  BY <1>2, <1>3 DEF TickVisit

(* A run in the middle of a visit.                                         *)
LEMMA OnVisit ==
  ASSUME IInv, NEW t \in Ticks, tick[t].pc \in Working
  PROVE  TickRec(tick[t]) /\ Comes(t, tick[t]) /\ tick[t].c \in Entries /\ TradeRec(trades[tick[t].c])
<1>1. TickRec(tick[t]) /\ Comes(t, tick[t]) /\ tick[t].c \in Entries
  BY TickIsRec DEF Comes, IInv, OnTrades
<1> QED
  BY <1>1 DEF IInv, Shapes

LEMMA TimeStopReadKeeps == ASSUME IInv, NEW t \in Ticks, TimeStopRead(t) PROVE IInv'
<1>1. tick[t].pc \in Working
  BY DEF TimeStopRead, Working
<1>2. PICK size : /\ PositionRead(size)
                  /\ \/ Deleted(tick[t].c) /\ Continue(t, tick[t])
                     \/ At(t, "timeclose", [tick[t] EXCEPT !.size = size]) /\ UNCHANGED trades
  BY DEF TimeStopRead
<1>3. Rest
  <2>1. UNCHANGED <<reg, moved, entry, orders>>
    BY DEF TimeStopRead, exchange
  <2> QED
    BY <1>2, <2>1, FewerHashed, PositionReadKeeps DEF Rest
<1>4. CASE Deleted(tick[t].c) /\ Continue(t, tick[t])
  BY <1>1, <1>3, <1>4, OnVisit, DeletedGoesOn, ContinueKeeps
<1>5. CASE At(t, "timeclose", [tick[t] EXCEPT !.size = size]) /\ UNCHANGED trades
  <2> DEFINE tk == [tick[t] EXCEPT !.size = size]
  <2>1. TickRec(tk) /\ tk.c = tick[t].c
    BY TickIsRec, TickFields
  <2>2. At(t, "timeclose", tk)
    BY <1>5
  <2> HIDE DEF tk
  <2>3. Comes(t, tk)
    BY <1>1, <2>1 DEF Comes
  <2> QED
    BY <1>3, <1>5, <2>1, <2>2, <2>3, TradesStay, AtKeeps DEF Moving
<1> QED
  BY <1>2, <1>4, <1>5

LEMMA TimeStopCloseKeeps == ASSUME IInv, NEW t \in Ticks, TimeStopClose(t) PROVE IInv'
<1>1. tick[t].pc \in Working
  BY DEF TimeStopClose, Working
<1>2. Rest
  <2>1. UNCHANGED <<reg, moved, entry, orders>> /\ \E b \in BOOLEAN : Faulty(b)
    BY DEF TimeStopClose
  <2> QED
    BY <2>1, FewerHashed, FaultyKeeps DEF Rest
<1>3. CASE At(t, "timecancel", tick[t]) /\ UNCHANGED trades
  BY <1>1, <1>2, <1>3, OnVisit, TradesStay, AtKeeps DEF Moving
<1>4. CASE LookAtStop(t, tick[t])
  BY <1>1, <1>2, <1>4, OnVisit, LookAtStopKeeps
<1> QED
  BY <1>3, <1>4 DEF TimeStopClose

LEMMA TimeStopCancelKeeps == ASSUME IInv, NEW t \in Ticks, TimeStopCancel(t) PROVE IInv'
<1>1. tick[t].pc \in Working
  BY DEF TimeStopCancel, Working
<1>2. Rest
  BY CancelledKeeps DEF TimeStopCancel, Rest
<1> QED
  BY <1>1, <1>2, OnVisit, DeletedGoesOn, ContinueKeeps DEF TimeStopCancel

LEMMA StopGoneKeeps == ASSUME IInv, NEW t \in Ticks, StopGone(t) PROVE IInv'
<1>1. tick[t].pc \in Working
  BY DEF StopGone, Working
<1>2. PICK size : /\ PositionRead(size)
                  /\ \/ Deleted(tick[t].c) /\ Continue(t, tick[t])
                     \/ \E sl : ApplyFills(t, tick[t], [trades[tick[t].c] EXCEPT !.sl = sl])
  BY DEF StopGone
<1>3. Rest
  <2>1. UNCHANGED <<reg, moved, entry, orders>>
    BY DEF StopGone, exchange
  <2> QED
    BY <1>2, <2>1, FewerHashed, PositionReadKeeps DEF Rest
<1>4. CASE Deleted(tick[t].c) /\ Continue(t, tick[t])
  BY <1>1, <1>3, <1>4, OnVisit, DeletedGoesOn, ContinueKeeps
<1>5. ASSUME NEW sl, ApplyFills(t, tick[t], [trades[tick[t].c] EXCEPT !.sl = sl]) PROVE IInv'
  <2> DEFINE tr == [trades[tick[t].c] EXCEPT !.sl = sl]
  <2>1. TradeRec(tr) /\ tr.fired = trades[tick[t].c].fired
    BY <1>1, OnVisit, TradeExcept
  <2>2. ApplyFills(t, tick[t], tr)
    BY <1>5
  <2> HIDE DEF tr
  <2> QED
    BY <1>1, <1>3, <2>1, <2>2, OnVisit, ApplyFillsKeeps
<1> QED
  BY <1>2, <1>4, <1>5

LEMMA MoveCancelKeeps == ASSUME IInv, NEW t \in Ticks, MoveCancel(t) PROVE IInv'
<1>1. tick[t].pc = "cancel" /\ tick[t].pc \in Working /\ tick[t].pc \in Moving
  BY DEF MoveCancel, Working, Moving
<1>2. Rest /\ UNCHANGED trades /\ At(t, "size", tick[t])
  BY CancelledKeeps DEF MoveCancel, Rest
<1> QED
  BY <1>1, <1>2, OnVisit, TradesStay, AtKeeps

LEMMA MoveReadKeeps == ASSUME IInv, NEW t \in Ticks, MoveRead(t) PROVE IInv'
<1>1. tick[t].pc = "size" /\ tick[t].pc \in Working /\ tick[t].pc \in Moving
  BY DEF MoveRead, Working, Moving
<1>2. Rest /\ UNCHANGED trades
  <2>1. UNCHANGED <<reg, moved, entry, orders, trades>> /\ \E size : PositionRead(size)
    BY DEF MoveRead, exchange
  <2> QED
    BY <2>1, FewerHashed, PositionReadKeeps DEF Rest
<1>3. CASE At(t, "place", tick[t])
  BY <1>1, <1>2, <1>3, OnVisit, TradesStay, AtKeeps
<1>4. CASE EndOfVisit(t, tick[t])
  BY <1>1, <1>2, <1>4, OnVisit, TradesStay, EndOfVisitKeeps
<1> QED
  BY <1>3, <1>4 DEF MoveRead

LEMMA AllFilledKeeps == ASSUME IInv, NEW t \in Ticks, AllFilled(t) PROVE IInv'
<1>1. tick[t].pc \in Working
  BY DEF AllFilled, Working
<1>2. Rest
  <2>1. UNCHANGED <<reg, moved, entry, orders, used>>
    BY DEF AllFilled, exchange
  <2> QED
    BY <2>1, FewerHashed, UsedStays DEF Rest
<1> QED
  BY <1>1, <1>2, OnVisit, DeletedGoesOn, ContinueKeeps DEF AllFilled

(* The one step that counts: it leaves no run on its way to move this stop.*)
LEMMA MovePlaceKeeps == ASSUME IInv, NEW t \in Ticks, MovePlace(t) PROVE IInv'
<1>0. PICK c : c = tick[t].c
  OBVIOUS
<1>1. tick[t].pc = "place" /\ tick[t].pc \in Working /\ tick[t].pc \in Moving /\ Moves(t, c)
  BY <1>0 DEF MovePlace, Working, Moving, Moves
<1>2. c \in Entries /\ TickRec(tick[t]) /\ TradeRec(trades[c])
  BY <1>0, <1>1, OnVisit
<1>3. PICK ack \in Acks : /\ Placed(Order("sl", <<"be-sl", c, 0>>, EntryPrice, 0), ack)
                          /\ trades' = [trades EXCEPT ![c] = [@ EXCEPT !.sl = AckId(Order("sl", <<"be-sl", c, 0>>, EntryPrice, 0), ack)]]
  BY <1>0 DEF MovePlace
<1>4. Hashed' /\ used' \in UsedType /\ used'.entries = used.entries
  BY <1>3, PlacedKeeps
<1>5. UNCHANGED <<reg, entry>> /\ moved' = [moved EXCEPT ![c] = @ + 1] /\ EndOfVisit(t, tick[t])
  BY <1>0 DEF MovePlace
<1>6. TradesGoOn
  <2> DEFINE r == [trades[c] EXCEPT !.sl = AckId(Order("sl", <<"be-sl", c, 0>>, EntryPrice, 0), ack)]
  <2>1. TradeRec(r) /\ r.fired = trades[c].fired
    BY <1>2, TradeExcept
  <2>2. trades' = [trades EXCEPT ![c] = r]
    BY <1>3
  <2> HIDE DEF r
  <2> QED
    BY <1>2, <2>1, <2>2, TradeSet
<1>7. PICK k : TickRec(k) /\ k.pc \in {"closed", "loop"} /\ tick' = [tick EXCEPT ![t] = k] /\ (k.pc = "closed" => k.c = c)
  <2>1. CASE At(t, "closed", tick[t])
    <3> DEFINE k == [tick[t] EXCEPT !.pc = "closed"]
    <3>1. TickRec(k) /\ k.pc = "closed" /\ k.c = c
      BY <1>0, <1>2, TickExcept
    <3> HIDE DEF k
    <3> QED
      BY <2>1, <3>1 DEF At, k
  <2>2. CASE Continue(t, tick[t])
    <3> DEFINE k == [NoTick EXCEPT !.pc = "loop", !.seen = tick[t].seen, !.visited = tick[t].visited \cup {tick[t].c}]
    <3>1. TickRec(k) /\ k.pc = "loop"
      BY LoopRec
    <3> HIDE DEF k
    <3> QED
      BY <2>2, <3>1 DEF Continue, k
  <2> QED
    BY <1>5, <2>1, <2>2 DEF EndOfVisit
<1>8. IsFcn(tick', Ticks) /\ tick'[t] = k /\ \A u \in Ticks \ {t} : tick'[u] = tick[u]
  BY <1>7 DEF IInv, Shapes, IsFcn
<1>9. moved' \in [Entries -> Nat] /\ moved'[c] = moved[c] + 1 /\ \A d \in Entries \ {c} : moved'[d] = moved[d]
  BY <1>2, <1>5 DEF IInv, Shapes
<1>10. Shapes'
  <2>1. \A u \in Ticks : TickRec(tick'[u])
    BY <1>7, <1>8 DEF IInv, Shapes
  <2> QED
    BY <1>4, <1>5, <1>6, <1>8, <1>9, <2>1 DEF IInv, Shapes, TradesGoOn, UsedType
<1>11. Registered' = Registered
  BY <1>5 DEF Registered
<1>12. \A d \in Entries : Known(d)' => Known(d)
  BY <1>0, <1>1, <1>7, <1>8, <1>11 DEF Known, Visits, Working
<1>13. OnTrades' /\ Ahead' /\ Through'
  <2>1. OnTrades'
    BY <1>2, <1>7, <1>8 DEF IInv, OnTrades, Working
  <2> QED
    BY <1>4, <1>5, <1>12, <2>1 DEF IInv, Ahead, Through
<1>14. \A u \in Ticks, d \in Entries : Moves(u, d)' => Moves(u, d) /\ u # t
  BY <1>7, <1>8 DEF Moves, Moving
<1>15. moved[c] = 0 /\ (\A u \in Ticks : Moves(u, c) => u = t) /\ entry[c].pc = "done" /\ trades[c].fired
  <2>1. Known(c)
    BY <1>0, <1>1 DEF Known, Visits
  <2> QED
    BY <1>1, <1>2, <2>1 DEF IInv, Once, Flagged
<1>16. \A u \in Ticks : ~Moves(u, c)'
  BY <1>2, <1>14, <1>15
<1>17. Once'
  <2> SUFFICES ASSUME NEW d \in Entries
               PROVE  /\ moved'[d] <= 1
                      /\ \A u \in Ticks : Moves(u, d)' => moved'[d] = 0 /\ \A v \in Ticks : Moves(v, d)' => v = u
    BY DEF Once
  <2>1. CASE d = c
    BY <1>9, <1>15, <1>16, <2>1
  <2>2. CASE d # c
    BY <1>9, <1>14, <2>2 DEF IInv, Once
  <2> QED
    BY <2>1, <2>2
<1>18. Flagged'
  <2> SUFFICES ASSUME NEW d \in Entries, moved'[d] > 0 \/ \E u \in Ticks : Moves(u, d)'
               PROVE  entry'[d].pc = "done" /\ (trades'[d].fired \/ ~Known(d)')
    BY DEF Flagged
  <2>1. CASE d = c
    BY <1>5, <1>6, <1>15, <2>1 DEF TradesGoOn
  <2>2. CASE d # c
    <3>1. moved[d] > 0 \/ \E u \in Ticks : Moves(u, d)
      BY <1>9, <1>14, <2>2
    <3>2. entry[d].pc = "done" /\ (trades[d].fired \/ ~Known(d))
      BY <3>1 DEF IInv, Flagged
    <3> QED
      BY <1>5, <1>6, <1>12, <3>2 DEF TradesGoOn
  <2> QED
    BY <2>1, <2>2
<1> QED
  BY <1>4, <1>10, <1>13, <1>17, <1>18 DEF IInv

LEMMA MonitorKeeps == ASSUME IInv, NEW t \in Ticks, Tick(t) PROVE IInv'
BY TickStartKeeps, TickRecoverKeeps, TickReadKeeps, TickVisitKeeps, TimeStopReadKeeps, TimeStopCloseKeeps,
   TimeStopCancelKeeps, StopGoneKeeps, MoveCancelKeeps, MoveReadKeeps, MovePlaceKeeps, AllFilledKeeps DEF Tick

-----------------------------------------------------------------------------
(* An entry comes upon a trade that nobody knows.                          *)

LEMMA EntryStep ==
  ASSUME IInv, NEW c \in Entries, NEW e, EntryRec(e), entry' = [entry EXCEPT ![c] = e],
         ~Known(c), moved[c] = 0, UNCHANGED <<tick, moved>>, Hashed',
         used' \in UsedType, used'.entries >= used.entries, c <= used'.entries,
         \/ UNCHANGED <<trades, reg>> /\ entry[c].pc # "done"
         \/ /\ e.pc = "done" /\ reg' = Append(reg, c) /\ \E r : TradeRec(r) /\ trades' = [trades EXCEPT ![c] = r]
  PROVE  IInv'
<1>1. IsFcn(entry', Entries) /\ entry'[c] = e /\ \A d \in Entries \ {c} : entry'[d] = entry[d]
  BY DEF IInv, Shapes, IsFcn
<1>2. /\ IsFcn(trades', Entries) /\ \A d \in Entries : TradeRec(trades'[d])
      /\ \A d \in Entries \ {c} : trades'[d] = trades[d]
  BY DEF IInv, Shapes, IsFcn
<1>3. reg' \in Seq(Entries) /\ Registered' \subseteq Registered \cup {c}
      /\ (Registered' # Registered => e.pc = "done")
  <2>1. reg \in Seq(Entries)
    BY DEF IInv, Shapes
  <2>2. CASE reg' = reg
    BY <2>1, <2>2 DEF Registered
  <2>3. CASE reg' = Append(reg, c) /\ e.pc = "done"
    BY <2>1, <2>3 DEF Registered
  <2> QED
    BY <2>2, <2>3
<1>4. Shapes'
  <2>1. \A d \in Entries : EntryRec(entry'[d])
    BY <1>1 DEF IInv, Shapes
  <2> QED
    BY <1>1, <1>2, <1>3, <2>1 DEF IInv, Shapes, UsedType
<1>5. \A u \in Ticks, d \in Entries : Visits(u, d)' = Visits(u, d) /\ Moves(u, d)' = Moves(u, d)
  BY DEF Visits, Moves
<1>6. \A d \in Entries \ {c} : Known(d)' => Known(d)
  BY <1>3, <1>5 DEF Known
<1>7. \A u \in Ticks : ~Moves(u, c)
  BY DEF Known, Visits, Moves, Working, Moving
<1>8. Known(c)' => e.pc = "done"
  BY <1>3, <1>5 DEF Known
<1>9. Ahead'
  <2> SUFFICES ASSUME NEW d \in Entries, d > used'.entries PROVE entry'[d].pc = "idle"
    BY DEF Ahead
  <2>1. d # c /\ d > used.entries
    BY DEF Entries, UsedType, IInv, Shapes
  <2> QED
    BY <1>1, <2>1 DEF IInv, Ahead
<1>10. Through'
  BY <1>1, <1>6, <1>8 DEF IInv, Through
<1>11. OnTrades'
  BY DEF IInv, OnTrades
<1>12. Flagged' /\ Once'
  BY <1>1, <1>2, <1>5, <1>6, <1>7 DEF IInv, Flagged, Once, Shapes
<1> QED
  BY <1>4, <1>9, <1>10, <1>11, <1>12 DEF IInv

LEMMA EntryExcept ==
  ASSUME NEW e, EntryRec(e), NEW v
  PROVE  /\ EntryRec([e EXCEPT !.pc = v]) /\ [e EXCEPT !.pc = v].pc = v
         /\ EntryRec([e EXCEPT !.k = v]) /\ [e EXCEPT !.k = v].pc = e.pc
         /\ EntryRec([e EXCEPT !.sl = v]) /\ [e EXCEPT !.sl = v].pc = e.pc
         /\ EntryRec([e EXCEPT !.tps = v]) /\ [e EXCEPT !.tps = v].pc = e.pc
<1>1. EntryRec([e EXCEPT !.pc = v]) /\ [e EXCEPT !.pc = v].pc = v
  BY DEF EntryRec
<1>2. EntryRec([e EXCEPT !.k = v]) /\ [e EXCEPT !.k = v].pc = e.pc
  BY DEF EntryRec
<1>3. EntryRec([e EXCEPT !.sl = v]) /\ [e EXCEPT !.sl = v].pc = e.pc
  BY DEF EntryRec
<1>4. EntryRec([e EXCEPT !.tps = v]) /\ [e EXCEPT !.tps = v].pc = e.pc
  BY DEF EntryRec
<1> QED
  BY <1>1, <1>2, <1>3, <1>4

LEMMA ProvidedRec == EntryRec(Provided) /\ Provided.pc = "done"
BY DEF EntryRec, Provided, NoEntry

(* An entry on its way is not known, and its stop was never moved.         *)
LEMMA Unknown ==
  ASSUME IInv, NEW c \in Entries, entry[c].pc # "done"
  PROVE  /\ ~Known(c) /\ moved[c] = 0 /\ EntryRec(entry[c])
         /\ entry[c].pc # "idle" => c <= used.entries
<1>1. ~Known(c)
  BY DEF IInv, Through
<1>2. moved[c] = 0
  BY DEF IInv, Flagged, Shapes
<1>3. entry[c].pc # "idle" => c <= used.entries
  BY DEF IInv, Ahead, Shapes, Entries
<1> QED
  BY <1>1, <1>2, <1>3 DEF IInv, Shapes

LEMMA EntryFillsKeeps == ASSUME IInv, NEW c \in Entries, EntryFills(c) PROVE IInv'
<1>1. c = used.entries + 1 /\ c > used.entries /\ used.entries \in Nat
  BY DEF EntryFills, IInv, Shapes
<1>2. entry[c].pc = "idle"
  BY <1>1 DEF IInv, Ahead
<1>3. used' \in UsedType /\ used'.entries = c
  <2>1. used \in UsedType /\ used' = [used EXCEPT !["entries"] = @ + 1]
    BY DEF EntryFills, Spend, UsedType, IInv, Shapes
  <2> QED
    BY <1>1, <2>1 DEF UsedType
<1>4. UNCHANGED <<trades, reg, tick, moved, orders>> /\ Hashed'
  BY FewerHashed DEF EntryFills, monitor
<1> DEFINE e == [entry[c] EXCEPT !.pc = "stop"]
<1>5. EntryRec(e) /\ entry' = [entry EXCEPT ![c] = e]
  BY <1>2, Unknown, EntryExcept DEF EntryFills
<1> HIDE DEF e
<1>6. used'.entries >= used.entries /\ c <= used'.entries
  BY <1>1, <1>3
<1> QED
  BY <1>2, <1>3, <1>4, <1>5, <1>6, Unknown, EntryStep

LEMMA PlaceStopKeeps == ASSUME IInv, NEW c \in Entries, PlaceStop(c) PROVE IInv'
<1>1. entry[c].pc = "stop"
  BY DEF PlaceStop
<1>2. PICK ack \in Acks :
        /\ Placed(Order("sl", <<"sl-auto", c, 0>>, StopPrice, 0), ack)
        /\ entry' = [entry EXCEPT ![c] = [@ EXCEPT !.pc = "target", !.k = TargetAfter(0),
                                                   !.sl = AckId(Order("sl", <<"sl-auto", c, 0>>, StopPrice, 0), ack)]]
  BY DEF PlaceStop
<1>3. Hashed' /\ used' \in UsedType /\ used'.entries = used.entries
  BY <1>2, PlacedKeeps
<1>4. UNCHANGED <<trades, reg, tick, moved>>
  BY DEF PlaceStop, monitor
<1>5. PICK id : entry' = [entry EXCEPT ![c] = [@ EXCEPT !.pc = "target", !.k = TargetAfter(0), !.sl = id]]
  BY <1>2
<1> DEFINE e1 == [entry[c] EXCEPT !.pc = "target"]
           e2 == [e1 EXCEPT !.k = TargetAfter(0)]
           e3 == [e2 EXCEPT !.sl = id]
<1>6. EntryRec(e1)
  BY <1>1, Unknown, EntryExcept
<1>7. entry' = [entry EXCEPT ![c] = e3]
  BY <1>5
<1> HIDE DEF e1
<1>8. EntryRec(e2)
  BY <1>6, EntryExcept
<1> HIDE DEF e2
<1>9. EntryRec(e3)
  BY <1>8, EntryExcept
<1> HIDE DEF e3
<1>10. c <= used'.entries /\ used'.entries >= used.entries
  BY <1>1, <1>3, Unknown DEF IInv, Shapes
<1> QED
  BY <1>1, <1>3, <1>4, <1>7, <1>9, <1>10, Unknown, EntryStep

LEMMA PlaceTargetKeeps == ASSUME IInv, NEW c \in Entries, PlaceTarget(c) PROVE IInv'
<1>1. entry[c].pc = "target"
  BY DEF PlaceTarget
<1> DEFINE o == Order("tp", <<"tptr", c, entry[c].k>>, EntryPrice + entry[c].k, TpSize(entry[c].k))
<1>0. PICK ack \in Acks :
        LET tps  == entry[c].tps \cup ({AckId(o, ack)} \ {NoId})
            last == TargetAfter(entry[c].k) = 0
            registers == last /\ tps # {} /\ (TpCount > 1 \/ c \in Timed)
        IN /\ Placed(o, ack)
           /\ entry' = [entry EXCEPT ![c] = IF last THEN Provided
                                            ELSE [@ EXCEPT !.k = TargetAfter(entry[c].k), !.tps = tps]]
           /\ trades' = IF registers
                        THEN [trades EXCEPT ![c] = [live |-> TRUE, sl |-> entry[c].sl, tps |-> tps, fired |-> FALSE]]
                        ELSE trades
           /\ reg' = IF registers THEN Append(reg, c) ELSE reg
  BY DEF PlaceTarget
<1> HIDE DEF o
<1> DEFINE tps  == entry[c].tps \cup ({AckId(o, ack)} \ {NoId})
           last == TargetAfter(entry[c].k) = 0
           registers == last /\ tps # {} /\ (TpCount > 1 \/ c \in Timed)
<1>2. /\ Placed(o, ack)
      /\ registers => last
      /\ entry' = [entry EXCEPT ![c] = IF last THEN Provided
                                       ELSE [@ EXCEPT !.k = TargetAfter(entry[c].k), !.tps = tps]]
      /\ trades' = IF registers
                   THEN [trades EXCEPT ![c] = [live |-> TRUE, sl |-> entry[c].sl, tps |-> tps, fired |-> FALSE]]
                   ELSE trades
      /\ reg' = IF registers THEN Append(reg, c) ELSE reg
  BY <1>0
<1>3. Hashed' /\ used' \in UsedType /\ used'.entries = used.entries
  BY <1>2, PlacedKeeps DEF o
<1>4. UNCHANGED <<tick, moved>>
  BY DEF PlaceTarget
<1> HIDE DEF tps, last, registers
<1>5. c <= used'.entries /\ used'.entries >= used.entries
  BY <1>1, <1>3, Unknown DEF IInv, Shapes
<1>6. CASE last
  <2>1. entry' = [entry EXCEPT ![c] = Provided]
    BY <1>2, <1>6
  <2>2. TradeRec([live |-> TRUE, sl |-> entry[c].sl, tps |-> tps, fired |-> FALSE])
    BY DEF TradeRec
  <2>3. \/ UNCHANGED <<trades, reg>> /\ entry[c].pc # "done"
        \/ /\ Provided.pc = "done" /\ reg' = Append(reg, c)
           /\ \E r : TradeRec(r) /\ trades' = [trades EXCEPT ![c] = r]
    BY <1>1, <1>2, <2>2, ProvidedRec
  <2> QED
    BY <1>1, <1>3, <1>4, <1>5, <2>1, <2>3, Unknown, ProvidedRec, EntryStep
<1>7. CASE ~last
  <2> DEFINE e1 == [entry[c] EXCEPT !.k = TargetAfter(entry[c].k)]
             e2 == [e1 EXCEPT !.tps = tps]
  <2>1. EntryRec(e1)
    BY <1>1, Unknown, EntryExcept
  <2>2. entry' = [entry EXCEPT ![c] = e2]
    BY <1>2, <1>7
  <2> HIDE DEF e1
  <2>3. EntryRec(e2)
    BY <2>1, EntryExcept
  <2> HIDE DEF e2
  <2>4. UNCHANGED <<trades, reg>> /\ entry[c].pc # "done"
    BY <1>1, <1>2, <1>7
  <2> QED
    BY <1>1, <1>3, <1>4, <1>5, <2>2, <2>3, <2>4, Unknown, EntryStep
<1> QED
  BY <1>6, <1>7

-----------------------------------------------------------------------------
(* The levels route, the owner and the market leave the monitor alone.     *)

LEMMA OthersKeep ==
  ASSUME IInv,
         LevelsStart \/ LevelsStop \/ LevelsTarget \/ LevelsSingle \/ LevelsEnd \/ HaltExpires
         \/ OwnerCancels \/ ReduceCancel \/ ReducePlace \/ (\E o \in orders : Executes(o)) \/ Swept
  PROVE  IInv'
<1>1. Hushed
  BY DEF LevelsStart, LevelsStop, LevelsTarget, LevelsSingle, LevelsEnd, HaltExpires, OwnerCancels, OwnerActs,
         ReduceCancel, ReducePlace, Executes, Swept, Hushed, monitor
<1>2. used \in UsedType
  BY DEF IInv, Shapes, UsedType
<1>3. ASSUME NEW kind \in {"levels", "cancels"}, Spend(kind)
      PROVE  used' \in UsedType /\ used'.entries = used.entries
  BY <1>2, <1>3 DEF Spend, UsedType
<1>4. Hashed' /\ used' \in UsedType /\ used'.entries = used.entries
  <2>1. CASE LevelsStart
    <3>1. orders' \subseteq orders /\ Spend("levels")
      BY <2>1 DEF LevelsStart, exchange
    <3> QED
      BY <1>3, <3>1, FewerHashed
  <2>2. CASE LevelsStop
    BY <2>2, PlacedKeeps DEF LevelsStop
  <2>3. CASE LevelsTarget
    BY <2>3, PlacedKeeps DEF LevelsTarget
  <2>4. CASE LevelsSingle
    BY <2>4, PlacedKeeps DEF LevelsSingle
  <2>5. CASE LevelsEnd
    BY <2>5, CancelledKeeps DEF LevelsEnd
  <2>6. CASE HaltExpires
    BY <2>6, FewerHashed, UsedStays DEF HaltExpires, exchange
  <2>7. CASE OwnerCancels
    <3>1. orders' \subseteq orders /\ Spend("cancels")
      BY <2>7 DEF OwnerCancels, OwnerActs
    <3> QED
      BY <1>3, <3>1, FewerHashed
  <2>8. CASE ReduceCancel
    <3>1. orders' \subseteq orders /\ Spend("cancels")
      BY <2>8 DEF ReduceCancel, OwnerActs
    <3> QED
      BY <1>3, <3>1, FewerHashed
  <2>9. CASE ReducePlace
    BY <2>9, PlacedKeeps DEF ReducePlace
  <2>10. CASE \E o \in orders : Executes(o)
    BY <2>10, FewerHashed, UsedStays DEF Executes
  <2>11. CASE Swept
    BY <2>11, FewerHashed, UsedStays DEF Swept
  <2> QED
    BY <2>1, <2>2, <2>3, <2>4, <2>5, <2>6, <2>7, <2>8, <2>9, <2>10, <2>11
<1> QED
  BY <1>1, <1>4, HushedKeeps DEF UsedType

(* After a restart the monitor knows no trade, and an entry that had begun *)
(* is taken for one that is through: its trade never comes back.           *)
LEMMA RestartKeeps == ASSUME IInv, Restart PROVE IInv'
<1>1. /\ \A t \in Ticks : tick'[t] = NoTick
      /\ \A c \in Entries : trades'[c] = NoTrade
      /\ \A c \in Entries : entry'[c] = IF entry[c].pc = "idle" THEN NoEntry ELSE Provided
      /\ reg' = <<>> /\ UNCHANGED <<orders, moved>>
  BY DEF Restart, exchange
<1>2. used' \in UsedType /\ used'.entries = used.entries
  BY FaultyKeeps DEF Restart
<1>3. Shapes'
  <2>1. IsFcn(tick', Ticks) /\ IsFcn(trades', Entries) /\ IsFcn(entry', Entries)
    BY DEF Restart, IsFcn
  <2>2. TickRec(NoTick) /\ TradeRec(NoTrade) /\ EntryRec(NoEntry) /\ EntryRec(Provided)
    BY NoTickRec, ProvidedRec DEF TradeRec, NoTrade, EntryRec, NoEntry
  <2>3. reg' \in Seq(Entries) /\ moved' \in [Entries -> Nat]
    BY <1>1 DEF IInv, Shapes
  <2> QED
    BY <1>1, <1>2, <2>1, <2>2, <2>3 DEF Shapes, UsedType
<1>4. \A t \in Ticks : tick'[t].pc = "idle"
  BY <1>1 DEF NoTick
<1>5. \A c \in Entries : ~Known(c)' /\ \A t \in Ticks : ~Moves(t, c)'
  BY <1>1, <1>4 DEF Known, Registered, Visits, Working, Moves, Moving
<1>6. \A c \in Entries : entry'[c].pc = IF entry[c].pc = "idle" THEN "idle" ELSE "done"
  BY <1>1, ProvidedRec DEF NoEntry
<1>7. Hashed' /\ OnTrades'
  BY <1>1, <1>4, FewerHashed DEF OnTrades, Working
<1>8. Ahead' /\ Through'
  BY <1>2, <1>5, <1>6 DEF IInv, Ahead, Through
<1>9. Flagged' /\ Once'
  BY <1>1, <1>5, <1>6 DEF IInv, Flagged, Once
<1> QED
  BY <1>3, <1>7, <1>8, <1>9 DEF IInv

LEMMA ProtectiveNext == ASSUME IInv, [Next]_vars PROVE IInv'
<1>1. CASE UNCHANGED vars
  <2>1. Hushed /\ UNCHANGED <<orders, used>>
    BY <1>1 DEF vars, monitor, exchange, Hushed
  <2> QED
    BY <2>1, FewerHashed, UsedStays, HushedKeeps DEF UsedType
<1>2. CASE \E c \in Entries : EntryFills(c) \/ PlaceStop(c) \/ PlaceTarget(c)
  BY <1>2, EntryFillsKeeps, PlaceStopKeeps, PlaceTargetKeeps
<1>3. CASE \E t \in Ticks : Tick(t)
  BY <1>3, MonitorKeeps
<1>4. CASE Restart
  BY <1>4, RestartKeeps
<1> QED
  BY <1>1, <1>2, <1>3, <1>4, OthersKeep DEF Next

(* A trade's stop is moved to break even once at most, for any number of   *)
(* overlapping runs of the monitor, failed calls, lost answers, crashes    *)
(* and orders the owner takes away (runTpFillMonitorTick sets firstTpFired *)
(* before its first await).                                                *)
THEOREM StopMovedOnce == Spec => []MovedOnce
<1>1. Init => IInv
  BY ProtectiveInit
<1>2. IInv /\ [Next]_vars => IInv'
  BY ProtectiveNext
<1>3. IInv => MovedOnce
  BY DEF IInv, Once, MovedOnce
<1> QED
  BY <1>1, <1>2, <1>3, PTL DEF Spec

-----------------------------------------------------------------------------
(* How an exit is divided among its levels (TakeProfitSplit).              *)
One(b) == IF b THEN 1 ELSE 0

(* A set of levels has as many elements as it contains of 1, 2 and 3.      *)
LEMMA CountLevels ==
  ASSUME NEW S \in SUBSET Levels
  PROVE  Cardinality(S) = One(1 \in S) + One(2 \in S) + One(3 \in S)
<1>1. /\ Cardinality({}) = 0
      /\ \A a \in Levels : IsFiniteSet({a}) /\ Cardinality({a}) = 1
  BY FS_EmptySet, FS_Singleton
<1>2. \A a, b \in Levels : a # b => IsFiniteSet({a, b}) /\ Cardinality({a, b}) = 2
  <2> SUFFICES ASSUME NEW a \in Levels, NEW b \in Levels, a # b
              PROVE  IsFiniteSet({a, b}) /\ Cardinality({a, b}) = 2
    OBVIOUS
  <2>1. {a, b} = {a} \cup {b} /\ b \notin {a}
    OBVIOUS
  <2>2. IsFiniteSet({a}) /\ Cardinality({a}) = 1
    BY <1>1
  <2>3. /\ IsFiniteSet({a} \cup {b})
        /\ Cardinality({a} \cup {b}) = 1 + 1
    BY <2>1, <2>2, FS_AddElement
  <2> QED BY <2>1, <2>3
<1>3. Cardinality({1, 2, 3}) = 3
  <2>1. {1, 2, 3} = {1, 2} \cup {3} /\ 3 \notin {1, 2}
    OBVIOUS
  <2>2. IsFiniteSet({1, 2}) /\ Cardinality({1, 2}) = 2
    BY <1>2 DEF Levels
  <2> QED BY <2>1, <2>2, FS_AddElement
<1>4. S \in {{}, {1}, {2}, {3}, {1, 2}, {1, 3}, {2, 3}, {1, 2, 3}}
  <2>1. Levels = {1, 2, 3}
    BY DEF Levels
  <2>2. S = (IF 1 \in S THEN {1} ELSE {}) \cup (IF 2 \in S THEN {2} ELSE {})
            \cup (IF 3 \in S THEN {3} ELSE {})
    BY <2>1
  <2> QED BY <2>2
<1>5. \A a \in {1, 2, 3} : Cardinality({a}) = 1
  BY <1>1 DEF Levels
<1>6. \A a, b \in {1, 2, 3} : a # b => Cardinality({a, b}) = 2
  BY <1>2 DEF Levels
<1>7. /\ Cardinality({1}) = 1 /\ Cardinality({2}) = 1 /\ Cardinality({3}) = 1
      /\ Cardinality({1, 2}) = 2 /\ Cardinality({1, 3}) = 2 /\ Cardinality({2, 3}) = 2
  BY <1>5, <1>6
<1> QED BY <1>1, <1>3, <1>4, <1>7 DEF One

(* So does the rank of a level.                                            *)
LEMMA RankOfThree ==
  ASSUME NEW t \in Nat, NEW n \in Levels, NEW i \in 1..n
  PROVE  Rank(t, n, i) = One(1 <= n /\ Before(t, n, 1, i))
                       + One(2 <= n /\ Before(t, n, 2, i))
                       + One(3 <= n /\ Before(t, n, 3, i))
<1> DEFINE S == {j \in 1..n : Before(t, n, j, i)}
<1>1. S \in SUBSET Levels
  BY DEF Levels
<1>2. \A k \in Levels : k \in S <=> k <= n /\ Before(t, n, k, i)
  BY DEF Levels
<1>3. Cardinality(S) = One(1 \in S) + One(2 \in S) + One(3 \in S)
  BY <1>1, CountLevels
<1> QED BY <1>2, <1>3 DEF Rank, Levels, One

(* What a split hands out is a natural number of lots on each level, and   *)
(* all levels together are the whole size: splitTakeProfitSizes neither    *)
(* leaves a remainder open nor closes more than the position.              *)
THEOREM SplitIsWhole ==
  ASSUME NEW t \in Nat, NEW n \in Levels
  PROVE  /\ Split(t, n) \in [1..n -> Nat]
         /\ Total(Split(t, n), n) = t
<1>0. \A i \in 1..n : /\ Target(t, n, i) \in Nat
                      /\ Floored(t, n, i) \in Nat
                      /\ Fraction(t, n, i) \in 0..99
                      /\ Target(t, n, i) = 100 * Floored(t, n, i) + Fraction(t, n, i)
  BY DEF Target, Floored, Fraction, Weight, Levels
<1>1. Split(t, n) \in [1..n -> Nat]
  BY <1>0 DEF Split
<1>2. CASE n = 1
  <2>1. Target(t, 1, 1) = 100 * t
    BY DEF Target, Weight
  <2>2. Remainder(t, 1) = 0 /\ Floored(t, 1, 1) = t
    BY <1>0, <1>2, <2>1 DEF Remainder
  <2>3. Rank(t, 1, 1) \in Nat
    BY <1>2, RankOfThree DEF One
  <2> QED BY <1>1, <1>2, <2>2, <2>3 DEF Split, Total
<1>3. CASE n = 2
  <2>1. Target(t, 2, 1) = 50 * t /\ Target(t, 2, 2) = 50 * t
    BY DEF Target, Weight
  <2>2. Floored(t, 2, 2) = Floored(t, 2, 1) /\ Fraction(t, 2, 2) = Fraction(t, 2, 1)
    BY <2>1 DEF Floored, Fraction
  <2>3. \A i \in {1, 2} : i \in 1..2
    OBVIOUS
  <2>4. /\ Floored(t, 2, 1) \in Nat /\ Fraction(t, 2, 1) \in 0..99
        /\ 50 * t = 100 * Floored(t, 2, 1) + Fraction(t, 2, 1)
    BY <1>0, <1>3, <2>1, <2>3
  <2>5. Remainder(t, 2) = t - Floored(t, 2, 1) - Floored(t, 2, 2)
    BY <2>2, <2>4 DEF Remainder
  <2>6. Remainder(t, 2) \in {0, 1}
    BY <2>2, <2>4, <2>5
  <2>7. \A i \in {1, 2} : Rank(t, 2, i) = One(Before(t, 2, 1, i)) + One(Before(t, 2, 2, i))
    BY <1>3, <2>3, RankOfThree DEF One
  <2>8. Rank(t, 2, 1) = 0 /\ Rank(t, 2, 2) = 1
    BY <2>1, <2>2, <2>4, <2>7 DEF One, Before
  <2> QED BY <1>1, <1>3, <2>2, <2>4, <2>5, <2>6, <2>8 DEF Split, Total
<1>4. CASE n = 3
  <2>1. Target(t, 3, 1) = 34 * t /\ Target(t, 3, 2) = 33 * t /\ Target(t, 3, 3) = 33 * t
    BY DEF Target, Weight
  <2>2. Floored(t, 3, 3) = Floored(t, 3, 2) /\ Fraction(t, 3, 3) = Fraction(t, 3, 2)
    BY <2>1 DEF Floored, Fraction
  <2>3. \A i \in {1, 2, 3} : i \in 1..3
    OBVIOUS
  <2>4. /\ Floored(t, 3, 1) \in Nat /\ Fraction(t, 3, 1) \in 0..99
        /\ 34 * t = 100 * Floored(t, 3, 1) + Fraction(t, 3, 1)
        /\ Floored(t, 3, 2) \in Nat /\ Fraction(t, 3, 2) \in 0..99
        /\ 33 * t = 100 * Floored(t, 3, 2) + Fraction(t, 3, 2)
    BY <1>0, <1>4, <2>1, <2>3
  <2>5. Remainder(t, 3) = t - Floored(t, 3, 1) - Floored(t, 3, 2) - Floored(t, 3, 3)
    BY <2>2, <2>4 DEF Remainder
  <2>6. Remainder(t, 3) \in {0, 1, 2}
    BY <2>2, <2>4, <2>5
  <2>7. \A i \in {1, 2, 3} :
          Rank(t, 3, i) = One(Before(t, 3, 1, i)) + One(Before(t, 3, 2, i)) + One(Before(t, 3, 3, i))
    BY <1>4, <2>3, RankOfThree DEF One
  <2>8. \/ Rank(t, 3, 1) = 0 /\ Rank(t, 3, 2) = 1 /\ Rank(t, 3, 3) = 2
        \/ Rank(t, 3, 2) = 0 /\ Rank(t, 3, 3) = 1 /\ Rank(t, 3, 1) = 2
    BY <2>1, <2>2, <2>4, <2>7 DEF One, Before
  <2> QED BY <1>1, <1>4, <2>2, <2>4, <2>5, <2>6, <2>8 DEF Split, Total
<1> QED BY <1>1, <1>2, <1>3, <1>4 DEF Levels

-----------------------------------------------------------------------------
(* A position keeps a stop.                                                *)

(* While no call has failed and the owner has cancelled nothing.           *)
Calm == used.faults = 0 /\ used.cancels = 0

(* The stops the server places itself, after an entry and at break even;   *)
(* a levels request takes back no others than its own.                     *)
OwnPrefixes == {"sl-auto", "be-sl"}
StopId(c)   == <<"sl-auto", c, 0>>
OwnStop(o)  == o.kind = "sl" /\ o.id[1] \in OwnPrefixes

(* A stop is about to be placed, or one is there besides that one.         *)
Providing == \E c \in Entries : entry[c].pc = "stop"
Besides(os, id) == \E o \in os : OwnStop(o) /\ o.id # id
Stays(id) == Providing \/ Besides(orders, id)

(* An entry is about to place its stop, or a stop is there, or the monitor *)
(* has cancelled it and is about to place the one at break even.           *)
Guarded ==
  pos > 0 => \/ Providing
             \/ \E o \in orders : OwnStop(o)
             \/ \E t \in Ticks : tick[t].pc \in {"size", "place"}

(* What the time stop does not close of a position has come after it read  *)
(* the position, with a stop of its own.                                   *)
Spared ==
  \A t \in Ticks :
    /\ tick[t].pc = "timeclose" =>
         tick[t].size \in Nat /\ (pos > tick[t].size => Stays(trades[tick[t].c].sl))
    /\ tick[t].pc = "timecancel" /\ pos > 0 => Stays(trades[tick[t].c].sl)

Sized == pos \in Nat /\ \A o \in orders : o.size \in Nat

(* Nobody knows the id of a stop that has not been placed.                 *)
Unborn(e) == entry[e].pc \in {"idle", "stop"}
Unheard ==
  \A e \in Entries : Unborn(e) =>
    /\ \A o \in orders : o.id # StopId(e)
    /\ \A t \in Ticks : StopId(e) \notin tick[t].seen
    /\ \A c \in Entries : trades[c].sl # StopId(e)

(* What an entry on its way to its targets knows of its stop.              *)
OnTheWay ==
  \A c \in Entries : entry[c].pc = "target" =>
    entry[c].k \in 1..TpCount /\ entry[c].sl \in {NoId, StopId(c)}

(* Only targets are recorded as targets: no stop is taken for one.         *)
IsTarget(id) == id[1] = "tptr"
Targets ==
  /\ \A c \in Entries : \A id \in trades[c].tps \cup entry[c].tps : IsTarget(id)
  /\ \A t \in Ticks : \A id \in tick[t].still : IsTarget(id)

(* A levels request knows none of the server's own stops.                  *)
LevelsRec(l) ==
  l = [pc |-> l.pc, q |-> l.q, size |-> l.size, tries |-> l.tries, k |-> l.k,
       slOk |-> l.slOk, tpOk |-> l.tpOk, new |-> l.new, old |-> l.old]
LevelsFit(l) ==
  /\ LevelsRec(l)
  /\ l.old = {}
  /\ \A id \in l.new : id[1] \notin OwnPrefixes
  /\ l.pc = "target" => l.k \in 1..TpCount
  /\ l.pc # "idle" => l.size \in Nat \ {0}

Kept == Guarded /\ Spared /\ Sized /\ Unheard /\ OnTheWay /\ Targets /\ LevelsFit(lv) /\ reduce = {}
KInv == IInv /\ (Calm => Kept)

(* The monitor's ticks do not overlap.  They can while two of them are in  *)
(* the recovery, before tpFillMonitorBusy is set.                          *)
OneTick == \A t, u \in Ticks : t = u

LEMMA KeptInit == ASSUME Init PROVE Kept
<1>1. /\ \A t \in Ticks : tick[t] = NoTick
      /\ \A c \in Entries : trades[c] = NoTrade /\ entry[c] = NoEntry
      /\ orders = {} /\ pos = 0 /\ lv = NoLevels /\ reduce = {}
  BY DEF Init
<1>2. Guarded /\ Sized /\ Spared
  BY <1>1 DEF Guarded, Sized, Spared, NoTick
<1>3. Unheard
  BY <1>1 DEF Unheard, NoTick, NoTrade, NoId, StopId
<1>4. OnTheWay /\ Targets
  BY <1>1 DEF OnTheWay, Targets, NoTick, NoTrade, NoEntry
<1>5. LevelsFit(lv)
  BY <1>1 DEF LevelsFit, LevelsRec, NoLevels
<1> QED
  BY <1>1, <1>2, <1>3, <1>4, <1>5 DEF Kept

LEMMA NoFault ==
  ASSUME used \in UsedType, Calm', NEW b \in BOOLEAN, Faulty(b)
  PROVE  ~b /\ used' = used
<1>1. ASSUME b PROVE FALSE
  <2>1. used'.faults = used.faults + 1
    BY <1>1 DEF Faulty, Spend, UsedType
  <2> QED
    BY <2>1 DEF Calm, UsedType
<1> QED
  BY <1>1 DEF Faulty

(* With nothing failing, an order rests if there is a position.            *)
LEMMA CalmPlaced ==
  ASSUME used \in UsedType, Calm', NEW o, NEW ack \in Acks, Placed(o, ack), pos \in Nat
  PROVE  /\ UNCHANGED <<pos, hit, used>>
         /\ pos > 0 => ack = "ok" /\ orders' = orders \cup {o}
         /\ pos = 0 => ack = "rejected" /\ orders' = orders
<1>1. (ack # "ok" /\ pos > 0) \in BOOLEAN
  OBVIOUS
<1>2. ~(ack # "ok" /\ pos > 0) /\ used' = used
  BY <1>1, NoFault DEF Placed
<1> QED
  BY <1>2 DEF Placed

LEMMA CalmCancelled ==
  ASSUME used \in UsedType, Calm', NEW ids, NEW failed \in BOOLEAN, Cancelled(ids, failed)
  PROVE  UNCHANGED <<pos, hit, used>> /\ orders' = {o \in orders : o.id \notin ids}
<1>1. ~failed /\ used' = used
  BY NoFault DEF Cancelled
<1> QED
  BY <1>1 DEF Cancelled

LEMMA CalmRead ==
  ASSUME used \in UsedType, Calm', NEW size, PositionRead(size)
  PROVE  size = pos /\ used' = used
<1>1. ~Faulty(TRUE)
  BY NoFault
<1> QED
  BY <1>1, NoFault DEF PositionRead

LEMMA OrderFields ==
  ASSUME NEW kind, NEW id, NEW price, NEW size
  PROVE  LET o == Order(kind, id, price, size) IN o.kind = kind /\ o.id = id /\ o.size = size
BY DEF Order

(* The choice of the next level that got a lot (of placeTpSlTriggerOrders  *)
(* and of the levels route): a level, and there is a first one.            *)
NextOf(s, n, k) ==
  LET later == {i \in (k + 1)..n : s[i] > 0}
  IN  IF later = {} THEN 0 ELSE CHOOSE i \in later : \A j \in later : i <= j

LEMMA NextIsLevel ==
  ASSUME NEW n \in Levels, NEW s \in [1..n -> Nat], NEW k \in 0..n
  PROVE  NextOf(s, n, k) = 0 \/ NextOf(s, n, k) \in 1..n
<1> DEFINE later == {i \in (k + 1)..n : s[i] > 0}
<1>1. ASSUME later # {} PROVE \E i \in later : \A j \in later : i <= j
  <2>1. later \subseteq {1, 2, 3}
    BY DEF Levels
  <2>2. CASE 1 \in later
    BY <2>1, <2>2
  <2>3. CASE 1 \notin later /\ 2 \in later
    BY <2>1, <2>3
  <2>4. CASE 1 \notin later /\ 2 \notin later
    <3> HIDE DEF later
    <3>1. PICK i \in later : TRUE
      BY <1>1
    <3>2. \A j \in later : j = 3
      BY <2>1, <2>4
    <3>3. \A j \in later : i <= j
      BY <3>2
    <3> QED
      BY <3>3
  <2> QED
    BY <2>2, <2>3, <2>4
<1>2. later \subseteq 1..n
  BY DEF Levels
<1>3. NextOf(s, n, k) = IF later = {} THEN 0 ELSE CHOOSE i \in later : \A j \in later : i <= j
  BY DEF NextOf
<1> HIDE DEF later
<1> QED
  BY <1>1, <1>2, <1>3

LEMMA FirstOfSplit ==
  ASSUME NEW t \in Nat \ {0}, NEW n \in Levels
  PROVE  /\ NextOf(Split(t, n), n, 0) \in 1..n
         /\ \A k \in 0..n : NextOf(Split(t, n), n, k) = 0 \/ NextOf(Split(t, n), n, k) \in 1..n
         /\ \A k \in 1..n : Split(t, n)[k] \in Nat
<1>1. Split(t, n) \in [1..n -> Nat] /\ Total(Split(t, n), n) = t
  BY SplitIsWhole
<1>2. \E i \in 1..n : Split(t, n)[i] > 0
  <2> SUFFICES ASSUME \A i \in 1..n : Split(t, n)[i] = 0 PROVE FALSE
    BY <1>1
  <2>1. Total(Split(t, n), n) = 0
    BY DEF Total, Levels
  <2> QED
    BY <1>1, <2>1
<1>3. ASSUME NextOf(Split(t, n), n, 0) = 0 PROVE FALSE
  <2> DEFINE s == Split(t, n)
             later == {i \in 1..n : s[i] > 0}
  <2>1. later # {}
    BY <1>2
  <2>2. later = {i \in (0 + 1)..n : s[i] > 0}
    OBVIOUS
  <2>3. NextOf(s, n, 0) = CHOOSE i \in later : \A j \in later : i <= j
    BY <2>1, <2>2 DEF NextOf
  <2>4. later \subseteq {1, 2, 3}
    BY DEF Levels
  <2>5. \E i \in later : \A j \in later : i <= j
    <3>1. CASE 1 \in later
      BY <2>4, <3>1
    <3>2. CASE 1 \notin later /\ 2 \in later
      BY <2>4, <3>2
    <3>3. CASE 1 \notin later /\ 2 \notin later
      BY <2>1, <2>4, <3>3
    <3> QED
      BY <3>1, <3>2, <3>3
  <2>6. NextOf(s, n, 0) \in later
    <3> HIDE DEF later
    <3> QED
      BY <2>3, <2>5
  <2>7. NextOf(s, n, 0) \in 1..n
    BY <2>6
  <2> QED
    BY <1>3, <2>7 DEF Levels
<1>4. \A k \in 0..n : NextOf(Split(t, n), n, k) = 0 \/ NextOf(Split(t, n), n, k) \in 1..n
  BY <1>1, NextIsLevel
<1>5. 0 \in 0..n
  BY DEF Levels
<1> QED
  BY <1>1, <1>3, <1>4, <1>5

LEMMA EntryTargets ==
  /\ TargetAfter(0) \in 1..TpCount
  /\ \A k \in 1..TpCount : /\ TargetAfter(k) = 0 \/ TargetAfter(k) \in 1..TpCount
                           /\ TpSize(k) \in Nat
<1>1. Lots \in Nat \ {0} /\ TpCount \in Levels
  BY ProtectiveAssumption
<1>2. \A k : TargetAfter(k) = NextOf(Split(Lots, TpCount), TpCount, k)
  BY DEF TargetAfter, NextOf, TpSize
<1>3. \A k \in 1..TpCount : k \in 0..TpCount
  BY <1>1 DEF Levels
<1> QED
  BY <1>1, <1>2, <1>3, FirstOfSplit DEF TpSize

LEMMA LevelTargets ==
  ASSUME lv.size \in Nat \ {0}
  PROVE  /\ LevelTargetAfter(0) \in 1..TpCount
         /\ \A k \in 1..TpCount : /\ LevelTargetAfter(k) = 0 \/ LevelTargetAfter(k) \in 1..TpCount
                                  /\ Split(lv.size, TpCount)[k] \in Nat
<1>1. TpCount \in Levels
  BY ProtectiveAssumption
<1>2. \A k : LevelTargetAfter(k) = NextOf(Split(lv.size, TpCount), TpCount, k)
  BY DEF LevelTargetAfter, NextOf
<1>3. \A k \in 1..TpCount : k \in 0..TpCount
  BY <1>1 DEF Levels
<1> QED
  BY <1>1, <1>2, <1>3, FirstOfSplit

-----------------------------------------------------------------------------
(* The market, the owner and the levels route.                             *)

(* What such a step does to the exchange: it adds no stop of an entry and, *)
(* unless the position is closed, takes away no stop of the server's own.  *)
LEMMA OutsideKeeps ==
  ASSUME Kept, Hushed, LevelsFit(lv)', reduce' = {}, Sized',
         pos' <= pos,
         pos' > 0 => \A o \in orders : OwnStop(o) => o \in orders',
         \A o \in orders' : o \in orders \/ o.id[1] # "sl-auto"
  PROVE  Kept'
<1>1. UNCHANGED <<trades, tick, entry>>
  BY DEF Hushed
<1>2. pos \in Nat /\ pos' \in Nat
  BY DEF Kept, Sized
<1>3. Guarded'
  <2>1. Providing' = Providing
    BY <1>1 DEF Providing
  <2> QED
    BY <1>1, <1>2, <2>1 DEF Kept, Guarded
<1>4. /\ Providing' = Providing
      /\ \A id : Besides(orders, id) /\ pos' > 0 => Besides(orders', id)
  BY <1>1 DEF Besides, Providing
<1>5. Spared'
  <2> SUFFICES ASSUME NEW t \in Ticks
               PROVE  /\ tick[t].pc = "timeclose" =>
                           /\ tick[t].size \in Nat
                           /\ pos' > tick[t].size => Providing \/ Besides(orders', trades[tick[t].c].sl)
                      /\ tick[t].pc = "timecancel" /\ pos' > 0 =>
                           Providing \/ Besides(orders', trades[tick[t].c].sl)
    BY <1>1, <1>4 DEF Spared, Stays
  <2>1. CASE tick[t].pc = "timeclose"
    <3>1. /\ tick[t].size \in Nat
          /\ pos > tick[t].size => Providing \/ Besides(orders, trades[tick[t].c].sl)
      BY <2>1 DEF Kept, Spared, Stays
    <3>2. pos' > tick[t].size => pos > tick[t].size /\ pos' > 0
      BY <1>2, <3>1
    <3> QED
      BY <1>4, <2>1, <3>1, <3>2
  <2>2. CASE tick[t].pc = "timecancel"
    <3>1. pos > 0 => Providing \/ Besides(orders, trades[tick[t].c].sl)
      BY <2>2 DEF Kept, Spared, Stays
    <3>2. pos' > 0 => pos > 0
      BY <1>2
    <3> QED
      BY <1>4, <2>2, <3>1, <3>2
  <2> QED
    BY <2>1, <2>2
<1>6. Unheard'
  <2>1. \A e : StopId(e)[1] = "sl-auto"
    BY DEF StopId
  <2>2. \A o \in orders', e \in Entries : Unborn(e) => o.id # StopId(e)
    BY <2>1 DEF Kept, Unheard
  <2> QED
    BY <1>1, <2>2 DEF Kept, Unheard, Unborn
<1>7. OnTheWay' /\ Targets'
  BY <1>1 DEF Kept, OnTheWay, Targets, StopId
<1> QED
  BY <1>3, <1>5, <1>6, <1>7 DEF Kept

LevelsIs(m, pc, size, k, new, old) ==
  LevelsRec(m) /\ m.pc = pc /\ m.size = size /\ m.k = k /\ m.new = new /\ m.old = old

(* A record of the levels route with a field set, and the same of others.  *)
LEMMA LevelsPc ==
  ASSUME NEW l, NEW p, NEW s, NEW i, NEW n, NEW o, LevelsIs(l, p, s, i, n, o), NEW v
  PROVE  LevelsIs([l EXCEPT !.pc = v], v, s, i, n, o)
<1> DEFINE m == [pc |-> v, q |-> l.q, size |-> l.size, tries |-> l.tries, k |-> l.k,
                  slOk |-> l.slOk, tpOk |-> l.tpOk, new |-> l.new, old |-> l.old]
<1>1. [l EXCEPT !.pc = v] = m
  BY DEF LevelsIs, LevelsRec
<1>2. LevelsIs(m, v, s, i, n, o)
  BY DEF LevelsIs, LevelsRec
<1> HIDE DEF m
<1> QED
  BY <1>1, <1>2

LEMMA LevelsTries ==
  ASSUME NEW l, NEW p, NEW s, NEW i, NEW n, NEW o, LevelsIs(l, p, s, i, n, o), NEW v
  PROVE  LevelsIs([l EXCEPT !.tries = v], p, s, i, n, o)
<1> DEFINE m == [pc |-> l.pc, q |-> l.q, size |-> l.size, tries |-> v, k |-> l.k,
                  slOk |-> l.slOk, tpOk |-> l.tpOk, new |-> l.new, old |-> l.old]
<1>1. [l EXCEPT !.tries = v] = m
  BY DEF LevelsIs, LevelsRec
<1>2. LevelsIs(m, p, s, i, n, o)
  BY DEF LevelsIs, LevelsRec
<1> HIDE DEF m
<1> QED
  BY <1>1, <1>2

LEMMA LevelsK ==
  ASSUME NEW l, NEW p, NEW s, NEW i, NEW n, NEW o, LevelsIs(l, p, s, i, n, o), NEW v
  PROVE  LevelsIs([l EXCEPT !.k = v], p, s, v, n, o)
<1> DEFINE m == [pc |-> l.pc, q |-> l.q, size |-> l.size, tries |-> l.tries, k |-> v,
                  slOk |-> l.slOk, tpOk |-> l.tpOk, new |-> l.new, old |-> l.old]
<1>1. [l EXCEPT !.k = v] = m
  BY DEF LevelsIs, LevelsRec
<1>2. LevelsIs(m, p, s, v, n, o)
  BY DEF LevelsIs, LevelsRec
<1> HIDE DEF m
<1> QED
  BY <1>1, <1>2

LEMMA LevelsSlOk ==
  ASSUME NEW l, NEW p, NEW s, NEW i, NEW n, NEW o, LevelsIs(l, p, s, i, n, o), NEW v
  PROVE  LevelsIs([l EXCEPT !.slOk = v], p, s, i, n, o)
<1> DEFINE m == [pc |-> l.pc, q |-> l.q, size |-> l.size, tries |-> l.tries, k |-> l.k,
                  slOk |-> v, tpOk |-> l.tpOk, new |-> l.new, old |-> l.old]
<1>1. [l EXCEPT !.slOk = v] = m
  BY DEF LevelsIs, LevelsRec
<1>2. LevelsIs(m, p, s, i, n, o)
  BY DEF LevelsIs, LevelsRec
<1> HIDE DEF m
<1> QED
  BY <1>1, <1>2

LEMMA LevelsTpOk ==
  ASSUME NEW l, NEW p, NEW s, NEW i, NEW n, NEW o, LevelsIs(l, p, s, i, n, o), NEW v
  PROVE  LevelsIs([l EXCEPT !.tpOk = v], p, s, i, n, o)
<1> DEFINE m == [pc |-> l.pc, q |-> l.q, size |-> l.size, tries |-> l.tries, k |-> l.k,
                  slOk |-> l.slOk, tpOk |-> v, new |-> l.new, old |-> l.old]
<1>1. [l EXCEPT !.tpOk = v] = m
  BY DEF LevelsIs, LevelsRec
<1>2. LevelsIs(m, p, s, i, n, o)
  BY DEF LevelsIs, LevelsRec
<1> HIDE DEF m
<1> QED
  BY <1>1, <1>2

LEMMA LevelsNew ==
  ASSUME NEW l, NEW p, NEW s, NEW i, NEW n, NEW o, LevelsIs(l, p, s, i, n, o), NEW v
  PROVE  LevelsIs([l EXCEPT !.new = v], p, s, i, v, o)
<1> DEFINE m == [pc |-> l.pc, q |-> l.q, size |-> l.size, tries |-> l.tries, k |-> l.k,
                  slOk |-> l.slOk, tpOk |-> l.tpOk, new |-> v, old |-> l.old]
<1>1. [l EXCEPT !.new = v] = m
  BY DEF LevelsIs, LevelsRec
<1>2. LevelsIs(m, p, s, i, v, o)
  BY DEF LevelsIs, LevelsRec
<1> HIDE DEF m
<1> QED
  BY <1>1, <1>2

LEMMA LevelsTo ==
  ASSUME NEW l, LevelsRec(l), NEW a,
         NEW m, m = [l EXCEPT !.pc = a]
  PROVE  LevelsIs(m, a, l.size, l.k, l.new, l.old)
<1> DEFINE m1 == [l EXCEPT !.pc = a]
<1>0. LevelsIs(l, l.pc, l.size, l.k, l.new, l.old)
  BY DEF LevelsIs
<1>1. LevelsIs(m1, a, l.size, l.k, l.new, l.old)
  BY <1>0, LevelsPc
<1> QED
  BY <1>1

LEMMA LevelsRetry ==
  ASSUME NEW l, LevelsRec(l), NEW a,
         NEW m, m = [l EXCEPT !.tries = a]
  PROVE  LevelsIs(m, l.pc, l.size, l.k, l.new, l.old)
<1> DEFINE m1 == [l EXCEPT !.tries = a]
<1>0. LevelsIs(l, l.pc, l.size, l.k, l.new, l.old)
  BY DEF LevelsIs
<1>1. LevelsIs(m1, l.pc, l.size, l.k, l.new, l.old)
  BY <1>0, LevelsTries
<1> QED
  BY <1>1

LEMMA LevelsAgain ==
  ASSUME NEW l, LevelsRec(l), NEW a, NEW b,
         NEW m, m = [l EXCEPT !.pc = a, !.tries = b]
  PROVE  LevelsIs(m, a, l.size, l.k, l.new, l.old)
<1> DEFINE m1 == [l EXCEPT !.pc = a]
           m2 == [m1 EXCEPT !.tries = b]
<1>0. LevelsIs(l, l.pc, l.size, l.k, l.new, l.old)
  BY DEF LevelsIs
<1>1. LevelsIs(m1, a, l.size, l.k, l.new, l.old)
  BY <1>0, LevelsPc
<1> HIDE DEF m1
<1>2. LevelsIs(m2, a, l.size, l.k, l.new, l.old)
  BY <1>1, LevelsTries
<1>3. m = m2
  BY DEF m1, m2
<1> QED
  BY <1>2, <1>3

LEMMA LevelsStopSet ==
  ASSUME NEW l, LevelsRec(l), NEW a, NEW b, NEW c, NEW d,
         NEW m, m = [l EXCEPT !.pc = a, !.k = b, !.slOk = c, !.new = d]
  PROVE  LevelsIs(m, a, l.size, b, d, l.old)
<1> DEFINE m1 == [l EXCEPT !.pc = a]
           m2 == [m1 EXCEPT !.k = b]
           m3 == [m2 EXCEPT !.slOk = c]
           m4 == [m3 EXCEPT !.new = d]
<1>0. LevelsIs(l, l.pc, l.size, l.k, l.new, l.old)
  BY DEF LevelsIs
<1>1. LevelsIs(m1, a, l.size, l.k, l.new, l.old)
  BY <1>0, LevelsPc
<1> HIDE DEF m1
<1>2. LevelsIs(m2, a, l.size, b, l.new, l.old)
  BY <1>1, LevelsK
<1> HIDE DEF m2
<1>3. LevelsIs(m3, a, l.size, b, l.new, l.old)
  BY <1>2, LevelsSlOk
<1> HIDE DEF m3
<1>4. LevelsIs(m4, a, l.size, b, d, l.old)
  BY <1>3, LevelsNew
<1>5. m = m4
  BY DEF m1, m2, m3, m4
<1> QED
  BY <1>4, <1>5

LEMMA LevelsTargetSet ==
  ASSUME NEW l, LevelsRec(l), NEW a, NEW b, NEW c,
         NEW m, m = [l EXCEPT !.k = a, !.tpOk = b, !.new = c]
  PROVE  LevelsIs(m, l.pc, l.size, a, c, l.old)
<1> DEFINE m1 == [l EXCEPT !.k = a]
           m2 == [m1 EXCEPT !.tpOk = b]
           m3 == [m2 EXCEPT !.new = c]
<1>0. LevelsIs(l, l.pc, l.size, l.k, l.new, l.old)
  BY DEF LevelsIs
<1>1. LevelsIs(m1, l.pc, l.size, a, l.new, l.old)
  BY <1>0, LevelsK
<1> HIDE DEF m1
<1>2. LevelsIs(m2, l.pc, l.size, a, l.new, l.old)
  BY <1>1, LevelsTpOk
<1> HIDE DEF m2
<1>3. LevelsIs(m3, l.pc, l.size, a, c, l.old)
  BY <1>2, LevelsNew
<1>4. m = m3
  BY DEF m1, m2, m3
<1> QED
  BY <1>3, <1>4

LEMMA LevelsSingleSet ==
  ASSUME NEW l, LevelsRec(l), NEW a, NEW b,
         NEW m, m = [l EXCEPT !.tpOk = a, !.new = b]
  PROVE  LevelsIs(m, l.pc, l.size, l.k, b, l.old)
<1> DEFINE m1 == [l EXCEPT !.tpOk = a]
           m2 == [m1 EXCEPT !.new = b]
<1>0. LevelsIs(l, l.pc, l.size, l.k, l.new, l.old)
  BY DEF LevelsIs
<1>1. LevelsIs(m1, l.pc, l.size, l.k, l.new, l.old)
  BY <1>0, LevelsTpOk
<1> HIDE DEF m1
<1>2. LevelsIs(m2, l.pc, l.size, l.k, b, l.old)
  BY <1>1, LevelsNew
<1>3. m = m2
  BY DEF m1, m2
<1> QED
  BY <1>2, <1>3

(* An order placed, or a cancellation, from outside of the monitor.        *)
OutsideOrders ==
  /\ Sized' /\ pos' <= pos
  /\ pos' > 0 => \A o \in orders : OwnStop(o) => o \in orders'
  /\ \A o \in orders' : o \in orders \/ o.id[1] # "sl-auto"

LEMMA OutsidePlaced ==
  ASSUME used \in UsedType, Kept, Calm', NEW kind, NEW prefix, prefix \notin OwnPrefixes, NEW c, NEW n,
         NEW price, NEW size \in Nat, NEW ack \in Acks,
         Placed(Order(kind, <<prefix, c, n>>, price, size), ack)
  PROVE  OutsideOrders /\ \A id \in {AckId(Order(kind, <<prefix, c, n>>, price, size), ack)} : id[1] \notin OwnPrefixes
<1> DEFINE o == Order(kind, <<prefix, c, n>>, price, size)
<1>1. o.id = <<prefix, c, n>> /\ o.size = size
  BY OrderFields
<1>2. o.id[1] = prefix /\ NoId[1] = "none"
  BY <1>1 DEF NoId
<1>3. Placed(o, ack)
  OBVIOUS
<1> HIDE DEF o
<1>4. pos \in Nat /\ \A x \in orders : x.size \in Nat
  BY DEF Kept, Sized
<1>5. pos' = pos /\ (orders' = orders \/ orders' = orders \cup {o})
  BY <1>3, <1>4, CalmPlaced
<1>6. Sized' /\ pos' <= pos
  BY <1>1, <1>4, <1>5 DEF Sized
<1>7. OutsideOrders
  BY <1>2, <1>5, <1>6 DEF OutsideOrders, OwnPrefixes
<1>8. AckId(o, ack)[1] \in {prefix, "none"}
  BY <1>2 DEF AckId
<1> QED
  BY <1>7, <1>8 DEF o, OwnPrefixes

LEMMA OutsideSame ==
  ASSUME Kept, UNCHANGED <<pos, orders>>
  PROVE  OutsideOrders
BY DEF Kept, Sized, OutsideOrders

LEMMA LevelsStartCalm == ASSUME IInv, Kept, Calm', LevelsStart PROVE Kept'
<1>1. Hushed /\ UNCHANGED <<pos, orders, reduce>>
  BY DEF LevelsStart, Hushed, exchange, monitor
<1>2. PICK q, old : /\ old = Ids({o \in orders : ManagedByCoinmaster(o)})
                    /\ lv' = [NoLevels EXCEPT !.pc = "stop", !.q = q, !.size = pos, !.old = old]
  BY DEF LevelsStart
<1>3. old = {}
  <2>1. \A o \in orders : ~ManagedByCoinmaster(o)
    BY DEF IInv, Hashed, ManagedByCoinmaster
  <2> QED
    BY <1>2, <2>1 DEF Ids
<1>4. lv' = [pc |-> "stop", q |-> q, size |-> pos, tries |-> 0, k |-> 0,
             slOk |-> FALSE, tpOk |-> {}, new |-> {}, old |-> old]
  BY <1>2 DEF NoLevels
<1>5. pos \in Nat /\ pos > 0
  BY DEF LevelsStart, Kept, Sized
<1>6. LevelsFit(lv')
  BY <1>3, <1>4, <1>5 DEF LevelsFit, LevelsIs, LevelsRec
<1>7. LevelsFit(lv)'
  BY <1>6
<1>8. reduce' = {}
  BY <1>1 DEF Kept
<1> QED
  BY <1>1, <1>7, <1>8, OutsideSame, OutsideKeeps DEF OutsideOrders

LEMMA NoLevelsFit == LevelsFit(NoLevels)
BY DEF LevelsFit, LevelsIs, LevelsRec, NoLevels

LEMMA LevelsKeep ==
  ASSUME Kept, OutsideOrders, LevelsFit(lv'), UNCHANGED <<monitor, entry, reduce>>
  PROVE  Kept'
<1>1. Hushed /\ reduce' = {}
  BY DEF Hushed, monitor, Kept
<1>2. LevelsFit(lv)'
  OBVIOUS
<1> QED
  BY <1>1, <1>2, OutsideKeeps DEF OutsideOrders

LEMMA LevelsStopCalm == ASSUME IInv, Kept, Calm', LevelsStop PROVE Kept'
<1> DEFINE o == Order("sl", LevelsId("sl", lv.tries), lv.q.sl, 0)
<1>0. PICK ack \in Acks :
        /\ Placed(o, ack)
        /\ \/ lv' = NoLevels
           \/ lv' = [lv EXCEPT !.tries = @ + 1]
           \/ lv' = [lv EXCEPT !.pc = "target", !.k = LevelTargetAfter(0),
                               !.slOk = (ack = "ok"), !.new = {AckId(o, ack)} \ {NoId}]
  BY DEF LevelsStop
<1>1. lv.pc = "stop" /\ LevelsFit(lv) /\ used \in UsedType
  BY DEF LevelsStop, Kept, IInv, Shapes, UsedType
<1>2. o = Order("sl", <<"sl", NoOne, 4 * used.levels + lv.tries>>, lv.q.sl, 0) /\ "sl" \notin OwnPrefixes
  BY DEF LevelsId, OwnPrefixes
<1> HIDE DEF o
<1>3. OutsideOrders /\ \A id \in {AckId(o, ack)} \ {NoId} : id[1] \notin OwnPrefixes
  BY <1>0, <1>1, <1>2, OutsidePlaced
<1>4. LevelsRec(lv) /\ lv.old = {} /\ lv.size \in Nat \ {0} /\ \A id \in lv.new : id[1] \notin OwnPrefixes
  BY <1>1 DEF LevelsFit, LevelsIs
<1>5. CASE lv' = [lv EXCEPT !.tries = @ + 1]
  <2>2. PICK m : lv' = m /\ m = [lv EXCEPT !.tries = lv.tries + 1]
    BY <1>5
  <2>1. LevelsIs(m, lv.pc, lv.size, lv.k, lv.new, lv.old)
    BY <1>4, <2>2, LevelsRetry
  <2> QED
    BY <1>1, <1>3, <1>4, <2>1, <2>2, LevelsKeep DEF LevelsFit, LevelsIs, LevelsStop
<1>6. CASE lv' = [lv EXCEPT !.pc = "target", !.k = LevelTargetAfter(0),
                            !.slOk = (ack = "ok"), !.new = {AckId(o, ack)} \ {NoId}]
  <2>0. PICK where, b, k, new :
          /\ where = "target" /\ k = LevelTargetAfter(0) /\ new = {AckId(o, ack)} \ {NoId}
          /\ lv' = [lv EXCEPT !.pc = where, !.k = k, !.slOk = b, !.new = new]
    BY <1>6
  <2>2. PICK m : lv' = m /\ m = [lv EXCEPT !.pc = where, !.k = k, !.slOk = b, !.new = new]
    BY <2>0
  <2>1. LevelsIs(m, where, lv.size, k, new, lv.old)
    BY <1>4, <2>2, LevelsStopSet
  <2>3. m.k \in 1..TpCount
    BY <1>4, <2>0, <2>1, LevelTargets DEF LevelsIs
  <2> QED
    BY <1>3, <1>4, <2>0, <2>1, <2>2, <2>3, LevelsKeep DEF LevelsFit, LevelsIs, LevelsStop
<1> QED
  BY <1>0, <1>3, <1>5, <1>6, NoLevelsFit, LevelsKeep DEF LevelsStop

LEMMA OutcomeFit ==
  ASSUME NEW l, LevelsRec(l), l.old = {}, \A id \in l.new : id[1] \notin OwnPrefixes,
         l.size \in Nat \ {0}
  PROVE  LevelsFit(LevelsOutcome(l))
<1>1. PICK where \in {"cleanup", "rollback"} : LevelsOutcome(l) = [l EXCEPT !.pc = where]
  BY DEF LevelsOutcome
<1>2. PICK m : m = LevelsOutcome(l) /\ m = [l EXCEPT !.pc = where]
  BY <1>1
<1>3. LevelsIs(m, where, l.size, l.k, l.new, l.old)
  BY <1>2, LevelsTo
<1> QED
  BY <1>2, <1>3 DEF LevelsFit, LevelsIs

LEMMA LevelsTargetCalm == ASSUME IInv, Kept, Calm', LevelsTarget PROVE Kept'
<1> DEFINE o == Order("tp", LevelsId("tptr", lv.k), lv.q.tp + lv.k - 1, Split(lv.size, TpCount)[lv.k])
<1>a. PICK ack \in Acks, bySize \in BOOLEAN :
        LET l == [lv EXCEPT !.k = LevelTargetAfter(lv.k), !.tpOk = @ \cup {ack = "ok"},
                            !.new = @ \cup ({AckId(o, ack)} \ {NoId})]
        IN /\ Placed(o, ack)
           /\ lv' = IF l.k # 0 THEN l
                    ELSE IF bySize /\ l.tpOk = {FALSE} /\ TpCount > 1
                    THEN [l EXCEPT !.pc = "single", !.tries = 0]
                    ELSE LevelsOutcome(l)
  BY DEF LevelsTarget
<1>0. PICK b, k, new, l :
        /\ Placed(o, ack)
        /\ k = LevelTargetAfter(lv.k) /\ new = lv.new \cup ({AckId(o, ack)} \ {NoId})
        /\ l = [lv EXCEPT !.k = k, !.tpOk = b, !.new = new]
        /\ \/ l.k # 0 /\ lv' = l
           \/ lv' = [l EXCEPT !.pc = "single", !.tries = 0]
           \/ lv' = LevelsOutcome(l)
  BY <1>a
<1>1. lv.pc = "target" /\ LevelsFit(lv) /\ used \in UsedType
  BY DEF LevelsTarget, Kept, IInv, Shapes, UsedType
<1>2. /\ LevelsRec(lv) /\ lv.old = {} /\ lv.size \in Nat \ {0} /\ lv.k \in 1..TpCount
      /\ \A id \in lv.new : id[1] \notin OwnPrefixes
  BY <1>1 DEF LevelsFit, LevelsIs
<1>3. /\ LevelTargetAfter(lv.k) = 0 \/ LevelTargetAfter(lv.k) \in 1..TpCount
      /\ Split(lv.size, TpCount)[lv.k] \in Nat
  BY <1>2, LevelTargets
<1>4. /\ o = Order("tp", <<"tptr", NoOne, 4 * used.levels + lv.k>>, lv.q.tp + lv.k - 1,
                   Split(lv.size, TpCount)[lv.k])
      /\ "tptr" \notin OwnPrefixes
  BY DEF LevelsId, OwnPrefixes
<1> HIDE DEF o
<1>5. OutsideOrders /\ \A id \in {AckId(o, ack)} \ {NoId} : id[1] \notin OwnPrefixes
  BY <1>0, <1>1, <1>3, <1>4, OutsidePlaced
<1>6. LevelsIs(l, lv.pc, lv.size, k, new, lv.old)
  BY <1>0, <1>2, LevelsTargetSet
<1>7. \A id \in l.new : id[1] \notin OwnPrefixes
  BY <1>0, <1>2, <1>5, <1>6 DEF LevelsIs
<1>8. CASE l.k # 0 /\ lv' = l
  BY <1>0, <1>1, <1>2, <1>3, <1>5, <1>6, <1>7, <1>8, LevelsKeep DEF LevelsFit, LevelsIs, LevelsTarget
<1>9. CASE lv' = [l EXCEPT !.pc = "single", !.tries = 0]
  <2>0. PICK where, n : where = "single" /\ n = 0 /\ lv' = [l EXCEPT !.pc = where, !.tries = n]
    BY <1>9
  <2>2. PICK m : lv' = m /\ m = [l EXCEPT !.pc = where, !.tries = n]
    BY <2>0
  <2>1. LevelsIs(m, where, l.size, l.k, l.new, l.old)
    <3>1. LevelsRec(l)
      BY <1>6 DEF LevelsIs
    <3> QED
      BY <2>2, <3>1, LevelsAgain
  <2> QED
    BY <1>2, <1>5, <1>6, <1>7, <2>0, <2>1, <2>2, LevelsKeep DEF LevelsFit, LevelsIs, LevelsTarget
<1>10. CASE lv' = LevelsOutcome(l)
  BY <1>2, <1>5, <1>6, <1>7, <1>10, OutcomeFit, LevelsKeep DEF LevelsIs, LevelsTarget
<1> QED
  BY <1>0, <1>8, <1>9, <1>10

LEMMA LevelsSingleCalm == ASSUME IInv, Kept, Calm', LevelsSingle PROVE Kept'
<1> DEFINE o == Order("tp", LevelsId("tptr-single", lv.tries), lv.q.tp, lv.size)
<1>a. PICK ack \in Acks, retriable \in BOOLEAN :
        /\ Placed(o, ack)
        /\ lv' = IF ack # "ok" /\ retriable /\ lv.tries < 2
                 THEN [lv EXCEPT !.tries = @ + 1]
                 ELSE LevelsOutcome([lv EXCEPT !.tpOk = {ack = "ok"},
                                               !.new = @ \cup ({AckId(o, ack)} \ {NoId})])
  BY DEF LevelsSingle
<1>0. PICK b, new, l :
        /\ Placed(o, ack)
        /\ new = lv.new \cup ({AckId(o, ack)} \ {NoId})
        /\ l = [lv EXCEPT !.tpOk = b, !.new = new]
        /\ lv' = [lv EXCEPT !.tries = @ + 1] \/ lv' = LevelsOutcome(l)
  BY <1>a
<1>1. lv.pc = "single" /\ LevelsFit(lv) /\ used \in UsedType
  BY DEF LevelsSingle, Kept, IInv, Shapes, UsedType
<1>2. LevelsRec(lv) /\ lv.old = {} /\ lv.size \in Nat \ {0} /\ \A id \in lv.new : id[1] \notin OwnPrefixes
  BY <1>1 DEF LevelsFit, LevelsIs
<1>3. /\ o = Order("tp", <<"tptr-single", NoOne, 4 * used.levels + lv.tries>>, lv.q.tp, lv.size)
      /\ "tptr-single" \notin OwnPrefixes /\ lv.size \in Nat
  BY <1>2 DEF LevelsId, OwnPrefixes
<1> HIDE DEF o
<1>4. OutsideOrders /\ \A id \in {AckId(o, ack)} \ {NoId} : id[1] \notin OwnPrefixes
  BY <1>0, <1>1, <1>3, OutsidePlaced
<1>5. CASE lv' = [lv EXCEPT !.tries = @ + 1]
  <2>2. PICK m : lv' = m /\ m = [lv EXCEPT !.tries = lv.tries + 1]
    BY <1>5
  <2>1. LevelsIs(m, lv.pc, lv.size, lv.k, lv.new, lv.old)
    BY <1>2, <2>2, LevelsRetry
  <2> QED
    BY <1>1, <1>2, <1>4, <2>1, <2>2, LevelsKeep DEF LevelsFit, LevelsIs, LevelsSingle
<1>6. CASE lv' = LevelsOutcome(l)
  <2>1. LevelsIs(l, lv.pc, lv.size, lv.k, new, lv.old)
    BY <1>0, <1>2, LevelsSingleSet
  <2>2. \A id \in l.new : id[1] \notin OwnPrefixes
    BY <1>0, <1>2, <1>4, <2>1
  <2> QED
    BY <1>2, <1>4, <1>6, <2>1, <2>2, OutcomeFit, LevelsKeep DEF LevelsIs, LevelsSingle
<1> QED
  BY <1>0, <1>5, <1>6

LEMMA LevelsEndCalm == ASSUME IInv, Kept, Calm', LevelsEnd PROVE Kept'
<1>1. used \in UsedType /\ LevelsFit(lv) /\ Sized
  BY DEF Kept, IInv, Shapes, UsedType
<1>2. PICK failed \in BOOLEAN : Cancelled(IF lv.pc = "cleanup" THEN lv.old \ lv.new ELSE lv.new, failed)
  BY DEF LevelsEnd
<1> DEFINE ids == IF lv.pc = "cleanup" THEN lv.old \ lv.new ELSE lv.new
<1>3. \A id \in ids : id[1] \notin OwnPrefixes
  BY <1>1 DEF LevelsFit, LevelsIs
<1>4. pos' = pos /\ orders' = {o \in orders : o.id \notin ids}
  BY <1>1, <1>2, CalmCancelled
<1>5. OutsideOrders
  BY <1>1, <1>3, <1>4 DEF OutsideOrders, Sized, OwnStop
<1> QED
  BY <1>5, NoLevelsFit, LevelsKeep DEF LevelsEnd

LEMMA ExecutesCalm == ASSUME Kept, NEW o \in orders, Executes(o) PROVE Kept'
<1>1. pos \in Nat /\ pos > 0 /\ o.size \in Nat
  BY DEF Kept, Sized, Executes
<1>2. pos' = (IF o.kind = "sl" THEN 0 ELSE pos - Lesser(o.size, pos)) /\ orders' = orders \ {o}
  BY DEF Executes
<1>3. pos' \in Nat /\ pos' <= pos
  BY <1>1, <1>2 DEF Lesser
<1>4. OutsideOrders
  BY <1>2, <1>3 DEF Kept, Sized, OutsideOrders, OwnStop
<1>5. LevelsFit(lv') /\ UNCHANGED <<monitor, entry, reduce>>
  BY DEF Executes, Kept
<1> QED
  BY <1>4, <1>5, LevelsKeep

LEMMA SweptCalm == ASSUME Kept, Swept PROVE Kept'
<1>1. OutsideOrders
  BY DEF Kept, Sized, OutsideOrders, Swept
<1>2. LevelsFit(lv') /\ UNCHANGED <<monitor, entry, reduce>>
  BY DEF Swept, Kept
<1> QED
  BY <1>1, <1>2, LevelsKeep

(* The owner's own actions end the calm, a restart is a fault.             *)
LEMMA OwnerCalm ==
  ASSUME IInv, Calm, Calm', Kept, OwnerCancels \/ ReduceCancel \/ ReducePlace \/ Restart
  PROVE  FALSE
<1>1. used \in UsedType
  BY DEF IInv, Shapes, UsedType
<1>2. ~Spend("cancels")
  BY <1>1 DEF Spend, UsedType, Calm
<1>3. ~Faulty(TRUE)
  BY <1>1, NoFault
<1>4. reduce = {}
  BY DEF Kept
<1> QED
  BY <1>2, <1>3, <1>4 DEF OwnerCancels, ReduceCancel, ReducePlace, Restart, OwnerActs

-----------------------------------------------------------------------------
(* The entries.                                                            *)

EntryIs(e, pc, k, sl, tps) == EntryRec(e) /\ e.pc = pc /\ e.k = k /\ e.sl = sl /\ e.tps = tps

LEMMA EntryField ==
  ASSUME NEW e, EntryRec(e), NEW v, NEW m
  PROVE  /\ m = [e EXCEPT !.pc = v] => EntryIs(m, v, e.k, e.sl, e.tps)
         /\ m = [e EXCEPT !.k = v] => EntryIs(m, e.pc, v, e.sl, e.tps)
         /\ m = [e EXCEPT !.sl = v] => EntryIs(m, e.pc, e.k, v, e.tps)
         /\ m = [e EXCEPT !.tps = v] => EntryIs(m, e.pc, e.k, e.sl, v)
<1>0. e = [pc |-> e.pc, k |-> e.k, sl |-> e.sl, tps |-> e.tps]
  BY DEF EntryRec
<1>1. [e EXCEPT !.pc = v] = [pc |-> v, k |-> e.k, sl |-> e.sl, tps |-> e.tps]
  BY <1>0
<1>2. [e EXCEPT !.k = v] = [pc |-> e.pc, k |-> v, sl |-> e.sl, tps |-> e.tps]
  BY <1>0
<1>3. [e EXCEPT !.sl = v] = [pc |-> e.pc, k |-> e.k, sl |-> v, tps |-> e.tps]
  BY <1>0
<1>4. [e EXCEPT !.tps = v] = [pc |-> e.pc, k |-> e.k, sl |-> e.sl, tps |-> v]
  BY <1>0
<1> QED
  BY <1>1, <1>2, <1>3, <1>4 DEF EntryIs, EntryRec

LEMMA EntryFillsCalm == ASSUME IInv, Kept, NEW c \in Entries, EntryFills(c) PROVE Kept'
<1>1. entry[c].pc = "idle" /\ IsFcn(entry, Entries) /\ EntryRec(entry[c])
  BY DEF EntryFills, IInv, Ahead, Shapes
<1>2. PICK e : entry' = [entry EXCEPT ![c] = e] /\ e = [entry[c] EXCEPT !.pc = "stop"]
  BY DEF EntryFills
<1>3. EntryIs(e, "stop", entry[c].k, entry[c].sl, entry[c].tps)
  BY <1>1, <1>2, EntryField
<1>4. IsFcn(entry', Entries) /\ entry'[c] = e /\ \A d \in Entries \ {c} : entry'[d] = entry[d]
  BY <1>1, <1>2 DEF IsFcn
<1>5. UNCHANGED <<orders, trades, tick, lv, reduce>> /\ pos' = pos + Lots
  BY DEF EntryFills, monitor
<1>6. Providing'
  BY <1>3, <1>4 DEF Providing, EntryIs
<1>7. Guarded' /\ Spared'
  BY <1>5, <1>6 DEF Kept, Guarded, Spared, Stays
<1>8. Sized'
  BY <1>5, ProtectiveAssumption DEF Kept, Sized
<1>9. Unheard'
  <2>1. \A d \in Entries : Unborn(d)' => Unborn(d)
    BY <1>1, <1>4 DEF Unborn
  <2> QED
    BY <1>5, <2>1 DEF Kept, Unheard
<1>10. OnTheWay' /\ Targets'
  BY <1>3, <1>4, <1>5 DEF Kept, OnTheWay, Targets, EntryIs, StopId
<1> QED
  BY <1>5, <1>7, <1>8, <1>9, <1>10 DEF Kept

LEMMA PlaceStopCalm == ASSUME IInv, Kept, Calm', NEW c \in Entries, PlaceStop(c) PROVE Kept'
<1> DEFINE o == Order("sl", <<"sl-auto", c, 0>>, StopPrice, 0)
<1>0. PICK ack \in Acks :
        /\ Placed(o, ack)
        /\ entry' = [entry EXCEPT ![c] = [@ EXCEPT !.pc = "target", !.k = TargetAfter(0), !.sl = AckId(o, ack)]]
  BY DEF PlaceStop
<1>1. entry[c].pc = "stop" /\ IsFcn(entry, Entries) /\ EntryRec(entry[c]) /\ used \in UsedType
  BY DEF PlaceStop, IInv, Shapes, UsedType
<1>2. o.id = StopId(c) /\ o.size = 0 /\ OwnStop(o)
  BY OrderFields DEF OwnStop, OwnPrefixes, StopId
<1> HIDE DEF o
<1>3. pos \in Nat /\ pos' = pos /\ (pos > 0 => orders' = orders \cup {o}) /\ (pos = 0 => orders' = orders)
  BY <1>0, <1>1, CalmPlaced DEF Kept, Sized
<1>4. PICK id : id = AckId(o, ack)
  OBVIOUS
<1>5. id \in {NoId, StopId(c)}
  BY <1>2, <1>4 DEF AckId
<1>6. PICK e : EntryIs(e, "target", TargetAfter(0), id, entry[c].tps) /\ entry' = [entry EXCEPT ![c] = e]
  <2>1. PICK e1 : e1 = [entry[c] EXCEPT !.pc = "target"]
    OBVIOUS
  <2>2. PICK e2 : e2 = [e1 EXCEPT !.k = TargetAfter(0)]
    OBVIOUS
  <2>3. PICK e3 : e3 = [e2 EXCEPT !.sl = id]
    OBVIOUS
  <2>4. entry' = [entry EXCEPT ![c] = e3]
    BY <1>0, <1>4, <2>1, <2>2, <2>3
  <2>5. EntryIs(e1, "target", entry[c].k, entry[c].sl, entry[c].tps)
    BY <1>1, <2>1, EntryField
  <2>6. EntryIs(e2, "target", TargetAfter(0), entry[c].sl, entry[c].tps)
    BY <2>2, <2>5, EntryField DEF EntryIs
  <2>7. EntryIs(e3, "target", TargetAfter(0), id, entry[c].tps)
    BY <2>3, <2>6, EntryField DEF EntryIs
  <2> QED
    BY <2>4, <2>7
<1>7. IsFcn(entry', Entries) /\ entry'[c] = e /\ \A d \in Entries \ {c} : entry'[d] = entry[d]
  BY <1>1, <1>6 DEF IsFcn
<1>8. UNCHANGED <<trades, tick, lv, reduce>>
  BY DEF PlaceStop, monitor
<1>9. Guarded'
  BY <1>2, <1>3 DEF Guarded
<1>10. \A d \in Entries : pos > 0 => Besides(orders', trades[d].sl)
  BY <1>1, <1>2, <1>3 DEF Besides, Kept, Unheard, Unborn
<1>11. Spared'
  <2> SUFFICES ASSUME NEW t \in Ticks
               PROVE  /\ tick[t].pc = "timeclose" =>
                           /\ tick[t].size \in Nat
                           /\ pos > tick[t].size => Besides(orders', trades[tick[t].c].sl)
                      /\ tick[t].pc = "timecancel" /\ pos > 0 => Besides(orders', trades[tick[t].c].sl)
    BY <1>3, <1>8 DEF Spared, Stays
  <2>1. tick[t].pc \in {"timeclose", "timecancel"} => tick[t].c \in Entries
    BY DEF IInv, OnTrades, Working
  <2>2. tick[t].pc = "timeclose" => tick[t].size \in Nat
    BY DEF Kept, Spared
  <2>3. tick[t].pc = "timeclose" /\ pos > tick[t].size => pos > 0
    BY <1>3, <2>2
  <2> QED
    BY <1>10, <2>1, <2>2, <2>3
<1>12. Sized'
  BY <1>2, <1>3 DEF Kept, Sized
<1>13. Unheard'
  <2>1. \A d \in Entries : Unborn(d)' => Unborn(d) /\ d # c
    BY <1>6, <1>7 DEF Unborn, EntryIs
  <2>2. \A d \in Entries \ {c} : o.id # StopId(d)
    BY <1>2 DEF StopId
  <2>3. orders' \subseteq orders \cup {o}
    BY <1>3
  <2> QED
    BY <1>8, <2>1, <2>2, <2>3 DEF Kept, Unheard
<1>14. OnTheWay' /\ Targets'
  BY <1>5, <1>6, <1>7, <1>8, EntryTargets DEF Kept, OnTheWay, Targets, EntryIs, StopId
<1> QED
  BY <1>8, <1>9, <1>11, <1>12, <1>13, <1>14 DEF Kept

LEMMA PlaceTargetCalm == ASSUME IInv, Kept, Calm', NEW c \in Entries, PlaceTarget(c) PROVE Kept'
<1>1. /\ entry[c].pc = "target" /\ IsFcn(entry, Entries) /\ EntryRec(entry[c]) /\ used \in UsedType
      /\ IsFcn(trades, Entries)
  BY DEF PlaceTarget, IInv, Shapes, UsedType
<1>2. /\ entry[c].k \in 1..TpCount /\ entry[c].sl \in {NoId, StopId(c)}
      /\ \A id \in entry[c].tps : IsTarget(id)
  BY <1>1 DEF Kept, OnTheWay, Targets
<1> DEFINE o == Order("tp", <<"tptr", c, entry[c].k>>, EntryPrice + entry[c].k, TpSize(entry[c].k))
<1>a. PICK ack \in Acks :
        LET tps  == entry[c].tps \cup ({AckId(o, ack)} \ {NoId})
            last == TargetAfter(entry[c].k) = 0
            registers == last /\ tps # {} /\ (TpCount > 1 \/ c \in Timed)
        IN /\ Placed(o, ack)
           /\ entry' = [entry EXCEPT ![c] = IF last THEN Provided
                                            ELSE [@ EXCEPT !.k = TargetAfter(entry[c].k), !.tps = tps]]
           /\ trades' = IF registers
                        THEN [trades EXCEPT ![c] = [live |-> TRUE, sl |-> entry[c].sl, tps |-> tps, fired |-> FALSE]]
                        ELSE trades
  BY DEF PlaceTarget
<1>3. o.id = <<"tptr", c, entry[c].k>> /\ o.size = TpSize(entry[c].k)
  BY OrderFields
<1> HIDE DEF o
<1>0. PICK tps :
        /\ tps = entry[c].tps \cup ({AckId(o, ack)} \ {NoId})
        /\ Placed(o, ack)
        /\ \/ entry' = [entry EXCEPT ![c] = Provided]
           \/ /\ TargetAfter(entry[c].k) # 0
              /\ entry' = [entry EXCEPT ![c] = [@ EXCEPT !.k = TargetAfter(entry[c].k), !.tps = tps]]
        /\ \/ trades' = trades
           \/ trades' = [trades EXCEPT ![c] = [live |-> TRUE, sl |-> entry[c].sl, tps |-> tps, fired |-> FALSE]]
  BY <1>a
<1>4. o.id[1] = "tptr" /\ o.size \in Nat
  BY <1>2, <1>3, EntryTargets
<1>5. \A id \in tps : IsTarget(id)
  BY <1>0, <1>2, <1>4 DEF AckId, IsTarget
<1>6. pos \in Nat /\ pos' = pos /\ orders \subseteq orders' /\ orders' \subseteq orders \cup {o}
  BY <1>0, <1>1, CalmPlaced DEF Kept, Sized
<1>7. PICK e : /\ entry' = [entry EXCEPT ![c] = e]
               /\ \/ e = Provided
                  \/ TargetAfter(entry[c].k) # 0 /\ EntryIs(e, "target", TargetAfter(entry[c].k), entry[c].sl, tps)
  <2>1. CASE entry' = [entry EXCEPT ![c] = Provided]
    BY <2>1
  <2>2. CASE /\ TargetAfter(entry[c].k) # 0
             /\ entry' = [entry EXCEPT ![c] = [@ EXCEPT !.k = TargetAfter(entry[c].k), !.tps = tps]]
    <3>1. PICK e1 : e1 = [entry[c] EXCEPT !.k = TargetAfter(entry[c].k)]
      OBVIOUS
    <3>2. PICK e2 : e2 = [e1 EXCEPT !.tps = tps]
      OBVIOUS
    <3>3. entry' = [entry EXCEPT ![c] = e2]
      BY <2>2, <3>1, <3>2
    <3>4. EntryIs(e1, entry[c].pc, TargetAfter(entry[c].k), entry[c].sl, entry[c].tps)
      BY <1>1, <3>1, EntryField
    <3>5. EntryIs(e2, "target", TargetAfter(entry[c].k), entry[c].sl, tps)
      BY <1>1, <3>2, <3>4, EntryField DEF EntryIs
    <3> QED
      BY <2>2, <3>3, <3>5
  <2> QED
    BY <1>0, <2>1, <2>2
<1>8. /\ entry'[c] = e /\ \A d \in Entries \ {c} : entry'[d] = entry[d]
      /\ \A d \in Entries \ {c} : trades'[d] = trades[d]
      /\ trades'[c] = trades[c] \/ (trades'[c].sl = entry[c].sl /\ trades'[c].tps = tps)
  BY <1>0, <1>1, <1>7 DEF IsFcn
<1>9. Provided.pc = "done" /\ Provided.tps = {}
  BY DEF Provided, NoEntry
<1>10. e.pc \in {"target", "done"}
  BY <1>7, <1>9 DEF EntryIs
<1>11. UNCHANGED <<tick, lv, reduce>>
  BY DEF PlaceTarget
<1>12. Providing' = Providing
  BY <1>1, <1>8, <1>10 DEF Providing
<1>13. Guarded'
  BY <1>6, <1>11, <1>12 DEF Kept, Guarded
<1>14. \A t \in Ticks : tick[t].pc \in {"timeclose", "timecancel"} => trades'[tick[t].c] = trades[tick[t].c]
  <2> SUFFICES ASSUME NEW t \in Ticks, tick[t].pc \in {"timeclose", "timecancel"}
               PROVE  tick[t].c \in Entries \ {c}
    BY <1>8
  <2>1. tick[t].pc \in Working /\ tick[t].c \in Entries
    BY DEF IInv, OnTrades, Working
  <2>2. entry[tick[t].c].pc = "done"
    BY <2>1 DEF IInv, Through, Known, Visits
  <2> QED
    BY <1>1, <2>1, <2>2
<1>15. Spared'
  <2>1. \A id : Besides(orders, id) => Besides(orders', id)
    BY <1>6 DEF Besides
  <2> QED
    BY <1>6, <1>11, <1>12, <1>14, <2>1 DEF Kept, Spared, Stays
<1>16. Sized'
  BY <1>4, <1>6 DEF Kept, Sized
<1>17. Unheard'
  <2> SUFFICES ASSUME NEW d \in Entries, Unborn(d)'
               PROVE  /\ \A x \in orders' : x.id # StopId(d)
                      /\ \A t \in Ticks : StopId(d) \notin tick[t].seen
                      /\ \A x \in Entries : trades'[x].sl # StopId(d)
    BY <1>11 DEF Unheard
  <2>1. d # c /\ Unborn(d)
    BY <1>8, <1>10 DEF Unborn
  <2>2. o.id # StopId(d) /\ entry[c].sl # StopId(d)
    BY <1>2, <1>3, <2>1 DEF StopId, NoId, NoOne
  <2> QED
    BY <1>6, <1>8, <2>1, <2>2 DEF Kept, Unheard
<1>18. OnTheWay'
  <2> SUFFICES ASSUME NEW d \in Entries, entry'[d].pc = "target"
               PROVE  entry'[d].k \in 1..TpCount /\ entry'[d].sl \in {NoId, StopId(d)}
    BY DEF OnTheWay, StopId
  <2>1. CASE d = c
    BY <1>2, <1>7, <1>8, <1>9, <2>1, EntryTargets DEF EntryIs
  <2>2. CASE d # c
    BY <1>8, <2>2 DEF Kept, OnTheWay
  <2> QED
    BY <2>1, <2>2
<1>19. Targets'
  <2>1. \A id \in e.tps : IsTarget(id)
    BY <1>5, <1>7, <1>9 DEF EntryIs
  <2> QED
    BY <1>5, <1>8, <1>11, <2>1 DEF Kept, Targets
<1> QED
  BY <1>11, <1>13, <1>15, <1>16, <1>17, <1>18, <1>19 DEF Kept

-----------------------------------------------------------------------------
(* The monitor.                                                            *)

RunIs(m, pc, seen, c, still, size) ==
  TickRec(m) /\ m.pc = pc /\ m.seen = seen /\ m.c = c /\ m.still = still /\ m.size = size

LEMMA RunField ==
  ASSUME NEW r, TickRec(r), NEW v, NEW m
  PROVE  /\ m = [r EXCEPT !.pc = v] => RunIs(m, v, r.seen, r.c, r.still, r.size)
         /\ m = [r EXCEPT !.seen = v] => RunIs(m, r.pc, v, r.c, r.still, r.size)
         /\ m = [r EXCEPT !.visited = v] => RunIs(m, r.pc, r.seen, r.c, r.still, r.size)
         /\ m = [r EXCEPT !.c = v] => RunIs(m, r.pc, r.seen, v, r.still, r.size)
         /\ m = [r EXCEPT !.still = v] => RunIs(m, r.pc, r.seen, r.c, v, r.size)
         /\ m = [r EXCEPT !.just = v] => RunIs(m, r.pc, r.seen, r.c, r.still, r.size)
         /\ m = [r EXCEPT !.size = v] => RunIs(m, r.pc, r.seen, r.c, r.still, v)
<1>0. r = [pc |-> r.pc, seen |-> r.seen, visited |-> r.visited, c |-> r.c,
           still |-> r.still, just |-> r.just, size |-> r.size]
  BY DEF TickRec
<1>1. [r EXCEPT !.pc = v] = [pc |-> v, seen |-> r.seen, visited |-> r.visited, c |-> r.c,
                             still |-> r.still, just |-> r.just, size |-> r.size]
  BY <1>0
<1>2. [r EXCEPT !.seen = v] = [pc |-> r.pc, seen |-> v, visited |-> r.visited, c |-> r.c,
                               still |-> r.still, just |-> r.just, size |-> r.size]
  BY <1>0
<1>3. [r EXCEPT !.visited = v] = [pc |-> r.pc, seen |-> r.seen, visited |-> v, c |-> r.c,
                                  still |-> r.still, just |-> r.just, size |-> r.size]
  BY <1>0
<1>4. [r EXCEPT !.c = v] = [pc |-> r.pc, seen |-> r.seen, visited |-> r.visited, c |-> v,
                            still |-> r.still, just |-> r.just, size |-> r.size]
  BY <1>0
<1>5. [r EXCEPT !.still = v] = [pc |-> r.pc, seen |-> r.seen, visited |-> r.visited, c |-> r.c,
                                still |-> v, just |-> r.just, size |-> r.size]
  BY <1>0
<1>6. [r EXCEPT !.just = v] = [pc |-> r.pc, seen |-> r.seen, visited |-> r.visited, c |-> r.c,
                               still |-> r.still, just |-> v, size |-> r.size]
  BY <1>0
<1>7. [r EXCEPT !.size = v] = [pc |-> r.pc, seen |-> r.seen, visited |-> r.visited, c |-> r.c,
                               still |-> r.still, just |-> r.just, size |-> v]
  BY <1>0
<1> QED
  BY <1>1, <1>2, <1>3, <1>4, <1>5, <1>6, <1>7 DEF RunIs, TickRec

(* What a run and the trades may know.                                     *)
RunFit(k) ==
  /\ TickRec(k)
  /\ \A e \in Entries : Unborn(e) => StopId(e) \notin k.seen
  /\ \A id \in k.still : IsTarget(id)
TradeFit(r) ==
  /\ TradeRec(r)
  /\ \A e \in Entries : Unborn(e) => r.sl # StopId(e)
  /\ \A id \in r.tps : IsTarget(id)
TradesFit == \A c \in Entries : TradeFit(trades[c])

(* The run goes to one of these places.                                    *)
Turns(t, places) == \E k : tick' = [tick EXCEPT ![t] = k] /\ RunFit(k) /\ k.pc \in places

LEMMA FitNow == ASSUME IInv, Kept PROVE TradesFit /\ \A t \in Ticks : RunFit(tick[t])
BY DEF IInv, Shapes, Kept, Unheard, Targets, TradesFit, TradeFit, RunFit

LEMMA TickKept ==
  ASSUME IInv, Kept, NEW t \in Ticks, NEW k, tick' = [tick EXCEPT ![t] = k], RunFit(k),
         UNCHANGED <<entry, lv, reduce>>, Guarded', Spared', Sized', TradesFit',
         \A o \in orders' : o \in orders \/ o.id[1] # "sl-auto"
  PROVE  Kept'
<1>1. \A u \in Ticks : RunFit(tick'[u])
  <2>1. \A u \in Ticks : tick'[u] = k \/ tick'[u] = tick[u]
    BY DEF IInv, Shapes, IsFcn
  <2> QED
    BY <2>1, FitNow
<1>2. \A e \in Entries : Unborn(e)' = Unborn(e) /\ StopId(e)[1] = "sl-auto"
  BY DEF Unborn, StopId
<1>3. Unheard'
  BY <1>1, <1>2 DEF Kept, Unheard, RunFit, TradesFit, TradeFit
<1>4. OnTheWay'
  BY DEF Kept, OnTheWay, StopId
<1>5. Targets'
  BY <1>1 DEF Kept, Targets, RunFit, TradesFit, TradeFit
<1> QED
  BY <1>3, <1>4, <1>5 DEF Kept

(* A run that turns to a place where nothing hangs on the time stop; the   *)
(* break-even stop is not skipped while there is a position.               *)
Plain == {"idle", "recover", "orders", "loop", "timepos", "stopgone", "cancel", "size", "place", "closed"}

LEMMA PlainTurn ==
  ASSUME IInv, Kept, OneTick, NEW t \in Ticks, Turns(t, Plain), TradesFit',
         UNCHANGED <<pos, orders, entry, lv, reduce>>,
         tick[t].pc \in {"size", "place"} => pos = 0 \/ Turns(t, {"place"})
  PROVE  Kept'
<1>1. PICK k : tick' = [tick EXCEPT ![t] = k] /\ RunFit(k) /\ k.pc \in Plain
  BY DEF Turns
<1>2. tick'[t] = k /\ \A u \in Ticks : u = t
  BY <1>1 DEF IInv, Shapes, IsFcn, OneTick
<1>3. Spared'
  BY <1>1, <1>2 DEF Spared, Plain
<1>4. tick[t].pc \in {"size", "place"} => pos = 0 \/ k.pc = "place"
  <2>1. Turns(t, {"place"}) => k.pc = "place"
    BY <1>2 DEF Turns, IInv, Shapes, IsFcn
  <2> QED
    BY <2>1
<1>5. Guarded'
  <2>1. Providing' = Providing
    BY DEF Providing
  <2> QED
    BY <1>2, <1>4, <2>1 DEF Kept, Guarded
<1>6. Sized'
  BY DEF Kept, Sized
<1> QED
  BY <1>1, <1>3, <1>5, <1>6, TickKept

LEMMA AtTurns ==
  ASSUME NEW t, NEW where, NEW tk, RunFit(tk), At(t, where, tk)
  PROVE  Turns(t, {where})
<1>1. PICK m : tick' = [tick EXCEPT ![t] = m] /\ m = [tk EXCEPT !.pc = where]
  BY DEF At
<1>2. RunIs(m, where, tk.seen, tk.c, tk.still, tk.size)
  BY <1>1, RunField DEF RunFit
<1>3. RunFit(m) /\ m.pc \in {where}
  BY <1>2 DEF RunFit, RunIs
<1> QED
  BY <1>1, <1>3 DEF Turns

LEMMA ContinueTurns ==
  ASSUME NEW t, NEW tk, RunFit(tk), Continue(t, tk)
  PROVE  Turns(t, {"loop"})
<1>1. PICK m1 : m1 = [NoTick EXCEPT !.pc = "loop"]
  OBVIOUS
<1>2. PICK m2 : m2 = [m1 EXCEPT !.seen = tk.seen]
  OBVIOUS
<1>3. PICK m3 : m3 = [m2 EXCEPT !.visited = tk.visited \cup {tk.c}]
  OBVIOUS
<1>4. tick' = [tick EXCEPT ![t] = m3]
  BY <1>1, <1>2, <1>3 DEF Continue
<1>5. TickRec(NoTick) /\ NoTick.still = {}
  BY NoTickRec DEF NoTick
<1>6. RunIs(m1, "loop", NoTick.seen, NoTick.c, NoTick.still, NoTick.size)
  BY <1>1, <1>5, RunField
<1>7. RunIs(m2, "loop", tk.seen, NoTick.c, NoTick.still, NoTick.size)
  BY <1>2, <1>6, RunField DEF RunIs
<1>8. RunIs(m3, "loop", tk.seen, NoTick.c, NoTick.still, NoTick.size)
  BY <1>3, <1>7, RunField DEF RunIs
<1>9. RunFit(m3) /\ m3.pc \in {"loop"}
  BY <1>5, <1>8 DEF RunFit, RunIs
<1> QED
  BY <1>4, <1>9 DEF Turns

LEMMA EndOfVisitTurns ==
  ASSUME NEW t, NEW tk, RunFit(tk), EndOfVisit(t, tk)
  PROVE  Turns(t, {"loop", "closed"})
<1>1. CASE At(t, "closed", tk)
  BY <1>1, AtTurns DEF Turns
<1>2. CASE Continue(t, tk)
  BY <1>2, ContinueTurns DEF Turns
<1> QED
  BY <1>1, <1>2 DEF EndOfVisit

LEMMA TradeField ==
  ASSUME NEW r, TradeFit(r), NEW v, NEW m
  PROVE  /\ m = [r EXCEPT !.live = v] => TradeFit(m)
         /\ m = [r EXCEPT !.fired = v] => TradeFit(m)
         /\ m = [r EXCEPT !.sl = v] /\ (\A e \in Entries : Unborn(e) => v # StopId(e)) => TradeFit(m)
         /\ m = [r EXCEPT !.tps = v] /\ (\A id \in v : IsTarget(id)) => TradeFit(m)
<1>0. r = [live |-> r.live, sl |-> r.sl, tps |-> r.tps, fired |-> r.fired]
  BY DEF TradeFit, TradeRec
<1>1. [r EXCEPT !.live = v] = [live |-> v, sl |-> r.sl, tps |-> r.tps, fired |-> r.fired]
  BY <1>0
<1>2. [r EXCEPT !.fired = v] = [live |-> r.live, sl |-> r.sl, tps |-> r.tps, fired |-> v]
  BY <1>0
<1>3. [r EXCEPT !.sl = v] = [live |-> r.live, sl |-> v, tps |-> r.tps, fired |-> r.fired]
  BY <1>0
<1>4. [r EXCEPT !.tps = v] = [live |-> r.live, sl |-> r.sl, tps |-> v, fired |-> r.fired]
  BY <1>0
<1> QED
  BY <1>1, <1>2, <1>3, <1>4 DEF TradeFit, TradeRec

LEMMA TradesSet ==
  ASSUME IInv, TradesFit, NEW c \in Entries, NEW r, TradeFit(r), trades' = [trades EXCEPT ![c] = r],
         UNCHANGED entry
  PROVE  TradesFit'
<1>1. \A d \in Entries : TradeFit(trades'[d])
  BY DEF IInv, Shapes, IsFcn, TradesFit
<1>2. \A e \in Entries : Unborn(e)' = Unborn(e)
  BY DEF Unborn
<1> QED
  BY <1>1, <1>2 DEF TradesFit, TradeFit, StopId

LEMMA TradesSame == ASSUME TradesFit, UNCHANGED <<trades, entry>> PROVE TradesFit'
<1>1. \A e \in Entries : Unborn(e)' = Unborn(e)
  BY DEF Unborn
<1> QED
  BY <1>1 DEF TradesFit, TradeFit, StopId

LEMMA DeletedFit ==
  ASSUME IInv, TradesFit, NEW c \in Entries, Deleted(c), UNCHANGED entry
  PROVE  TradesFit'
<1>1. PICK r : trades' = [trades EXCEPT ![c] = r] /\ r = [trades[c] EXCEPT !.live = FALSE]
  BY DEF Deleted
<1>2. TradeFit(r)
  BY <1>1, TradeField DEF TradesFit
<1> QED
  BY <1>1, <1>2, TradesSet

LEMMA ApplyFillsTurns ==
  ASSUME IInv, TradesFit, NEW t, NEW tk, RunFit(tk), tk.c \in Entries, NEW tr, TradeFit(tr),
         ApplyFills(t, tk, tr), UNCHANGED entry
  PROVE  TradesFit' /\ Turns(t, {"loop", "closed", "cancel", "size"})
<1>1. CASE tk.just = {}
  BY <1>1, TradesSet, ContinueTurns DEF Turns, ApplyFills
<1>2. CASE tk.just # {}
  <2>1. PICK r1 : r1 = [tr EXCEPT !.tps = tk.still]
    OBVIOUS
  <2>2. PICK r2 : r2 = [r1 EXCEPT !.fired = TRUE]
    OBVIOUS
  <2>3. TradeFit(r1)
    BY <2>1, TradeField DEF RunFit
  <2>4. TradeFit(r2)
    BY <2>2, <2>3, TradeField
  <2>5. trades' = [trades EXCEPT ![tk.c] = r2]
    BY <1>2, <2>1, <2>2 DEF ApplyFills
  <2>6. TradesFit'
    BY <2>4, <2>5, TradesSet
  <2>7. CASE EndOfVisit(t, tk)
    <3>1. Turns(t, {"loop", "closed"})
      BY <2>7, EndOfVisitTurns
    <3> QED
      BY <2>6, <3>1 DEF Turns
  <2>8. ASSUME NEW where \in {"cancel", "size"}, At(t, where, tk)
        PROVE  Turns(t, {"loop", "closed", "cancel", "size"})
    BY <2>8, AtTurns DEF Turns
  <2> QED
    BY <1>2, <2>6, <2>7, <2>8 DEF ApplyFills
<1> QED
  BY <1>1, <1>2

LEMMA LookAtStopTurns ==
  ASSUME IInv, TradesFit, NEW t, NEW tk, RunFit(tk), tk.c \in Entries, LookAtStop(t, tk), UNCHANGED entry
  PROVE  TradesFit' /\ Turns(t, Plain)
<1>1. CASE At(t, "stopgone", tk) /\ UNCHANGED trades
  BY <1>1, TradesSame, AtTurns DEF Turns, Plain
<1>2. CASE ApplyFills(t, tk, trades[tk.c])
  BY <1>2, ApplyFillsTurns DEF Turns, TradesFit, Plain
<1> QED
  BY <1>1, <1>2 DEF LookAtStop

LEMMA TickStartCalm == ASSUME IInv, Kept, OneTick, NEW t \in Ticks, TickStart(t) PROVE Kept'
<1>1. UNCHANGED <<pos, orders, trades, entry, lv, reduce>> /\ tick[t].pc = "idle"
  BY DEF TickStart, exchange
<1>2. PICK where \in {"recover", "orders"} : At(t, where, tick[t])
  BY DEF TickStart, At
<1>3. Turns(t, Plain)
  BY <1>2, FitNow, AtTurns DEF Turns, Plain
<1>4. TradesFit'
  BY <1>1, FitNow, TradesSame
<1> QED
  BY <1>1, <1>3, <1>4, PlainTurn

LEMMA TickRecoverCalm == ASSUME IInv, Kept, OneTick, NEW t \in Ticks, TickRecover(t) PROVE Kept'
<1>1. UNCHANGED <<pos, orders, trades, entry, lv, reduce>> /\ tick[t].pc = "recover"
  BY NothingRecovered DEF TickRecover, exchange
<1>2. PICK where \in {"idle", "orders"} : At(t, where, tick[t])
  BY DEF TickRecover, At
<1>3. Turns(t, Plain)
  BY <1>2, FitNow, AtTurns DEF Turns, Plain
<1>4. TradesFit'
  BY <1>1, FitNow, TradesSame
<1> QED
  BY <1>1, <1>3, <1>4, PlainTurn

LEMMA TickReadCalm == ASSUME IInv, Kept, OneTick, NEW t \in Ticks, TickRead(t) PROVE Kept'
<1>1. UNCHANGED <<pos, orders, trades, entry, lv, reduce>> /\ tick[t].pc = "orders"
  BY DEF TickRead, exchange
<1>2. TickRec(NoTick) /\ NoTick.still = {} /\ NoTick.seen = {} /\ NoTick.pc = "idle"
  BY NoTickRec DEF NoTick
<1>3. Turns(t, Plain)
  <2>1. CASE tick' = [tick EXCEPT ![t] = [NoTick EXCEPT !.pc = "loop", !.seen = Ids(orders)]]
    <3>1. PICK m1 : m1 = [NoTick EXCEPT !.pc = "loop"]
      OBVIOUS
    <3>2. PICK m2 : m2 = [m1 EXCEPT !.seen = Ids(orders)]
      OBVIOUS
    <3>3. tick' = [tick EXCEPT ![t] = m2]
      BY <2>1, <3>1, <3>2
    <3>4. RunIs(m1, "loop", NoTick.seen, NoTick.c, NoTick.still, NoTick.size)
      BY <1>2, <3>1, RunField
    <3>5. RunIs(m2, "loop", Ids(orders), NoTick.c, NoTick.still, NoTick.size)
      BY <3>2, <3>4, RunField DEF RunIs
    <3>6. \A e \in Entries : Unborn(e) => StopId(e) \notin Ids(orders)
      BY DEF Kept, Unheard, Ids
    <3> QED
      BY <1>2, <3>3, <3>5, <3>6 DEF Turns, RunIs, RunFit, Plain
  <2>2. CASE tick' = [tick EXCEPT ![t] = NoTick]
    BY <1>2, <2>2 DEF Turns, RunFit, Plain
  <2> QED
    BY <2>1, <2>2 DEF TickRead
<1>4. TradesFit'
  BY <1>1, FitNow, TradesSame
<1> QED
  BY <1>1, <1>3, <1>4, PlainTurn

LEMMA TickVisitCalm == ASSUME IInv, Kept, OneTick, NEW t \in Ticks, TickVisit(t) PROVE Kept'
<1>1. UNCHANGED <<pos, orders, entry, lv, reduce>> /\ tick[t].pc = "loop"
  BY DEF TickVisit, exchange
<1>2. TradesFit /\ RunFit(tick[t])
  BY FitNow
<1>3. CASE tick' = [tick EXCEPT ![t] = NoTick] /\ UNCHANGED trades
  <2>1. RunFit(NoTick) /\ NoTick.pc \in Plain
    BY NoTickRec DEF RunFit, NoTick, Plain
  <2>2. Turns(t, Plain)
    BY <1>3, <2>1 DEF Turns
  <2> QED
    BY <1>1, <1>2, <1>3, <2>2, TradesSame, PlainTurn
<1>4. ASSUME NEW i \in Left(t), NEW tk,
             tk = [tick[t] EXCEPT !.c = reg[i], !.still = trades[reg[i]].tps \cap tick[t].seen,
                                  !.just = trades[reg[i]].tps \ tick[t].seen],
             (At(t, "timepos", tk) /\ UNCHANGED trades) \/ LookAtStop(t, tk)
      PROVE  Kept'
  <2>1. reg[i] \in Entries
    BY DEF Left, IInv, Shapes
  <2>2. RunFit(tk) /\ tk.c = reg[i]
    <3>1. PICK k1 : k1 = [tick[t] EXCEPT !.c = reg[i]]
      OBVIOUS
    <3>0. PICK still : still = trades[reg[i]].tps \cap tick[t].seen
      OBVIOUS
    <3>2. PICK k2 : k2 = [k1 EXCEPT !.still = still]
      OBVIOUS
    <3>3. PICK k3 : k3 = [k2 EXCEPT !.just = trades[reg[i]].tps \ tick[t].seen]
      OBVIOUS
    <3>4. tk = k3
      BY <1>4, <3>0, <3>1, <3>2, <3>3
    <3>5. RunIs(k1, tick[t].pc, tick[t].seen, reg[i], tick[t].still, tick[t].size)
      <4>1. TickRec(tick[t])
        BY <1>2 DEF RunFit
      <4> QED
        BY <3>1, <4>1, RunField
    <3>6. RunIs(k2, tick[t].pc, tick[t].seen, reg[i], still, tick[t].size)
      <4>1. TickRec(k1)
        BY <3>5 DEF RunIs
      <4>2. RunIs(k2, k1.pc, k1.seen, k1.c, still, k1.size)
        BY <3>2, <4>1, RunField
      <4> QED
        BY <3>5, <4>2 DEF RunIs
    <3>7. RunIs(k3, tick[t].pc, tick[t].seen, reg[i], still, tick[t].size)
      <4>1. TickRec(k2)
        BY <3>6 DEF RunIs
      <4>2. RunIs(k3, k2.pc, k2.seen, k2.c, k2.still, k2.size)
        BY <3>3, <4>1, RunField
      <4> QED
        BY <3>6, <4>2 DEF RunIs
    <3>8. \A id \in trades[reg[i]].tps : IsTarget(id)
      BY <1>2, <2>1 DEF TradesFit, TradeFit
    <3> QED
      BY <1>2, <3>0, <3>4, <3>7, <3>8 DEF RunFit, RunIs
  <2>3. CASE At(t, "timepos", tk) /\ UNCHANGED trades
    <3>1. Turns(t, Plain)
      BY <2>2, <2>3, AtTurns DEF Turns, Plain
    <3> QED
      BY <1>1, <1>2, <2>3, <3>1, TradesSame, PlainTurn
  <2>4. CASE LookAtStop(t, tk)
    BY <1>1, <1>2, <2>1, <2>2, <2>4, LookAtStopTurns, PlainTurn
  <2> QED
    BY <1>4, <2>3, <2>4
<1> QED
  BY <1>3, <1>4 DEF TickVisit

(* A run in the middle of a visit, while there is only one.                *)
LEMMA InVisit ==
  ASSUME IInv, Kept, OneTick, NEW t \in Ticks, tick[t].pc \in Working
  PROVE  /\ used \in UsedType /\ TradesFit /\ RunFit(tick[t]) /\ tick[t].c \in Entries
         /\ TradeFit(trades[tick[t].c])
         /\ \A u \in Ticks : u = t
         /\ \A k : tick' = [tick EXCEPT ![t] = k] => tick'[t] = k
BY FitNow DEF IInv, Shapes, UsedType, OnTrades, TradesFit, OneTick, IsFcn

LEMMA TimeStopReadCalm == ASSUME IInv, Kept, OneTick, Calm', NEW t \in Ticks, TimeStopRead(t) PROVE Kept'
<1>1. tick[t].pc = "timepos" /\ tick[t].pc \in Working /\ UNCHANGED <<pos, orders, entry, lv, reduce>>
  BY DEF TimeStopRead, Working, exchange
<1>2. PICK size : /\ PositionRead(size)
                  /\ \/ Deleted(tick[t].c) /\ Continue(t, tick[t])
                     \/ At(t, "timeclose", [tick[t] EXCEPT !.size = size]) /\ UNCHANGED trades
  BY DEF TimeStopRead
<1>3. size = pos /\ pos \in Nat
  BY <1>1, <1>2, InVisit, CalmRead DEF Kept, Sized
<1>4. CASE Deleted(tick[t].c) /\ Continue(t, tick[t])
  <2>1. Turns(t, Plain) /\ TradesFit'
    BY <1>1, <1>4, InVisit, ContinueTurns, DeletedFit DEF Turns, Plain
  <2> QED
    BY <1>1, <2>1, PlainTurn
<1>5. CASE At(t, "timeclose", [tick[t] EXCEPT !.size = size]) /\ UNCHANGED trades
  <2>1. PICK k1 : k1 = [tick[t] EXCEPT !.size = size]
    OBVIOUS
  <2>2. PICK k2 : k2 = [k1 EXCEPT !.pc = "timeclose"]
    OBVIOUS
  <2>3. tick' = [tick EXCEPT ![t] = k2]
    BY <1>5, <2>1, <2>2 DEF At
  <2>4. RunIs(k1, tick[t].pc, tick[t].seen, tick[t].c, tick[t].still, size)
    BY <1>1, <2>1, InVisit, RunField DEF RunFit
  <2>5. RunIs(k2, "timeclose", tick[t].seen, tick[t].c, tick[t].still, size)
    <3>1. TickRec(k1)
      BY <2>4 DEF RunIs
    <3>2. RunIs(k2, "timeclose", k1.seen, k1.c, k1.still, k1.size)
      BY <2>2, <3>1, RunField
    <3> QED
      BY <2>4, <3>2 DEF RunIs
  <2>6. RunFit(k2)
    BY <1>1, <2>5, InVisit DEF RunFit, RunIs
  <2>7. Spared'
    BY <1>1, <1>3, <2>3, <2>5, InVisit DEF Spared, RunIs
  <2>8. Guarded'
    <3>1. Providing' = Providing
      BY <1>1 DEF Providing
    <3> QED
      BY <1>1, <3>1, InVisit DEF Kept, Guarded
  <2>9. Sized' /\ TradesFit'
    BY <1>1, <1>5, InVisit, TradesSame DEF Kept, Sized
  <2> QED
    BY <1>1, <2>3, <2>6, <2>7, <2>8, <2>9, TickKept
<1> QED
  BY <1>2, <1>4, <1>5

LEMMA TimeStopCloseCalm == ASSUME IInv, Kept, OneTick, Calm', NEW t \in Ticks, TimeStopClose(t) PROVE Kept'
<1>1. tick[t].pc = "timeclose" /\ tick[t].pc \in Working /\ UNCHANGED <<orders, entry, lv, reduce>>
  BY DEF TimeStopClose, Working
<1>2. /\ pos \in Nat /\ tick[t].size \in Nat
      /\ pos > tick[t].size => Providing \/ Besides(orders, trades[tick[t].c].sl)
  BY <1>1 DEF Kept, Sized, Spared, Stays
<1>3. PICK filled \in 0..Lesser(tick[t].size, pos), ok \in BOOLEAN :
        /\ Faulty(filled < Lesser(tick[t].size, pos) \/ ~ok)
        /\ pos' = pos - filled
        /\ ok => At(t, "timecancel", tick[t]) /\ UNCHANGED trades
  BY DEF TimeStopClose
<1>4. ~(filled < Lesser(tick[t].size, pos) \/ ~ok)
  <2>1. (filled < Lesser(tick[t].size, pos) \/ ~ok) \in BOOLEAN
    OBVIOUS
  <2> QED
    BY <1>1, <1>3, <2>1, InVisit, NoFault
<1>5. pos' \in Nat /\ pos' <= pos /\ (pos' > 0 => pos > tick[t].size)
  BY <1>2, <1>3, <1>4 DEF Lesser
<1>6. PICK k : tick' = [tick EXCEPT ![t] = k] /\ k = [tick[t] EXCEPT !.pc = "timecancel"]
  BY <1>3, <1>4 DEF At
<1>7. RunIs(k, "timecancel", tick[t].seen, tick[t].c, tick[t].still, tick[t].size)
  BY <1>1, <1>6, InVisit, RunField DEF RunFit
<1>8. RunFit(k)
  BY <1>1, <1>7, InVisit DEF RunFit, RunIs
<1>9. UNCHANGED trades
  BY <1>3, <1>4
<1>10. Providing' = Providing
  BY <1>1 DEF Providing
<1>11. tick'[t] = k /\ \A u \in Ticks : u = t
  BY <1>1, <1>6, InVisit
<1>12. Spared'
  BY <1>1, <1>2, <1>5, <1>7, <1>9, <1>10, <1>11 DEF Spared, Stays, RunIs
<1>13. Guarded'
  BY <1>1, <1>2, <1>5, <1>10 DEF Guarded, Besides
<1>14. Sized' /\ TradesFit'
  BY <1>1, <1>5, <1>9, InVisit, TradesSame DEF Kept, Sized
<1> QED
  BY <1>1, <1>6, <1>8, <1>12, <1>13, <1>14, TickKept

(* A turn that leaves nothing of the time stop behind.                     *)
LEMMA FreeTurn ==
  ASSUME IInv, Kept, OneTick, NEW t \in Ticks, Turns(t, Plain), TradesFit', Guarded', Sized',
         UNCHANGED <<entry, lv, reduce>>,
         \A o \in orders' : o \in orders \/ o.id[1] # "sl-auto"
  PROVE  Kept'
<1>1. PICK k : tick' = [tick EXCEPT ![t] = k] /\ RunFit(k) /\ k.pc \in Plain
  BY DEF Turns
<1>2. tick'[t] = k /\ \A u \in Ticks : u = t
  BY <1>1 DEF IInv, Shapes, IsFcn, OneTick
<1>3. Spared'
  BY <1>1, <1>2 DEF Spared, Plain
<1> QED
  BY <1>1, <1>3, TickKept

LEMMA TimeStopCancelCalm == ASSUME IInv, Kept, OneTick, Calm', NEW t \in Ticks, TimeStopCancel(t) PROVE Kept'
<1> DEFINE ids == ({trades[tick[t].c].sl} \ {NoId}) \cup trades[tick[t].c].tps
<1>1. tick[t].pc = "timecancel" /\ tick[t].pc \in Working /\ UNCHANGED <<entry, lv, reduce>>
  BY DEF TimeStopCancel, Working
<1>2. PICK failed \in BOOLEAN : Cancelled(ids, failed)
  BY DEF TimeStopCancel
<1>3. pos' = pos /\ orders' = {o \in orders : o.id \notin ids}
  BY <1>1, <1>2, InVisit, CalmCancelled
<1>4. pos > 0 => Providing \/ Besides(orders, trades[tick[t].c].sl)
  BY <1>1 DEF Kept, Spared, Stays
<1>5. \A id \in ids : id = trades[tick[t].c].sl \/ id[1] = "tptr"
  BY <1>1, InVisit DEF TradeFit, IsTarget
<1>6. Guarded'
  <2>1. Besides(orders, trades[tick[t].c].sl) => \E o \in orders' : OwnStop(o)
    BY <1>3, <1>5 DEF Besides, OwnStop, OwnPrefixes
  <2>2. Providing' = Providing
    BY <1>1 DEF Providing
  <2> QED
    BY <1>3, <1>4, <2>1, <2>2 DEF Guarded
<1>7. Sized' /\ \A o \in orders' : o \in orders
  BY <1>3 DEF Kept, Sized
<1>8. Deleted(tick[t].c) /\ Continue(t, tick[t])
  BY DEF TimeStopCancel
<1>9. Turns(t, Plain) /\ TradesFit'
  BY <1>1, <1>8, InVisit, ContinueTurns, DeletedFit DEF Turns, Plain
<1> QED
  BY <1>1, <1>6, <1>7, <1>9, FreeTurn

LEMMA StopGoneCalm == ASSUME IInv, Kept, OneTick, Calm', NEW t \in Ticks, StopGone(t) PROVE Kept'
<1>1. tick[t].pc = "stopgone" /\ tick[t].pc \in Working /\ UNCHANGED <<pos, orders, entry, lv, reduce>>
  BY DEF StopGone, Working, exchange
<1>2. CASE Deleted(tick[t].c) /\ Continue(t, tick[t])
  <2>1. Turns(t, Plain) /\ TradesFit'
    BY <1>1, <1>2, InVisit, ContinueTurns, DeletedFit DEF Turns, Plain
  <2> QED
    BY <1>1, <2>1, PlainTurn
<1>3. ASSUME NEW sl \in {NoId} \cup tick[t].seen, NEW tr, tr = [trades[tick[t].c] EXCEPT !.sl = sl],
             ApplyFills(t, tick[t], tr)
      PROVE  Kept'
  <2>1. \A e \in Entries : Unborn(e) => sl # StopId(e)
    BY <1>1, InVisit DEF RunFit, StopId, NoId
  <2>2. TradeFit(tr)
    BY <1>1, <1>3, <2>1, InVisit, TradeField
  <2>3. TradesFit' /\ Turns(t, {"loop", "closed", "cancel", "size"})
    BY <1>1, <1>3, <2>2, InVisit, ApplyFillsTurns
  <2>4. Turns(t, Plain)
    BY <2>3 DEF Turns, Plain
  <2> QED
    BY <1>1, <2>3, <2>4, PlainTurn
<1> QED
  BY <1>2, <1>3 DEF StopGone

LEMMA MoveCancelCalm == ASSUME IInv, Kept, OneTick, Calm', NEW t \in Ticks, MoveCancel(t) PROVE Kept'
<1>1. tick[t].pc = "cancel" /\ tick[t].pc \in Working /\ UNCHANGED <<trades, entry, lv, reduce>>
  BY DEF MoveCancel, Working
<1>2. pos' = pos /\ orders' \subseteq orders
  <2>1. PICK failed \in BOOLEAN : Cancelled({trades[tick[t].c].sl}, failed)
    BY DEF MoveCancel
  <2> QED
    BY <1>1, <2>1, InVisit, CalmCancelled
<1>3. Turns(t, {"size"})
  BY <1>1, InVisit, AtTurns DEF MoveCancel
<1>4. Guarded'
  BY <1>1, <1>3, InVisit DEF Guarded, Turns
<1>5. Turns(t, Plain) /\ Sized' /\ TradesFit'
  BY <1>1, <1>2, <1>3, InVisit, TradesSame DEF Turns, Plain, Kept, Sized
<1> QED
  BY <1>1, <1>2, <1>4, <1>5, FreeTurn

LEMMA MoveReadCalm == ASSUME IInv, Kept, OneTick, Calm', NEW t \in Ticks, MoveRead(t) PROVE Kept'
<1>1. /\ tick[t].pc = "size" /\ tick[t].pc \in Working
      /\ UNCHANGED <<pos, orders, trades, entry, lv, reduce>>
  BY DEF MoveRead, Working, exchange
<1>2. PICK size \in {0, pos} :
        PositionRead(size) /\ IF size > 0 THEN At(t, "place", tick[t]) ELSE EndOfVisit(t, tick[t])
  BY DEF MoveRead
<1>3. size = pos /\ pos \in Nat
  BY <1>1, <1>2, InVisit, CalmRead DEF Kept, Sized
<1>4. TradesFit'
  BY <1>1, InVisit, TradesSame
<1>5. CASE pos > 0
  <2>1. Turns(t, {"place"})
    BY <1>1, <1>2, <1>3, <1>5, InVisit, AtTurns
  <2>2. Turns(t, Plain)
    BY <2>1 DEF Turns, Plain
  <2> QED
    BY <1>1, <1>4, <2>1, <2>2, PlainTurn
<1>6. CASE pos = 0
  <2>1. Turns(t, {"loop", "closed"})
    BY <1>1, <1>2, <1>3, <1>6, InVisit, EndOfVisitTurns
  <2>2. Turns(t, Plain)
    BY <2>1 DEF Turns, Plain
  <2> QED
    BY <1>1, <1>4, <1>6, <2>2, PlainTurn
<1> QED
  BY <1>3, <1>5, <1>6

LEMMA MovePlaceCalm == ASSUME IInv, Kept, OneTick, Calm', NEW t \in Ticks, MovePlace(t) PROVE Kept'
<1>1. tick[t].pc = "place" /\ tick[t].pc \in Working /\ UNCHANGED <<entry, lv, reduce>>
  BY DEF MovePlace, Working
<1> DEFINE o == Order("sl", <<"be-sl", tick[t].c, 0>>, EntryPrice, 0)
<1>2. PICK ack \in Acks :
        Placed(o, ack) /\ trades' = [trades EXCEPT ![tick[t].c] = [@ EXCEPT !.sl = AckId(o, ack)]]
  BY DEF MovePlace
<1>3. o.id = <<"be-sl", tick[t].c, 0>> /\ o.size = 0 /\ o.kind = "sl"
  BY OrderFields
<1> HIDE DEF o
<1>4. pos \in Nat /\ pos' = pos /\ (pos > 0 => orders' = orders \cup {o}) /\ (pos = 0 => orders' = orders)
  BY <1>1, <1>2, InVisit, CalmPlaced DEF Kept, Sized
<1>5. Guarded'
  BY <1>3, <1>4 DEF Guarded, OwnStop, OwnPrefixes
<1>6. Sized' /\ \A x \in orders' : x \in orders \/ x.id[1] # "sl-auto"
  BY <1>3, <1>4 DEF Kept, Sized
<1>7. TradesFit'
  <2>1. PICK id : id = AckId(o, ack)
    OBVIOUS
  <2>2. \A e \in Entries : Unborn(e) => id # StopId(e)
    BY <1>3, <2>1 DEF AckId, NoId, StopId
  <2>3. PICK r : r = [trades[tick[t].c] EXCEPT !.sl = id]
    OBVIOUS
  <2>4. trades' = [trades EXCEPT ![tick[t].c] = r]
    BY <1>2, <2>1, <2>3
  <2>5. TradeFit(r)
    BY <1>1, <2>2, <2>3, InVisit, TradeField
  <2> QED
    BY <1>1, <2>4, <2>5, InVisit, TradesSet
<1>8. Turns(t, Plain)
  <2>1. Turns(t, {"loop", "closed"})
    BY <1>1, InVisit, EndOfVisitTurns DEF MovePlace
  <2> QED
    BY <2>1 DEF Turns, Plain
<1> QED
  BY <1>1, <1>5, <1>6, <1>7, <1>8, FreeTurn

LEMMA AllFilledCalm == ASSUME IInv, Kept, OneTick, NEW t \in Ticks, AllFilled(t) PROVE Kept'
<1>1. tick[t].pc = "closed" /\ tick[t].pc \in Working /\ UNCHANGED <<pos, orders, entry, lv, reduce>>
  BY DEF AllFilled, Working, exchange
<1>2. Deleted(tick[t].c) /\ Continue(t, tick[t])
  BY DEF AllFilled
<1>3. Turns(t, Plain) /\ TradesFit'
  BY <1>1, <1>2, InVisit, ContinueTurns, DeletedFit DEF Turns, Plain
<1> QED
  BY <1>1, <1>3, PlainTurn

-----------------------------------------------------------------------------
(* No step takes a fault or an action of the owner back.                   *)
Counts == UNCHANGED used \/ \E kind \in {"entries", "levels", "cancels", "faults"} : Spend(kind)

LEMMA EveryStepCounts == ASSUME [Next]_vars PROVE Counts
<1>1. ASSUME NEW b, Faulty(b) PROVE Counts
  BY <1>1 DEF Faulty, Counts
<1>2. ASSUME NEW o, NEW ack, Placed(o, ack) PROVE Counts
  BY <1>1, <1>2 DEF Placed
<1>3. ASSUME NEW ids, NEW failed, Cancelled(ids, failed) PROVE Counts
  BY <1>1, <1>3 DEF Cancelled
<1>4. ASSUME NEW size, PositionRead(size) PROVE Counts
  BY <1>1, <1>4 DEF PositionRead
<1>5. CASE UNCHANGED vars
  BY <1>5 DEF vars, Counts
<1>6. ASSUME NEW c \in Entries, EntryFills(c) \/ PlaceStop(c) \/ PlaceTarget(c) PROVE Counts
  <2>1. CASE EntryFills(c)
    BY <2>1 DEF EntryFills, Counts
  <2>2. CASE PlaceStop(c)
    BY <1>2, <2>2 DEF PlaceStop
  <2>3. CASE PlaceTarget(c)
    BY <1>2, <2>3 DEF PlaceTarget
  <2> QED
    BY <1>6, <2>1, <2>2, <2>3
<1>7. ASSUME NEW t \in Ticks, Tick(t) PROVE Counts
  <2>1. CASE TickStart(t) \/ TickVisit(t) \/ AllFilled(t)
    BY <2>1 DEF TickStart, TickVisit, AllFilled, Counts
  <2>2. CASE TickRecover(t) \/ TickRead(t) \/ TimeStopClose(t)
    BY <1>1, <2>2 DEF TickRecover, TickRead, TimeStopClose
  <2>3. CASE TimeStopRead(t) \/ StopGone(t) \/ MoveRead(t)
    BY <1>4, <2>3 DEF TimeStopRead, StopGone, MoveRead
  <2>4. CASE TimeStopCancel(t) \/ MoveCancel(t)
    BY <1>3, <2>4 DEF TimeStopCancel, MoveCancel
  <2>5. CASE MovePlace(t)
    BY <1>2, <2>5 DEF MovePlace
  <2> QED
    BY <1>7, <2>1, <2>2, <2>3, <2>4, <2>5 DEF Tick
<1>8. CASE LevelsStart \/ OwnerCancels \/ ReduceCancel
  BY <1>8 DEF LevelsStart, OwnerCancels, ReduceCancel, OwnerActs, Counts
<1>9. CASE LevelsStop \/ LevelsTarget \/ LevelsSingle \/ ReducePlace
  BY <1>2, <1>9 DEF LevelsStop, LevelsTarget, LevelsSingle, ReducePlace
<1>10. CASE LevelsEnd
  BY <1>3, <1>10 DEF LevelsEnd
<1>11. CASE HaltExpires \/ Swept \/ \E o \in orders : Executes(o)
  BY <1>11 DEF HaltExpires, Swept, Executes, Counts
<1>12. CASE Restart
  BY <1>1, <1>12 DEF Restart
<1> QED
  BY <1>5, <1>6, <1>7, <1>8, <1>9, <1>10, <1>11, <1>12 DEF Next

LEMMA CalmGoesBack == ASSUME IInv, [Next]_vars, Calm' PROVE Calm
<1>1. used \in UsedType
  BY DEF IInv, Shapes, UsedType
<1>2. Counts
  BY EveryStepCounts
<1> QED
  BY <1>1, <1>2 DEF Counts, Spend, Calm, UsedType

LEMMA KeptNext == ASSUME KInv, OneTick, [Next]_vars PROVE KInv'
<1>1. IInv'
  BY ProtectiveNext DEF KInv
<1> SUFFICES ASSUME Calm' PROVE Kept'
  BY <1>1 DEF KInv
<1>2. IInv /\ Kept /\ Calm
  BY CalmGoesBack DEF KInv
<1>3. CASE UNCHANGED vars
  <2>1. UNCHANGED <<pos, orders, lv, monitor, entry, reduce>>
    BY <1>3 DEF vars, exchange
  <2>2. LevelsFit(lv')
    BY <1>2, <2>1 DEF Kept
  <2> QED
    BY <1>2, <2>1, <2>2, OutsideSame, LevelsKeep
<1>4. CASE \E c \in Entries : EntryFills(c) \/ PlaceStop(c) \/ PlaceTarget(c)
  BY <1>2, <1>4, EntryFillsCalm, PlaceStopCalm, PlaceTargetCalm
<1>5. ASSUME NEW t \in Ticks, Tick(t) PROVE Kept'
  BY <1>2, <1>5, TickStartCalm, TickRecoverCalm, TickReadCalm, TickVisitCalm, TimeStopReadCalm, TimeStopCloseCalm,
     TimeStopCancelCalm, StopGoneCalm, MoveCancelCalm, MoveReadCalm, MovePlaceCalm, AllFilledCalm DEF Tick
<1>6. CASE LevelsStart \/ LevelsStop \/ LevelsTarget \/ LevelsSingle \/ LevelsEnd
  BY <1>2, <1>6, LevelsStartCalm, LevelsStopCalm, LevelsTargetCalm, LevelsSingleCalm, LevelsEndCalm
<1>7. CASE HaltExpires
  <2>1. UNCHANGED <<pos, orders, lv, monitor, entry, reduce>>
    BY <1>7 DEF HaltExpires, exchange
  <2>2. LevelsFit(lv')
    BY <1>2, <2>1 DEF Kept
  <2> QED
    BY <1>2, <2>1, <2>2, OutsideSame, LevelsKeep
<1>8. CASE OwnerCancels \/ ReduceCancel \/ ReducePlace \/ Restart
  BY <1>2, <1>8, OwnerCalm
<1>9. CASE \E o \in orders : Executes(o)
  BY <1>2, <1>9, ExecutesCalm
<1>10. CASE Swept
  BY <1>2, <1>10, SweptCalm
<1> QED
  BY <1>3, <1>4, <1>5, <1>6, <1>7, <1>8, <1>9, <1>10 DEF Next

(* While ticks of the monitor do not overlap, a position whose entries     *)
(* have been provided for keeps a stop, for any number of entries, targets *)
(* and levels requests, as long as no call fails and the owner cancels     *)
(* nothing (placeTpSlTriggerOrders, the move to break even, the time stop  *)
(* and the levels route).                                                  *)
THEOREM StopStays == ASSUME OneTick PROVE Spec => []StopIsKept
<1>1. Init => KInv
  BY ProtectiveInit, KeptInit DEF KInv
<1>2. KInv /\ [Next]_vars => KInv'
  BY KeptNext
<1>3. KInv => StopIsKept
  BY DEF KInv, Calm, Kept, Guarded, Providing, OwnStop, StopIsKept
<1> QED
  BY <1>1, <1>2, <1>3, PTL DEF Spec
=============================================================================
