-------------------------- MODULE ProtectiveOrders --------------------------
(***************************************************************************)
(* Stop-loss and take-profit orders of one symbol: placed after an entry   *)
(* (placeTpSlTriggerOrders), watched by the TP fill monitor, replaced by   *)
(* the levels route, cancelled and reduced by the owner.                   *)
(*                                                                         *)
(* Every await of an exchange call is a place where the others, and the    *)
(* market, go on.  A call can be rejected, or can be carried out although  *)
(* its answer is lost; both are faults and bounded.  The position is long, *)
(* in lots; a short one is its mirror image.                               *)
(***************************************************************************)
EXTENDS TakeProfitSplit, Sequences

CONSTANTS
  MaxEntries,   (* bound: entry orders that fill                            *)
  Timed,        (* those with a timeframe while the rules have a time stop  *)
  Ticks,        (* runs of runTpFillMonitorTick that can overlap            *)
  TpCount,      (* take-profit levels of the rules, and of a levels request *)
  Lots,         (* size of an entry                                         *)
  LevelSets,    (* levels the owner may ask for: [sl, tp] prices            *)
  Budgets       (* bounds: how many entries, levels requests, cancellations *)
                (* or reductions by the owner, and faults (failed calls,    *)
                (* lost answers, crashes) a behaviour has                   *)

ASSUME ProtectiveAssumption ==
  /\ MaxEntries \in Nat
  /\ Timed \subseteq 1..MaxEntries
  /\ TpCount \in Levels
  /\ Lots \in Nat \ {0}
  /\ LevelSets \subseteq [sl: Nat, tp: Nat]
  /\ Budgets \subseteq [entries: Nat, levels: Nat, cancels: Nat, faults: Nat]

(* Prices, in order; the k-th target of the rules is EntryPrice + k.       *)
Entries    == 1..MaxEntries     (* their correlation ids, in order          *)
StopPrice  == 1
EntryPrice == 2
NoOne      == 0
(* An order id: the client order id's prefix, what it belongs to, a number.*)
NoId       == <<"none", NoOne, 0>>

VARIABLES
  pos,       (* exchange: lots of the open position                         *)
  orders,    (* exchange: open reduce-only orders of the symbol             *)
  hit,       (* entries one of whose orders has executed                    *)
  trades,    (* activeTrades: correlation id -> state, if live              *)
  reg,       (* keys of activeTrades in the order of insertion              *)
  entry,     (* entry -> its run of placeTpSlTriggerOrders                  *)
  tick,      (* the runs of the monitor                                     *)
  busy,      (* tpFillMonitorBusy                                           *)
  lv,        (* POST /api/live/position/levels                              *)
  halted,    (* symbolHaltBackoff of the symbol                             *)
  reduce,    (* PUT /api/live/order/:id/reduce: the order it has cancelled  *)
  moved,     (* entry -> break-even stops placed for it                     *)
  used,      (* entries, levels requests, cancellations and faults so far   *)
  budget     (* the bounds of this behaviour                                *)

exchange == <<pos, orders, hit>>
monitor  == <<trades, reg, tick, busy, moved>>
vars     == <<exchange, monitor, entry, lv, halted, reduce, used, budget>>

NoTrade == [live |-> FALSE, sl |-> NoId, tps |-> {}, fired |-> FALSE]
NoEntry == [pc |-> "idle", k |-> 0, sl |-> NoId, tps |-> {}]
Provided == [NoEntry EXCEPT !.pc = "done"]
NoTick  == [pc |-> "idle", seen |-> {}, visited |-> {}, c |-> NoOne,
            still |-> {}, just |-> {}, size |-> 0]
NoLevels == [pc |-> "idle", q |-> [sl |-> 0, tp |-> 0], size |-> 0, tries |-> 0, k |-> 0,
             slOk |-> FALSE, tpOk |-> {}, new |-> {}, old |-> {}]

Init ==
  /\ pos = 0 /\ orders = {} /\ hit = {}
  /\ trades = [c \in Entries |-> NoTrade] /\ reg = <<>>
  /\ entry = [c \in Entries |-> NoEntry]
  /\ tick = [t \in Ticks |-> NoTick] /\ busy = FALSE
  /\ lv = NoLevels /\ halted = FALSE /\ reduce = {}
  /\ moved = [c \in Entries |-> 0]
  /\ used = [entries |-> 0, levels |-> 0, cancels |-> 0, faults |-> 0]
  /\ budget \in Budgets

Ids(os) == {o.id : o \in os}
Lesser(a, b) == IF a < b THEN a ELSE b

Spend(kind) ==
  /\ used[kind] < budget[kind]
  /\ used' = [used EXCEPT ![kind] = @ + 1]
  /\ UNCHANGED budget

StopPrefixes == {"sl-auto", "be-sl", "sl"}

-----------------------------------------------------------------------------
(* The adapter.                                                            *)

(* A client order id is a prefix and what it belongs to.  toCloid makes    *)
(* "0x" and the MD5 hash of it, and that is the cloid of the open order.   *)
ToCloid(name) == <<"0x", NoOne>>

(* getSystemManagedProtectiveOrderMeta, and isManagedByCoinmaster of the   *)
(* levels route: both look for the server's own names in the cloid.        *)
SystemManaged(o, kind, c) == o.cloid = <<kind, c>>
ManagedByCoinmaster(o)    == o.cloid \in {"tp", "sl", "be-sl"} \X (Entries \cup {NoOne})

Order(kind, id, price, size) ==
  [id |-> id, kind |-> kind, price |-> price, size |-> size,
   cloid |-> ToCloid(<<id[1], id[2]>>)]

Faulty(b) == IF b THEN Spend("faults") ELSE UNCHANGED <<used, budget>>

(* placeTriggerOrder and placeLimitOrder: "lost" is an order that rests    *)
(* although the ack says ok: false and has no id.  The exchange refuses a  *)
(* reduce-only order when there is nothing to reduce; that is no fault.    *)
Acks == {"ok", "rejected", "lost"}
AckId(o, ack) == IF ack = "ok" THEN o.id ELSE NoId
Placed(o, ack) ==
  /\ pos = 0 => ack = "rejected"
  /\ Faulty(ack # "ok" /\ pos > 0)
  /\ orders' = IF ack = "rejected" THEN orders ELSE orders \cup {o}
  /\ UNCHANGED <<pos, hit>>

(* cancelOrder: reads the open orders, cancels the one with the id if it   *)
(* is there.                                                               *)
Cancelled(ids, failed) ==
  /\ Faulty(failed)
  /\ orders' = IF failed THEN orders ELSE {o \in orders : o.id \notin ids}
  /\ UNCHANGED <<pos, hit>>

(* getOpenPositions; every caller takes a failed read for no position.     *)
PositionRead(size) ==
  \/ size = pos /\ Faulty(FALSE)
  \/ pos > 0 /\ size = 0 /\ Faulty(TRUE)

-----------------------------------------------------------------------------
(* placeTpSlTriggerOrders                                                  *)

TpSize(k)   == Split(Lots, TpCount)[k]
(* The next target after k; a target that got no lot is skipped.           *)
TargetAfter(k) ==
  LET later == {i \in (k + 1)..TpCount : TpSize(i) > 0}
  IN  IF later = {} THEN 0 ELSE CHOOSE i \in later : \A j \in later : i <= j

EntryFills(c) ==
  /\ c = used.entries + 1
  /\ Spend("entries")
  /\ entry' = [entry EXCEPT ![c].pc = "stop"]
  /\ pos' = pos + Lots
  /\ UNCHANGED <<orders, hit, monitor, lv, halted, reduce>>

PlaceStop(c) ==
  /\ entry[c].pc = "stop"
  /\ \E ack \in Acks :
       LET o == Order("sl", <<"sl-auto", c, 0>>, StopPrice, 0)
       IN /\ Placed(o, ack)
          /\ entry' = [entry EXCEPT ![c] = [@ EXCEPT !.pc = "target", !.k = TargetAfter(0),
                                                      !.sl = AckId(o, ack)]]
  /\ UNCHANGED <<monitor, lv, halted, reduce>>

(* The last target also registers the trade, in the same step.             *)
PlaceTarget(c) ==
  LET e == entry[c] IN
  /\ e.pc = "target"
  /\ \E ack \in Acks :
       LET o    == Order("tp", <<"tptr", c, e.k>>, EntryPrice + e.k, TpSize(e.k))
           tps  == e.tps \cup ({AckId(o, ack)} \ {NoId})
           last == TargetAfter(e.k) = 0
           registers == last /\ tps # {} /\ (TpCount > 1 \/ c \in Timed)
       IN /\ Placed(o, ack)
          /\ entry' = [entry EXCEPT ![c] = IF last THEN Provided
                                           ELSE [@ EXCEPT !.k = TargetAfter(e.k), !.tps = tps]]
          /\ trades' = IF registers
                       THEN [trades EXCEPT ![c] = [live |-> TRUE, sl |-> e.sl, tps |-> tps,
                                                   fired |-> FALSE]]
                       ELSE trades
          /\ reg' = IF registers THEN Append(reg, c) ELSE reg
  /\ UNCHANGED <<tick, busy, moved, lv, halted, reduce>>

-----------------------------------------------------------------------------
(* runTpFillMonitorTick: a timer starts one every 30 s; those that wait in *)
(* the recovery have not set the busy flag yet.                            *)

Tracked == {c \in Entries : trades[c].live}

TickStart(t) ==
  /\ tick[t].pc = "idle" /\ ~busy
  /\ IF Tracked = {}
     THEN tick' = [tick EXCEPT ![t].pc = "recover"] /\ UNCHANGED busy
     ELSE tick' = [tick EXCEPT ![t].pc = "orders"] /\ busy' = TRUE
  /\ UNCHANGED <<exchange, trades, reg, moved, entry, lv, halted, reduce, used, budget>>

(* recoverActiveTradesFromExchange                                         *)
Recovered(c) ==
  LET of(kind) == {o \in orders : SystemManaged(o, kind, c)}
  IN  IF pos > 0 /\ of("tptr") # {}
      THEN [live |-> TRUE, tps |-> Ids(of("tptr")), fired |-> FALSE,
            sl |-> IF of("sl-auto") = {} THEN NoId ELSE CHOOSE i \in Ids(of("sl-auto")) : TRUE]
      ELSE trades[c]

TickRecover(t) ==
  /\ tick[t].pc = "recover"
  /\ \E failed \in BOOLEAN :
       /\ Faulty(failed)
       /\ trades' = IF failed \/ Tracked # {} THEN trades ELSE [c \in Entries |-> Recovered(c)]
  /\ IF \E c \in Entries : trades'[c].live
     THEN tick' = [tick EXCEPT ![t].pc = "orders"] /\ busy' = TRUE
     ELSE tick' = [tick EXCEPT ![t].pc = "idle"] /\ UNCHANGED busy
  /\ UNCHANGED <<exchange, reg, moved, entry, lv, halted, reduce>>

(* The open orders as the exchange read them; the loop starts later.       *)
(* Mutant: an error leaves tpFillMonitorBusy set.                          *)
TickReadStaysBusy(t) ==
  /\ tick[t].pc = "orders"
  /\ \/ /\ Faulty(FALSE)
        /\ tick' = [tick EXCEPT ![t] = [NoTick EXCEPT !.pc = "loop", !.seen = Ids(orders)]]
     \/ /\ Faulty(TRUE)
        /\ tick' = [tick EXCEPT ![t] = NoTick]
  /\ UNCHANGED <<exchange, trades, reg, busy, moved, entry, lv, halted, reduce>>

TickRead(t) ==
  /\ tick[t].pc = "orders"
  /\ \/ /\ Faulty(FALSE)
        /\ tick' = [tick EXCEPT ![t] = [NoTick EXCEPT !.pc = "loop", !.seen = Ids(orders)]]
        /\ UNCHANGED busy
     \/ /\ Faulty(TRUE)
        /\ tick' = [tick EXCEPT ![t] = NoTick]
        /\ busy' = FALSE
  /\ UNCHANGED <<exchange, trades, reg, moved, entry, lv, halted, reduce>>

(* What is left of the iteration over the map: keys inserted meanwhile are *)
(* visited too, deleted ones are not.                                      *)
Left(t) == {i \in 1..Len(reg) : trades[reg[i]].live /\ reg[i] \notin tick[t].visited}

At(t, pc, tk)  == tick' = [tick EXCEPT ![t] = [tk EXCEPT !.pc = pc]]
Continue(t, tk) ==
  tick' = [tick EXCEPT ![t] = [NoTick EXCEPT !.pc = "loop", !.seen = tk.seen,
                                             !.visited = tk.visited \cup {tk.c}]]

(* The end of a visit: all targets gone means the trade is over.           *)
EndOfVisit(t, tk) == IF tk.still = {} THEN At(t, "closed", tk) ELSE Continue(t, tk)

(* The fills of a visit, once the stop has been looked at; tr is the trade *)
(* as the visit has left it so far.                                        *)
(* Mutant: firstTpFired is not set.                                        *)
ApplyFillsFlagLate(t, tk, tr) ==
  IF tk.just = {}
  THEN trades' = [trades EXCEPT ![tk.c] = tr] /\ Continue(t, tk)
  ELSE /\ trades' = [trades EXCEPT ![tk.c] = [tr EXCEPT !.tps = tk.still]]
       /\ At(t, IF tr.sl # NoId THEN "cancel" ELSE "size", tk)

ApplyFills(t, tk, tr) ==
  IF tk.just = {}
  THEN trades' = [trades EXCEPT ![tk.c] = tr] /\ Continue(t, tk)
  ELSE /\ trades' = [trades EXCEPT ![tk.c] = [tr EXCEPT !.tps = tk.still, !.fired = TRUE]]
       /\ IF tr.fired THEN EndOfVisit(t, tk)
          ELSE At(t, IF tr.sl # NoId THEN "cancel" ELSE "size", tk)

(* What follows a time stop that was not due or did not close.             *)
LookAtStop(t, tk) ==
  LET tr == trades[tk.c]
  IN  IF ~tr.fired /\ tr.sl # NoId /\ tr.sl \notin tk.seen
      THEN At(t, "stopgone", tk) /\ UNCHANGED trades
      ELSE ApplyFills(t, tk, tr)

TickVisit(t) ==
  /\ tick[t].pc = "loop"
  /\ \/ /\ Left(t) = {}
        /\ tick' = [tick EXCEPT ![t] = NoTick]
        /\ busy' = FALSE
        /\ UNCHANGED trades
     \/ /\ \E i \in Left(t) :
             LET c  == reg[i]
                 tr == trades[c]
                 tk == [tick[t] EXCEPT !.c = c, !.still = tr.tps \cap tick[t].seen,
                                       !.just = tr.tps \ tick[t].seen]
             IN  /\ \A j \in Left(t) : i <= j
                 /\ \/ c \in Timed /\ ~tr.fired /\ At(t, "timepos", tk) /\ UNCHANGED trades
                    \/ LookAtStop(t, tk)
        /\ UNCHANGED busy
  /\ UNCHANGED <<exchange, reg, moved, entry, lv, halted, reduce, used, budget>>

Deleted(c) == trades' = [trades EXCEPT ![c] = [@ EXCEPT !.live = FALSE]]

(* maybeApplyActiveTradeTimeStop                                           *)
TimeStopRead(t) ==
  LET tk == tick[t] IN
  /\ tk.pc = "timepos"
  /\ \E size \in {0, pos} :
       /\ PositionRead(size)
       /\ IF size = 0 THEN Deleted(tk.c) /\ Continue(t, tk)
                      ELSE At(t, "timeclose", [tk EXCEPT !.size = size]) /\ UNCHANGED trades
  /\ UNCHANGED <<exchange, reg, busy, moved, entry, lv, halted, reduce>>

(* An IOC order for the size that was read: it may fill in part and still  *)
(* be acknowledged, or fill without an acknowledgement.                    *)
TimeStopClose(t) ==
  LET tk == tick[t] IN
  /\ tk.pc = "timeclose"
  /\ \E filled \in 0..Lesser(tk.size, pos), ok \in BOOLEAN :
       /\ Faulty(filled < Lesser(tk.size, pos) \/ ~ok)
       /\ ok => filled > 0 \/ pos = 0
       /\ pos' = pos - filled
       /\ IF ok THEN At(t, "timecancel", tk) /\ UNCHANGED trades
                ELSE LookAtStop(t, tk)
  /\ UNCHANGED <<orders, hit, reg, busy, moved, entry, lv, halted, reduce>>

(* The stop and the targets are cancelled one after the other, whatever    *)
(* each call returns.                                                      *)
TimeStopCancel(t) ==
  LET tk  == tick[t]
      ids == ({trades[tk.c].sl} \ {NoId}) \cup trades[tk.c].tps
  IN
  /\ tk.pc = "timecancel"
  /\ \E failed \in BOOLEAN : Cancelled(ids, failed)
  /\ Deleted(tk.c)
  /\ Continue(t, tk)
  /\ UNCHANGED <<reg, busy, moved, entry, lv, halted, reduce>>

(* The stop is gone and no target has fired: the position decides between  *)
(* an executed stop and an order that changed its id.                      *)
StopGone(t) ==
  LET tk == tick[t]
      tr == trades[tk.c]
  IN
  /\ tk.pc = "stopgone"
  /\ \E size \in {0, pos} :
       /\ PositionRead(size)
       /\ IF size = 0
          THEN Deleted(tk.c) /\ Continue(t, tk)
          ELSE \E sl \in {NoId} \cup {i \in tk.seen : i[1] \in StopPrefixes} :
                 ApplyFills(t, tk, [tr EXCEPT !.sl = sl])
  /\ UNCHANGED <<exchange, reg, busy, moved, entry, lv, halted, reduce>>

(* The first target has filled: cancel the stop, read what is left of the  *)
(* position, place a stop at the entry price.                              *)
MoveCancel(t) ==
  LET tk == tick[t] IN
  /\ tk.pc = "cancel"
  /\ \E failed \in BOOLEAN : Cancelled({trades[tk.c].sl}, failed)
  /\ At(t, "size", tk)
  /\ UNCHANGED <<trades, reg, busy, moved, entry, lv, halted, reduce>>

(* Mutant: no stop is placed when all targets are gone.                    *)
MoveReadTargetsOnly(t) ==
  LET tk == tick[t] IN
  /\ tk.pc = "size"
  /\ \E size \in {0, pos} :
       /\ PositionRead(size)
       /\ IF size > 0 /\ tk.still # {} THEN At(t, "place", tk) ELSE EndOfVisit(t, tk)
  /\ UNCHANGED <<exchange, trades, reg, busy, moved, entry, lv, halted, reduce>>

MoveRead(t) ==
  LET tk == tick[t] IN
  /\ tk.pc = "size"
  /\ \E size \in {0, pos} :
       /\ PositionRead(size)
       /\ IF size > 0 THEN At(t, "place", tk) ELSE EndOfVisit(t, tk)
  /\ UNCHANGED <<exchange, trades, reg, busy, moved, entry, lv, halted, reduce>>

MovePlace(t) ==
  LET tk == tick[t] IN
  /\ tk.pc = "place"
  /\ \E ack \in Acks :
       LET o == Order("sl", <<"be-sl", tk.c, 0>>, EntryPrice, 0)
       IN /\ Placed(o, ack)
          /\ trades' = [trades EXCEPT ![tk.c] = [@ EXCEPT !.sl = AckId(o, ack)]]
  /\ moved' = [moved EXCEPT ![tk.c] = @ + 1]
  /\ EndOfVisit(t, tk)
  /\ UNCHANGED <<reg, busy, entry, lv, halted, reduce>>

(* The owner is told that the position is closed.                          *)
AllFilled(t) ==
  LET tk == tick[t] IN
  /\ tk.pc = "closed"
  /\ Deleted(tk.c)
  /\ Continue(t, tk)
  /\ UNCHANGED <<exchange, reg, busy, moved, entry, lv, halted, reduce, used, budget>>

Tick(t) ==
  \/ TickStart(t) \/ TickRecover(t) \/ TickRead(t) \/ TickVisit(t)
  \/ TimeStopRead(t) \/ TimeStopClose(t) \/ TimeStopCancel(t)
  \/ StopGone(t) \/ MoveCancel(t) \/ MoveRead(t) \/ MovePlace(t) \/ AllFilled(t)

-----------------------------------------------------------------------------
(* POST /api/live/position/levels                                          *)

(* Targets on the far side of the stop and of the entry price, the stop on *)
(* the losing side of the market; the last two only as far as the position *)
(* and the mid price could be read.                                        *)
ValidLevels(q, entryKnown, mid) ==
  /\ q.tp > q.sl
  /\ entryKnown => q.tp > EntryPrice
  /\ mid # 0 => q.sl < mid

LevelsId(prefix, k) == <<prefix, NoOne, 4 * used.levels + k>>

TargetPrices(q) == {q.tp + k : k \in 0..(TpCount - 1)}
AlreadySet(q) ==
  /\ {o.price : o \in {x \in orders : x.kind = "sl"}} = {q.sl}
  /\ {o.price : o \in {x \in orders : x.kind = "tp"}} = TargetPrices(q)

(* Validation, the no-op guard, the halt back-off, and the read of the     *)
(* orders that are to be replaced.                                         *)
LevelsStart ==
  /\ lv.pc = "idle" /\ pos > 0
  /\ Spend("levels")
  /\ \E q \in LevelSets, entryKnown \in BOOLEAN, mid \in {0, EntryPrice} :
       /\ ValidLevels(q, entryKnown, mid) /\ ~AlreadySet(q) /\ ~halted
       /\ lv' = [NoLevels EXCEPT !.pc = "stop", !.q = q, !.size = pos,
                   !.old = Ids({o \in orders : ManagedByCoinmaster(o)})]
  /\ UNCHANGED <<exchange, monitor, entry, halted, reduce>>

LevelTargetAfter(k) ==
  LET later == {i \in (k + 1)..TpCount : Split(lv.size, TpCount)[i] > 0}
  IN  IF later = {} THEN 0 ELSE CHOOSE i \in later : \A j \in later : i <= j

(* placeTriggerWithRetry for the stop: up to three attempts; an error that *)
(* is not worth a retry ends it, and a halt ends the request.              *)
LevelsStop ==
  /\ lv.pc = "stop"
  /\ \E ack \in Acks, halts, retriable \in BOOLEAN :
       LET o == Order("sl", LevelsId("sl", lv.tries), lv.q.sl, 0) IN
       /\ Placed(o, ack)
       /\ halts => ack = "rejected" /\ pos > 0
       /\ halted' = (halted \/ halts)
       /\ lv' = CASE halts -> NoLevels
                  [] ack # "ok" /\ ~halts /\ retriable /\ lv.tries < 2 ->
                       [lv EXCEPT !.tries = @ + 1]
                  [] OTHER ->
                       [lv EXCEPT !.pc = "target", !.k = LevelTargetAfter(0),
                                  !.slOk = (ack = "ok"), !.new = {AckId(o, ack)} \ {NoId}]
  /\ UNCHANGED <<monitor, entry, reduce>>

(* The targets, one attempt each; if all were refused for their size, one  *)
(* target of the whole size with up to three attempts; then the outcome.   *)
LevelsOutcome(l) ==
  [l EXCEPT !.pc = IF l.slOk /\ l.tpOk = {TRUE} THEN "cleanup" ELSE "rollback"]

LevelsTarget ==
  /\ lv.pc = "target"
  /\ \E ack \in Acks, bySize \in BOOLEAN :
       LET o == Order("tp", LevelsId("tptr", lv.k), lv.q.tp + lv.k - 1,
                      Split(lv.size, TpCount)[lv.k])
           l == [lv EXCEPT !.k = LevelTargetAfter(lv.k), !.tpOk = @ \cup {ack = "ok"},
                           !.new = @ \cup ({AckId(o, ack)} \ {NoId})]
       IN /\ Placed(o, ack)
          /\ lv' = IF l.k # 0 THEN l
                   ELSE IF bySize /\ l.tpOk = {FALSE} /\ TpCount > 1
                   THEN [l EXCEPT !.pc = "single", !.tries = 0]
                   ELSE LevelsOutcome(l)
  /\ UNCHANGED <<monitor, entry, halted, reduce>>

LevelsSingle ==
  /\ lv.pc = "single"
  /\ \E ack \in Acks, retriable \in BOOLEAN :
       LET o == Order("tp", LevelsId("tptr-single", lv.tries), lv.q.tp, lv.size) IN
       /\ Placed(o, ack)
       /\ lv' = IF ack # "ok" /\ retriable /\ lv.tries < 2
                THEN [lv EXCEPT !.tries = @ + 1]
                ELSE LevelsOutcome([lv EXCEPT !.tpOk = {ack = "ok"},
                                              !.new = @ \cup ({AckId(o, ack)} \ {NoId})])
  /\ UNCHANGED <<monitor, entry, halted, reduce>>

(* The verification only words the answer.  Cleanup cancels the old orders *)
(* that are known as managed, rollback the new ones; neither stops at a    *)
(* cancellation that fails.  A target refused for a halt halts the symbol  *)
(* too.                                                                    *)
LevelsEnd ==
  /\ lv.pc \in {"cleanup", "rollback"}
  /\ \E failed \in BOOLEAN :
       Cancelled(IF lv.pc = "cleanup" THEN lv.old \ lv.new ELSE lv.new, failed)
  /\ \E halts \in BOOLEAN :
       /\ halts => FALSE \in lv.tpOk
       /\ halted' = (lv.pc = "rollback" /\ (halted \/ halts))
  /\ lv' = NoLevels
  /\ UNCHANGED <<monitor, entry, reduce>>

HaltExpires == halted /\ halted' = FALSE /\ UNCHANGED <<exchange, monitor, entry, lv, reduce, used, budget>>

-----------------------------------------------------------------------------
(* The owner's other routes.                                               *)

OwnerActs ==
  /\ Spend("cancels")
  /\ UNCHANGED <<pos, hit, monitor, entry, lv, halted>>

(* POST order/cancel, DELETE order/:id, POST order/cancel-all              *)
OwnerCancels ==
  /\ OwnerActs
  /\ \E os \in {{o} : o \in orders} \cup ({orders} \ {{}}) : orders' = orders \ os
  /\ UNCHANGED reduce

(* PUT order/:id/reduce: cancels, then places the smaller order.  A stop   *)
(* has no size of its own and is refused.                                  *)
ReduceCancel ==
  /\ OwnerActs
  /\ reduce = {}
  /\ \E o \in orders : o.size > 1 /\ orders' = orders \ {o} /\ reduce' = {o}

ReducePlace ==
  /\ \E o \in reduce, ack \in Acks :
       Placed(Order("limit", <<"reduce", o.id[2], o.id[3]>>, o.price, o.size - 1), ack)
  /\ reduce' = {}
  /\ UNCHANGED <<monitor, entry, lv, halted>>

-----------------------------------------------------------------------------
(* The exchange: a target or a limit order fills, a stop closes all of the *)
(* position, reduce-only orders go when there is nothing to reduce.        *)
Executes(o) ==
  /\ pos > 0
  /\ pos' = IF o.kind = "sl" THEN 0 ELSE pos - Lesser(o.size, pos)
  /\ orders' = orders \ {o}
  /\ hit' = hit \cup {o.id[2]}
  /\ UNCHANGED <<monitor, entry, lv, halted, reduce, used, budget>>

Swept ==
  /\ pos = 0 /\ orders # {} /\ orders' = {}
  /\ UNCHANGED <<pos, hit, monitor, entry, lv, halted, reduce, used, budget>>

(* The server dies and starts again: all it knows of trades is in memory.  *)
Restart ==
  /\ Faulty(TRUE)
  /\ trades' = [c \in Entries |-> NoTrade] /\ reg' = <<>>
  /\ tick' = [t \in Ticks |-> NoTick] /\ busy' = FALSE
  /\ entry' = [c \in Entries |-> IF entry[c].pc = "idle" THEN NoEntry ELSE Provided]
  /\ lv' = NoLevels /\ halted' = FALSE /\ reduce' = {}
  /\ UNCHANGED <<exchange, moved>>

Next ==
  \/ \E c \in Entries : EntryFills(c) \/ PlaceStop(c) \/ PlaceTarget(c)
  \/ \E t \in Ticks : Tick(t)
  \/ LevelsStart \/ LevelsStop \/ LevelsTarget \/ LevelsSingle \/ LevelsEnd \/ HaltExpires
  \/ OwnerCancels \/ ReduceCancel \/ ReducePlace
  \/ \E o \in orders : Executes(o)
  \/ Swept \/ Restart

(* The monitor's timer goes on and its calls answer; nothing is assumed of *)
(* the market, the owner and the entries.                                  *)
Fairness == \A t \in Ticks : WF_vars(Tick(t))
Spec     == Init /\ [][Next]_vars /\ Fairness

-----------------------------------------------------------------------------
OrderId == {"sl-auto", "tptr", "be-sl", "sl", "tptr-single", "reduce"}
           \X (Entries \cup {NoOne}) \X Nat
TypeOK ==
  /\ pos \in Nat /\ busy \in BOOLEAN /\ halted \in BOOLEAN
  /\ hit \subseteq Entries \cup {NoOne}
  /\ \A o \in orders \cup reduce :
       o.id \in OrderId /\ o.kind \in {"sl", "tp", "limit"} /\ o.size \in Nat
  /\ \A c \in Entries :
       /\ trades[c].live \in BOOLEAN /\ trades[c].fired \in BOOLEAN
       /\ trades[c].sl \in OrderId \cup {NoId} /\ trades[c].tps \subseteq OrderId
       /\ entry[c].pc \in {"idle", "stop", "target", "done"}
       /\ entry[c].pc = "target" => entry[c].k \in 1..TpCount
       /\ moved[c] \in Nat
  /\ \A t \in Ticks :
       tick[t].pc \in {"idle", "recover", "orders", "loop", "timepos", "timeclose", "timecancel",
                       "stopgone", "cancel", "size", "place", "closed"}
  /\ lv.pc \in {"idle", "stop", "target", "single", "cleanup", "rollback"}

(* A position whose entries have been provided for keeps a stop, as long   *)
(* as no call fails, the owner cancels nothing and ticks do not overlap:   *)
(* neither the move to break even (outside the two awaits between          *)
(* cancelling and placing), nor a levels request, nor the time stop leaves *)
(* it without one.  Ticks that overlap can: one of them gives a trade      *)
(* another entry's stop, which the time stop of the other one cancels.     *)
StopIsKept ==
  /\ pos > 0 /\ used.faults = 0 /\ used.cancels = 0
  /\ \A c \in Entries : entry[c].pc \in {"idle", "done"}
  /\ \A t \in Ticks : tick[t].pc \notin {"size", "place"}
  => \E o \in orders : o.kind = "sl"

(* However ticks overlap and orders come and go, a trade's stop is moved   *)
(* to break even once at most: firstTpFired is set before the first await. *)
MovedOnce == \A c \in Entries : moved[c] <= 1

(* A target of a tracked trade that is no longer open is noticed: the stop *)
(* is moved or the trade is over, also when a tick fails on the way.       *)
FillIsNoticed ==
  \A c \in Entries :
    (trades[c].live /\ ~(trades[c].tps \subseteq Ids(orders)))
      ~> (trades[c].fired \/ ~trades[c].live)

(* The stop is moved "after first TP" (9851): while no order at all has    *)
(* executed, none was cancelled by the owner and no call has failed, no    *)
(* trade counts as fired.                                                  *)
FiredHasExecuted ==
  used.faults = 0 /\ used.cancels = 0 /\ hit = {} =>
    \A c \in Entries : ~trades[c].fired

(* The stop that a trade names, and that the move to break even and the    *)
(* time stop cancel, is its own.                                           *)
NamesOwnStop ==
  \A c \in Entries : trades[c].live /\ trades[c].sl # NoId => trades[c].sl[2] = c

(* "Cleanup old TP/SL orders only after new levels are safely in place."   *)
(* (9164): when a levels request without a fault has ended, its stop is    *)
(* the only one.                                                           *)
OldLevelsGo ==
  [][lv.pc = "cleanup" /\ lv'.pc = "idle" /\ used'.faults = 0
       => \A o \in orders' : o.kind = "sl" => o.id \in lv.new]_vars
=============================================================================
