---------------------------- MODULE AccountViews ----------------------------
(***************************************************************************)
(* What the server sees of an account that is spread over the exchange's   *)
(* own market and those of others (dexes): positions and orders as the     *)
(* adapter reads them (exchange/hyperliquidAdapter.ts), and the levels and *)
(* counts that server/liveSnapshot.ts makes of them.                       *)
(*                                                                         *)
(* Dexes are discovered from the fills of the account, now and then.       *)
(***************************************************************************)
EXTENDS Integers, FiniteSets

CONSTANTS
  Markets,        (* [dex, core]; the dex "" is the exchange's own          *)
  ExtraDexes,     (* HYPERLIQUID_EXTRA_DEXES                                *)
  DiscoveryTtl,
  Entry, Offsets, (* price of every position, distances of orders from it   *)
  OrderTypes,     (* [kind, reduceOnly]: kind is tp, sl or None             *)
  MaxOrders, MaxTime, (* bounds                                             *)
  None

(* What the constants are taken to be                                      *)
ViewsAssumption ==
  /\ DiscoveryTtl \in Nat \ {0} /\ MaxTime \in Nat /\ MaxOrders \in Nat
  /\ Entry \in Int /\ Offsets \subseteq Int

VARIABLES
  clock,
  positions,   (* markets with one; levels are asked for either side        *)
  filled,      (* when a dex had its first fill                             *)
  orders,      (* open ones, by their place among the exchange's orders:    *)
               (* [market, side, price, kind, reduceOnly]                   *)
  known,       (* knownDexesCache: [at, dexes, failed], failed is a ghost   *)
  seen         (* ghost: what the last read of all positions returned       *)

vars == <<clock, positions, filled, orders, known, seen>>

Dexes == {m.dex : m \in Markets} \ {""}
Never == MaxTime + 1

Init ==
  /\ clock = 0 /\ positions = {} /\ filled = [d \in Dexes |-> Never]
  /\ orders = [i \in {} |-> None] /\ known = None /\ seen = None

-----------------------------------------------------------------------------
(* Reads                                                                   *)

(* By name or by what follows the dex: only the latter tells.              *)
SymbolsMatch(m, n) == m.core = n.core

(* Mutant: what has been discovered once is kept. *)
KnownForGood(fails) ==
  IF known # None THEN known
  ELSE [at |-> clock, failed |-> fails,
        dexes |-> ExtraDexes \cup IF fails THEN {} ELSE {d \in Dexes : filled[d] <= clock}]

(* getKnownDexes: what a failed discovery leaves is kept just as long.     *)
KnownDexes(fails) ==
  IF known # None /\ clock - known.at < DiscoveryTtl THEN known
  ELSE [at |-> clock, failed |-> fails,
        dexes |-> ExtraDexes \cup IF fails THEN {} ELSE {d \in Dexes : filled[d] <= clock}]

(* getOpenExposures: of one dex if the symbol has one, else of those known.*)
GetOpenExposures(target, k) ==
  {m \in positions : /\ target = None \/ SymbolsMatch(m, target)
                     /\ m.dex \in IF target # None /\ target.dex # "" THEN {target.dex} ELSE {""} \cup k.dexes}

GetOpenOrders(target, k) ==
  {i \in DOMAIN orders :
    /\ target = None \/ SymbolsMatch(orders[i].market, target)
    /\ orders[i].market.dex \in {""} \cup k.dexes \cup (IF target = None THEN {} ELSE {target.dex})}

-----------------------------------------------------------------------------
(* Levels                                                                  *)

Distance(o) == IF o.price > Entry THEN o.price - Entry ELSE Entry - o.price

(* The n nearest of these orders, the first ones among the equally near.   *)
Nearest(os, S, n) ==
  {i \in S : Cardinality({j \in S : Distance(os[j]) < Distance(os[i])
                                    \/ (Distance(os[j]) = Distance(os[i]) /\ j < i)}) < n}

(* A price at the entry is on either side.                                 *)
PriceSide(o, side, kind) ==
  IF side = "long" <=> kind = "tp" THEN o.price >= Entry ELSE o.price <= Entry

(* pickStopLossAndTakeProfit.  Take profits that say so and those that lie *)
(* where one would are one list; of stops, those that say so go first.     *)
(* Every candidate says so or lies somewhere: the heuristic that follows   *)
(* in the code is never reached.                                           *)
PickLevels(os, market, side) ==
  LET candidates == {i \in DOMAIN os : /\ SymbolsMatch(os[i].market, market) /\ os[i].reduceOnly
                                       /\ os[i].side = IF side = "long" THEN "sell" ELSE "buy"}
      Explicit(kind) == {i \in candidates : os[i].kind = kind}
      Fallback(kind) == {i \in candidates : os[i].kind = None /\ PriceSide(os[i], side, kind)}
      stops == IF Explicit("sl") # {} THEN Explicit("sl") ELSE Fallback("sl")
  IN  [takeProfits |-> {os[i].price : i \in Nearest(os, Explicit("tp") \cup Fallback("tp"), 3)},
       stopLoss    |-> {os[i].price : i \in Nearest(os, stops, 1)}]

(* buildOpenOrderBreakdown: orders whose ids say what they are             *)
Breakdown(os) ==
  LET Of(kind) == Cardinality({i \in DOMAIN os : os[i].kind = kind}) IN
    [total |-> Cardinality(DOMAIN os), takeProfit |-> Of("tp"), stopLoss |-> Of("sl"),
     other |-> Cardinality(DOMAIN os) - Of("tp") - Of("sl")]

-----------------------------------------------------------------------------
(* The account changes and is read                                         *)

OpenPosition(m) ==
  /\ m \notin positions /\ positions' = positions \cup {m}
  /\ filled' = IF m.dex = "" THEN filled ELSE [filled EXCEPT ![m.dex] = IF clock < @ THEN clock ELSE @]
  /\ seen' = None /\ UNCHANGED <<clock, orders, known>>

(* Where an order comes among the others is the exchange's choice.         *)
PlaceOrder(i, m, side, offset, type) ==
  /\ i \notin DOMAIN orders
  /\ orders' = [j \in DOMAIN orders \cup {i} |->
       IF j # i THEN orders[j]
       ELSE [market |-> m, side |-> side, price |-> Entry + offset, kind |-> type.kind, reduceOnly |-> type.reduceOnly]]
  /\ UNCHANGED <<clock, positions, filled, known, seen>>

ReadPositions(fails) ==
  /\ known' = KnownDexes(fails)
  /\ seen' = GetOpenExposures(None, KnownDexes(fails))
  /\ UNCHANGED <<clock, positions, filled, orders>>

(* cancelAll and cancelOrder cancel what they see.                         *)
Cancel(hit) == orders' = [i \in DOMAIN orders \ hit |-> orders[i]]

CancelAll(m, fails) ==
  /\ known' = KnownDexes(fails)
  /\ Cancel(GetOpenOrders(m, KnownDexes(fails)))
  /\ seen' = None /\ UNCHANGED <<clock, positions, filled>>

CancelOrder(i, fails) ==
  /\ known' = KnownDexes(fails)
  /\ Cancel(GetOpenOrders(None, KnownDexes(fails)) \cap {i})
  /\ seen' = None /\ UNCHANGED <<clock, positions, filled>>

Tick ==
  /\ clock < MaxTime /\ clock' = clock + 1 /\ seen' = None
  /\ UNCHANGED <<positions, filled, orders, known>>

Next ==
  \/ \E m \in Markets :
       \/ OpenPosition(m)
       \/ \E i \in 1 .. MaxOrders, side \in {"buy", "sell"}, offset \in Offsets, type \in OrderTypes :
            PlaceOrder(i, m, side, offset, type)
       \/ \E fails \in BOOLEAN : CancelAll(m, fails)
  \/ \E fails \in BOOLEAN : \/ ReadPositions(fails)
                            \/ \E i \in DOMAIN orders : CancelOrder(i, fails)
  \/ Tick

Spec == Init /\ [][Next]_vars

-----------------------------------------------------------------------------
(* Properties                                                              *)

(* Positions are found by way of fills, and what has been found is kept    *)
(* for a while: a read misses only positions on a dex that has been traded *)
(* for less than that, or after a discovery that failed.                   *)
OldPositionsAreSeen ==
  seen # None => \A m \in positions \ seen :
    m.dex # "" /\ (known.failed \/ clock - filled[m.dex] < DiscoveryTtl)

(* Long and short are written out one by one.  Levels of the mirror image  *)
(* of an account are the mirror image of its levels.                       *)
Mirrored(price) == 2 * Entry - price
MirroredOrders ==
  [i \in DOMAIN orders |-> [orders[i] EXCEPT !.side = IF @ = "buy" THEN "sell" ELSE "buy", !.price = Mirrored(@)]]
LevelsAreMirrored ==
  \A m \in Markets :
    LET long  == PickLevels(orders, m, "long")
        short == PickLevels(MirroredOrders, m, "short")
    IN  /\ short.takeProfits = {Mirrored(p) : p \in long.takeProfits}
        /\ short.stopLoss = {Mirrored(p) : p \in long.stopLoss}

(* A read of all positions returns all of them.  Does not hold.            *)
PositionsAreSeen == seen # None => seen = positions

(* A stop that is shown for a position would close that position.  Does    *)
(* not hold: one in another market of the same name is shown as well.      *)
StopIsOfThePosition ==
  \A m \in Markets : PickLevels(orders, m, "long").stopLoss # {} => \E i \in DOMAIN orders : orders[i].market = m
=============================================================================
