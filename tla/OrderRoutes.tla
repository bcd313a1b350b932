------------------------------ MODULE OrderRoutes ------------------------------
(* The two routes that place an order for the owner, POST /api/live/order and  *)
(* POST /api/live/order/limit (server/index.ts 9210-9506, 10060-10402), with   *)
(* the chain of gates in front of them (5895-6423): fresh market data, risk,   *)
(* allocation, entry signal, radar policy. A handler runs from one await to    *)
(* the next without interruption, so an action is the code between two awaits; *)
(* between them other requests, the monitors, the exchange and a crash may act.*)
(* One symbol; a price of 1, so that a size is also its notional.              *)
EXTENDS Naturals, FiniteSets

CONSTANTS
  Requests,    \* the requests a client sends
  Shapes,      \* the bodies it may send, see ShapeOK
  Manual,      \* rules: manual confirmation is on
  Equity,      \* equity of the account
  SymbolCap,   \* computeSymbolNotionalCap at that equity
  GrossCap,    \* maxPortfolioGrossNotional at that equity
  LeverageCap, \* exposure above which the portfolio leverage cap is exceeded
  MaxMoves,    \* bound: moves of the candidate made by the radar
  MaxCrashes,  \* bound: crashes of the server
  NoOrder, NoKey

INSTANCE SignalCandidates

(* size 0 asks for the allocation size; lev is the leverage asked for.         *)
ShapeOK(s) ==
  /\ s.kind \in {"market", "limit"}
  /\ s.size \in Nat
  /\ s.lev \in {"none", "fine", "high"}
  /\ {s.reduce, s.confirm, s.signalOverride, s.policyOverride} \subseteq BOOLEAN

ASSUME ShapesAreBodies == Shapes # {} /\ \A s \in Shapes : ShapeOK(s)
ASSUME LimitsAssumption ==
  /\ {Equity, SymbolCap, GrossCap, LeverageCap, MaxMoves, MaxCrashes} \subseteq Nat
  /\ NoOrder \notin Requests

VARIABLES
  h,         \* the handler of each request: where it stands (pc), the body, what
             \* the risk check said (equity, full), the policy snapshot (mult, and
             \* whether it names the candidate), the size it works with (qty)
  reply,     \* what the client was answered
  order,     \* the order of the request at the exchange
  heard,     \* the acknowledgement the handler got
  intent,    \* executionIntents in memory, by request
  cand,      \* the signal candidate in memory
  saved,     \* [intent, cand] as stored
  cache,     \* idempotencyCache: the keys with a response
  lock,      \* ddLock.active
  positions, \* exposure of the account
  late,      \* ghost: the key had been answered when the request arrived
  forgotten, \* ghost: keys whose answer aged out or was lost in a crash
  blind,     \* ghost: an entry was let pass while another was on its way, or
             \*        while the equity was unknown
  moves, crashes

market == <<order, heard, positions, lock>>
memory == <<intent, cand>>
ghosts == <<late, forgotten, blind>>
bounds == <<moves, crashes>>
vars == <<h, reply, market, memory, saved, cache, ghosts, bounds>>

Blank(where) ==
  [pc |-> where, body |-> CHOOSE s \in Shapes : TRUE, equity |-> 0, full |-> FALSE,
   mult |-> "full", named |-> FALSE, qty |-> 0]

Init ==
  /\ h = [r \in Requests |-> Blank("idle")]
  /\ reply = [r \in Requests |-> "none"]
  /\ order = [r \in Requests |-> "none"]
  /\ heard = [r \in Requests |-> "none"]
  /\ intent = [r \in Requests |-> "none"]
  /\ cand = [state |-> "validated", order |-> NoOrder]
  /\ saved = [intent |-> intent, cand |-> cand]
  /\ cache = {}
  /\ lock = FALSE
  /\ positions = 0
  /\ late = [r \in Requests |-> FALSE]
  /\ forgotten = {}
  /\ blind = FALSE
  /\ moves = 0
  /\ crashes = 0

-------------------------------------------------------------------------------
(* Helpers                                                                    *)

At(r, where) == h[r].pc = where
Go(r, where) == h' = [h EXCEPT ![r].pc = where] /\ UNCHANGED reply

(* A handler that has ended is forgotten with its variables, except for what   *)
(* the exchange still needs to fill its order.                                *)
Ended(r, where) ==
  IF order[r] = "none" THEN Blank(where)
  ELSE [h[r] EXCEPT !.pc = where, !.equity = 0, !.mult = "full"]
Answer(r, how) ==
  h' = [h EXCEPT ![r] = Ended(r, "done")] /\ reply' = [reply EXCEPT ![r] = how]
Die(r) == h' = [h EXCEPT ![r] = Ended(r, "dead")] /\ UNCHANGED reply

IsEntry(r) == ~h[r].body.reduce
OnTheWay == {"signal", "policy", "gated", "size", "leverage", "place"}
Outstanding(r) ==
  \E x \in Requests \ {r} :
    IsEntry(x) /\ (order[x] = "resting" \/ (h[x].pc \in OnTheWay /\ order[x] = "none"))

Smaller(a, b) == IF a < b THEN a ELSE b

(* computeAllocationSize: 0 stands for every failure it reports.              *)
AllocationSize(equity, available) ==
  IF equity = 0 \/ available = 0 THEN 0 ELSE Smaller(SymbolCap, available)

(* applyRadarRiskMultiplierToSize; a half that rounds down may leave nothing. *)
Adjusted(r, q) ==
  IF IsEntry(r) /\ ~h[r].body.policyOverride /\ h[r].mult = "half" THEN q \div 2 ELSE q

(* Mutant: the cap is compared with what is open, without the new order. *)
ExceedsGrossOpenOnly(equity, q) == equity > 0 /\ positions > GrossCap

(* wouldExceedPortfolioGrossCap; without an equity there is no cap.           *)
ExceedsGross(equity, q) == equity > 0 /\ positions + q > GrossCap

(* Keys a request has been answered under after it was given to the exchange. *)
AnsweredKeys ==
  {h[x].body.key : x \in {y \in Requests : /\ reply[y] \in {"placed", "failed"}
                                            /\ h[y].body.kind = "market"}} \ {NoKey}

Store == saved' = [intent |-> intent', cand |-> cand']

-------------------------------------------------------------------------------
(* Gates                                                                      *)

(* The synchronous start of riskGateMiddleware: a locked account takes exits   *)
(* only; the others wait for evaluateRiskGates.                                *)
EnterRisk(r) ==
  IF lock /\ IsEntry(r) THEN Answer(r, "refused") ELSE Go(r, "risk")

(* staleMarketDataGate: an exit is not asked for a fresh tick.                *)
Arrive(r) ==
  /\ At(r, "idle")
  /\ \E s \in Shapes :
       /\ h' = [h EXCEPT ![r].body = s, ![r].pc = IF s.reduce THEN "risk" ELSE "fresh"]
       /\ late' = [late EXCEPT ![r] = s.kind = "market" /\ s.key \in AnsweredKeys \ forgotten]
  /\ UNCHANGED <<reply, market, memory, saved, cache, forgotten, blind, bounds>>

FreshTick(r) ==
  /\ At(r, "fresh")
  /\ \/ EnterRisk(r)
     \/ Answer(r, "refused")
  /\ UNCHANGED <<market, memory, saved, cache, ghosts, bounds>>

(* The gates behind the risk gate, up to their first await. An exit passes    *)
(* them all and reaches the handler at once; an entry with a size is checked   *)
(* against the open positions when there is an equity to compare with.        *)
AfterRisk(r, equity) ==
  IF ~IsEntry(r) THEN "gated"
  ELSE IF h[r].body.size > 0 /\ equity > 0 THEN "exposure"
  ELSE "signal"

(* evaluateRiskGates has read account and positions. A failed read refuses;   *)
(* an equity that is not valid for risk adds a block the gate does not look    *)
(* at. A daily loss sets the lock, and an entry closes the account first.     *)
RiskRead(r) ==
  /\ At(r, "risk")
  /\ \/ Answer(r, "refused") /\ UNCHANGED <<lock, blind>>
     \/ \E quality \in {"full", "partial", "unavailable"}, loss \in BOOLEAN :
          LET full   == quality = "full"
              equity == IF quality = "unavailable" THEN 0 ELSE Equity
              levered == full /\ positions > LeverageCap
          IN  /\ loss => full
              /\ lock' = (lock \/ loss)
              /\ blind' = (blind \/ (IsEntry(r) /\ equity = 0))
              /\ IF levered /\ ~loss /\ IsEntry(r) THEN Answer(r, "refused")
                 ELSE /\ h' = [h EXCEPT ![r].equity = equity, ![r].full = full,
                                        ![r].pc = IF loss /\ IsEntry(r) THEN "closing"
                                                  ELSE AfterRisk(r, equity)]
                      /\ UNCHANGED reply
  /\ UNCHANGED <<order, heard, positions, memory, saved, cache, late, forgotten, bounds>>

(* emergencyCloseAll, whose steps DrawdownWatchdog models: at best it cancels  *)
(* what rests and closes what is open.                                        *)
CloseAll(r) ==
  /\ At(r, "closing")
  /\ \/ /\ order' = [x \in Requests |-> IF order[x] = "resting" THEN "cancelled" ELSE order[x]]
        /\ positions' = 0
     \/ UNCHANGED <<order, positions>>
  /\ Answer(r, "refused")
  /\ UNCHANGED <<heard, lock, memory, saved, cache, ghosts, bounds>>

(* symbolAllocationGate: the exposure of the symbol (a failed read counts as   *)
(* none), then the gross exposure (a failed read refuses).                    *)
ExposureRead(r) ==
  /\ At(r, "exposure")
  /\ \E read \in {positions, 0} :
       IF read + h[r].body.size > SymbolCap THEN Answer(r, "refused") ELSE Go(r, "gross")
  /\ UNCHANGED <<market, memory, saved, cache, ghosts, bounds>>

GrossRead(r) ==
  /\ At(r, "gross")
  /\ \/ Answer(r, "refused") /\ UNCHANGED blind
     \/ /\ ExceedsGross(h[r].equity, h[r].body.size)
        /\ Answer(r, "refused") /\ UNCHANGED blind
     \/ /\ ~ExceedsGross(h[r].equity, h[r].body.size)
        /\ Go(r, "signal")
        /\ blind' = (blind \/ Outstanding(r))
  /\ UNCHANGED <<market, memory, saved, cache, late, forgotten, bounds>>

(* engulfingGate: no rules, no candles, an exception or no signal refuse,      *)
(* unless the operator overrides the gate.                                    *)
SignalRead(r) ==
  /\ At(r, "signal")
  /\ \/ Go(r, "policy")
     \/ ~h[r].body.signalOverride /\ Answer(r, "refused")
  /\ UNCHANGED <<market, memory, saved, cache, ghosts, bounds>>

(* What buildRadarContextPolicyBook and evaluateRadarContextPolicyEntry make   *)
(* of the candidate: none that is alive, or one too new for a multiplier,      *)
(* blocks; a validated one halves; direction and lockout may always block. A  *)
(* policy that blocks because the candidate's time is over does not name it.  *)
Live == {"new", "validated", "actionable", "routed", "executed"}
Multipliers ==
  IF cand.state = "validated" THEN {"half"}
  ELSE IF cand.state \in {"actionable", "routed", "executed"} THEN {"half", "full"}
  ELSE {}

(* radarContextPolicyGate: the intent is made here, before any handler runs,   *)
(* and stored; a refusal is stored too.                                       *)
PolicyGate(r) ==
  /\ At(r, "policy")
  /\ \/ \E m \in Multipliers :
          /\ h' = [h EXCEPT ![r].mult = m, ![r].named = TRUE, ![r].pc = "gated"]
          /\ intent' = [intent EXCEPT ![r] = "created"]
     \/ \E named \in BOOLEAN :
          LET over == h[r].body.policyOverride IN
          /\ named => cand.state \in Live
          /\ h' = [h EXCEPT ![r].mult = "half", ![r].named = named,
                            ![r].pc = IF over THEN "gated" ELSE "refusing"]
          /\ intent' = [intent EXCEPT ![r] = IF over THEN "created" ELSE "policy_rejected"]
  /\ UNCHANGED <<reply, market, cand, saved, cache, ghosts, bounds>>

-------------------------------------------------------------------------------
(* Handlers                                                                   *)

(* From the sizing to the next await: confirmation, idempotency (market route  *)
(* only, and only here, after all the reads), leverage, or the order itself.  *)
Submit(r, q) ==
  LET s == h[r].body
      known == s.kind = "market" /\ s.key # NoKey /\ s.key \in cache
      lev == IF s.kind = "market" THEN s.lev ELSE "none"
  IN  IF Manual /\ ~s.confirm THEN Answer(r, "refused")
      ELSE IF known THEN Answer(r, "cached")
      ELSE IF lev = "high" THEN Answer(r, "refused")
      ELSE /\ h' = [h EXCEPT ![r].qty = q,
                             ![r].pc = IF lev = "fine" THEN "leverage" ELSE "place"]
           /\ UNCHANGED reply

(* The intent is marked rejected and the refusal is stored before the answer. *)
Reject(r) == Go(r, "refusing") /\ intent' = [intent EXCEPT ![r] = "rejected"]

(* The handler starts; without a size it waits for the account. An entry gets *)
(* here when the gate's write has landed; one that fails ends it unanswered.  *)
Starts(r) ==
  LET q == Adjusted(r, h[r].body.size) IN
  IF h[r].body.size = 0 THEN Go(r, "size") /\ UNCHANGED intent
  ELSE IF q = 0 THEN Reject(r)
  ELSE Submit(r, q) /\ UNCHANGED intent

Start(r) ==
  /\ At(r, "gated")
  /\ \/ Starts(r) /\ saved' = IF IsEntry(r) THEN [intent |-> intent, cand |-> cand] ELSE saved
     \/ IsEntry(r) /\ Die(r) /\ UNCHANGED <<intent, saved>>
  /\ UNCHANGED <<market, cand, cache, ghosts, bounds>>

(* Allocation sizing: an equity the risk gate did not know is read again. Then *)
(* multiplier and gross cap, which compares with the equity of the risk gate:  *)
(* without one there is no cap. A failed read of the positions rejects the     *)
(* intent on the market route and leaves it on the limit route.               *)
SizeRead(r) ==
  /\ At(r, "size")
  /\ \E available \in {0, SymbolCap}, equity \in {h[r].equity, Equity}, fails \in BOOLEAN :
       LET q == Adjusted(r, AllocationSize(equity, available))
           capped == IsEntry(r) /\ h[r].equity > 0
       IN  IF q = 0 THEN Reject(r) /\ UNCHANGED blind
           ELSE IF capped /\ fails
           THEN /\ IF h[r].body.kind = "market" THEN Reject(r)
                   ELSE Answer(r, "refused") /\ UNCHANGED intent
                /\ UNCHANGED blind
           ELSE IF capped /\ ExceedsGross(h[r].equity, q)
           THEN Reject(r) /\ UNCHANGED blind
           ELSE /\ Submit(r, q)
                /\ blind' = (blind \/ (IsEntry(r) /\ Outstanding(r)))
                /\ UNCHANGED intent
  /\ UNCHANGED <<market, cand, saved, cache, late, forgotten, bounds>>

(* A write before a refusal lands, or fails: then the handler throws and the   *)
(* client is never answered.                                                  *)
Refuse(r) ==
  /\ At(r, "refusing")
  /\ \/ Answer(r, "refused") /\ UNCHANGED memory /\ Store
     \/ Die(r) /\ UNCHANGED <<memory, saved>>
  /\ UNCHANGED <<market, cache, ghosts, bounds>>

(* setLeverage never throws and its result is not looked at.                  *)
Leverage(r) ==
  /\ At(r, "leverage")
  /\ Go(r, "place")
  /\ UNCHANGED <<market, memory, saved, cache, ghosts, bounds>>

(* placeLimitOrder at the exchange: taken or refused; the adapter reports an   *)
(* order as failed when the answer is lost or carries no id.                  *)
Exchange(r) ==
  /\ At(r, "place")
  /\ \/ /\ order' = [order EXCEPT ![r] = "resting"]
        /\ \E a \in {"ok", "failed"} : heard' = [heard EXCEPT ![r] = a]
     \/ /\ order' = [order EXCEPT ![r] = "refused"]
        /\ heard' = [heard EXCEPT ![r] = "failed"]
  /\ Go(r, "ack")
  /\ UNCHANGED <<positions, lock, memory, saved, cache, ghosts, bounds>>

(* Mutant: the intent is marked placed before the acknowledgement is looked at. *)
AcknowledgeAsPlaced(r) ==
  /\ At(r, "ack")
  /\ intent' = [intent EXCEPT ![r] = IF @ = "none" THEN @ ELSE "auto_order_placed"]
  /\ Go(r, IF heard[r] = "ok" /\ IsEntry(r) THEN "clear" ELSE "finish")
  /\ UNCHANGED <<market, cand, saved, cache, ghosts, bounds>>

(* The acknowledgement: event, intent and candidate are brought up to date in  *)
(* one go. An accepted entry goes on to clear the symbol's pending and to its  *)
(* stop; a failed one only sends a message.                                   *)
Acknowledge(r) ==
  /\ At(r, "ack")
  /\ IF heard[r] = "ok"
     THEN /\ intent' = [intent EXCEPT ![r] = IF @ = "none" THEN @ ELSE "auto_order_placed"]
          /\ cand' = Reconcile(IF h[r].named THEN Route(cand, r) ELSE cand,
                               r, "auto_order_placed")
          /\ Go(r, IF IsEntry(r) THEN "clear" ELSE "finish")
     ELSE /\ intent' = [intent EXCEPT ![r] = IF @ = "none" THEN @ ELSE "rejected"]
          /\ Go(r, "finish")
          /\ UNCHANGED cand
  /\ UNCHANGED <<market, saved, cache, ghosts, bounds>>

(* clearPendingConfirmationForSymbol writes when there was a pending; nothing  *)
(* catches a write that fails. The stop is placed behind it (ProtectiveOrders).*)
ClearPending(r) ==
  /\ At(r, "clear")
  /\ \/ Go(r, "finish") /\ UNCHANGED saved
     \/ Go(r, "finish") /\ saved' = [intent |-> intent, cand |-> cand]
     \/ Die(r) /\ UNCHANGED saved
  /\ UNCHANGED <<market, memory, cache, ghosts, bounds>>

(* Mutant: only a success is remembered under the key. *)
FinishCachesSuccess(r) ==
  LET s == h[r].body IN
  /\ At(r, "finish")
  /\ UNCHANGED memory /\ Store
  /\ Answer(r, IF heard[r] = "ok" THEN "placed" ELSE "failed")
  /\ cache' = IF s.kind = "market" /\ s.key # NoKey /\ heard[r] = "ok"
              THEN cache \cup {s.key} ELSE cache
  /\ UNCHANGED <<market, ghosts, bounds>>

(* The last write lands (or throws), the response is remembered under the key  *)
(* whatever it says, and the client is answered.                              *)
Finish(r) ==
  LET s == h[r].body IN
  /\ At(r, "finish")
  /\ \/ /\ UNCHANGED memory /\ Store
        /\ Answer(r, IF heard[r] = "ok" THEN "placed" ELSE "failed")
        /\ cache' = IF s.kind = "market" /\ s.key # NoKey THEN cache \cup {s.key} ELSE cache
     \/ Die(r) /\ UNCHANGED <<memory, saved, cache>>
  /\ UNCHANGED <<market, ghosts, bounds>>

-------------------------------------------------------------------------------
(* Environment                                                                *)

(* The exchange fills a resting order; an exit takes no more than is open.    *)
Fill(r) ==
  /\ order[r] = "resting"
  /\ order' = [order EXCEPT ![r] = "filled"]
  /\ positions' = IF IsEntry(r) THEN positions + h[r].qty
                  ELSE positions - Smaller(positions, h[r].qty)
  /\ UNCHANGED <<h, reply, heard, lock, memory, saved, cache, ghosts, bounds>>

(* The radar moves the candidate; every one of its moves is a Transition.     *)
RadarMoves ==
  /\ moves < MaxMoves
  /\ \E to \in {"actionable", "expired", "postmortem_ready"} :
       /\ to \in Allowed[cand.state]
       /\ cand' = Transition(cand, to, NoOrder)
  /\ moves' = moves + 1
  /\ UNCHANGED <<h, reply, market, intent, saved, cache, ghosts, crashes>>

(* The job routes reload the store: what was not written is gone.            *)
Reload ==
  /\ intent' = saved.intent /\ cand' = saved.cand
  /\ UNCHANGED <<h, reply, market, saved, cache, ghosts, bounds>>

(* pruneIdempotencyCache drops an entry that is too old or the oldest of too   *)
(* many: a later retry is a new order.                                        *)
Forgotten(keys) ==
  /\ forgotten' = forgotten \cup keys
  /\ late' = [r \in Requests |-> late[r] /\ h[r].body.key \notin keys]
Prune ==
  /\ \E k \in cache : cache' = cache \ {k} /\ Forgotten({k})
  /\ UNCHANGED <<h, reply, market, memory, saved, blind, bounds>>

(* The process dies with every handler in it; the cache was in memory only.    *)
Crash ==
  /\ crashes < MaxCrashes
  /\ crashes' = crashes + 1
  /\ h' = [r \in Requests |-> IF h[r].pc \in {"idle", "done"} THEN h[r] ELSE Ended(r, "dead")]
  /\ intent' = saved.intent /\ cand' = saved.cand
  /\ cache' = {}
  /\ Forgotten(AnsweredKeys)
  /\ UNCHANGED <<reply, market, saved, blind, moves>>

Handler(r) ==
  \/ Arrive(r) \/ FreshTick(r) \/ RiskRead(r) \/ CloseAll(r) \/ ExposureRead(r)
  \/ GrossRead(r) \/ SignalRead(r) \/ PolicyGate(r) \/ Start(r) \/ SizeRead(r)
  \/ Refuse(r) \/ Leverage(r) \/ Exchange(r) \/ Acknowledge(r) \/ ClearPending(r)
  \/ Finish(r)

Next ==
  \/ \E r \in Requests : Handler(r) \/ Fill(r)
  \/ RadarMoves \/ Reload \/ Prune \/ Crash

Spec == Init /\ [][Next]_vars

-------------------------------------------------------------------------------
(* Properties                                                                 *)

(* Every variable keeps to its values, and a request that has not been given   *)
(* to the exchange has no order there.                                        *)
TypeOK ==
  /\ \A r \in Requests :
       /\ ShapeOK(h[r].body) /\ h[r].equity \in {0, Equity} /\ h[r].full \in BOOLEAN
       /\ h[r].mult \in {"full", "half"} /\ h[r].named \in BOOLEAN /\ h[r].qty \in Nat
       /\ h[r].pc \in {"idle", "fresh", "risk", "closing", "exposure", "gross", "clear",
                       "refusing", "ack", "finish", "done", "dead"} \cup OnTheWay
       /\ reply[r] \in {"none", "refused", "placed", "failed", "cached"}
       /\ order[r] \in {"none", "resting", "refused", "filled", "cancelled"}
       /\ heard[r] \in {"none", "ok", "failed"}
       /\ h[r].pc \in {"idle", "fresh", "exposure", "place"} => order[r] = "none"
       /\ order[r] # "none" => h[r].qty > 0
  /\ cand.state \in States /\ cand.order \in Requests \cup {NoOrder}
  /\ positions \in Nat

(* What the records say of an order is true, in memory and as stored, whatever *)
(* was reloaded, lost or crashed: an intent that says it was placed has its    *)
(* order at the exchange, one that says it was refused has none unless the     *)
(* exchange's answer was lost, and an executed candidate names an order that   *)
(* its own policy snapshot sent.                                              *)
OrderTaken(r) == order[r] \in {"resting", "filled", "cancelled"}
TrueIntents(i) ==
  \A r \in Requests :
    /\ i[r] = "auto_order_placed" => OrderTaken(r) /\ heard[r] = "ok"
    /\ i[r] \in {"policy_rejected", "rejected"} => ~OrderTaken(r) \/ heard[r] = "failed"
TrueCandidate(c) ==
  c.state = "executed" =>
    /\ c.order \in Requests
    /\ OrderTaken(c.order) /\ heard[c.order] = "ok" /\ h[c.order].named
RecordsAreTrue ==
  /\ TrueIntents(intent) /\ TrueIntents(saved.intent)
  /\ TrueCandidate(cand) /\ TrueCandidate(saved.cand)

(* A retry sent after the answer to its key was there places nothing, as long  *)
(* as the answer is neither too old nor lost in a restart (10255-10262).      *)
LateRetryPlacesNothing ==
  \A r \in Requests : late[r] => order[r] = "none"

(* The gross cap holds as long as no entry was let pass while another rested   *)
(* or was on its way, or while the equity was unknown (5912-5933).            *)
CapUnlessBlind == ~blind => positions <= GrossCap

(* "POST /api/live/order -- idempotent place order" (10092): one order per key.*)
OneOrderPerKey ==
  \A r, x \in Requests :
    /\ r # x /\ h[r].body.kind = "market" /\ h[x].body.kind = "market"
    /\ h[r].body.key = h[x].body.key /\ h[r].body.key # NoKey
    => ~(OrderTaken(r) /\ OrderTaken(x))

(* "Risk path rejects partial/perp-only equity snapshots"                      *)
(* (scripts/invariants-daily-drawdown.ts:5): an entry that reached the         *)
(* exchange was let pass by a risk check on an equity valid for risk.          *)
EntriesHadRiskEquity ==
  \A r \in Requests : IsEntry(r) /\ order[r] # "none" => h[r].full

(* "TP/SL defaults: auto-apply after successful non-reduceOnly order" (10339): *)
(* a handler that ended without an answer left no accepted entry behind.       *)
AcceptedEntriesGoOn ==
  \A r \in Requests :
    crashes = 0 /\ IsEntry(r) /\ heard[r] = "ok" => h[r].pc # "dead" \/ intent[r] = "none"
===============================================================================
