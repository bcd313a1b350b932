---------------------------- MODULE MarketStream ----------------------------
(***************************************************************************)
(* Where the latest price of the live symbol comes from (server/index.ts,  *)
(* ingestPrice to startLiveMidStream, subscribeMids of the adapter): a     *)
(* stream that is opened again when it closes, a fallback that fetches     *)
(* every minute, and the gate of the order routes that fetches when the    *)
(* price is old.  A price stands for the time at which it was one.         *)
(***************************************************************************)
EXTENDS Integers, FiniteSets

CONSTANTS
  BackoffInitial, BackoffMax,
  Stale,      (* LIVE_TICK_STALE_MS                                         *)
  Trip,       (* of a fetch, and of a message                               *)
  MaxFetches, (* at a time                                                  *)
  MaxTime,    (* bound                                                      *)
  None

(* What the constants are taken to be                                      *)
StreamAssumption ==
  /\ BackoffInitial \in Nat \ {0} /\ BackoffMax \in Nat \ {0} /\ BackoffInitial <= BackoffMax
  /\ Stale \in Nat /\ Trip \in Nat /\ MaxTime \in Nat

VARIABLES
  clock,
  server,     (* off, on, stopping, gone                                    *)
  socket,     (* the last one: none, connecting, open, closed               *)
  handle,     (* midStreamHandle is set                                     *)
  reconnect,  (* wsReconnectTimer is set                                    *)
  backoff,    (* wsBackoffMs                                                *)
  fallback,   (* restFallbackTimer is set                                   *)
  tick,       (* latestTickBySymbol: [price, at]                            *)
  fetches,    (* under way: [since, price, by]                              *)
  ingestBusy,
  failed,     (* ghost: sockets since the last that opened                  *)
  threw,      (* ghost: a socket could not be constructed                   *)
  passed      (* ghost: age of the oldest price that passed the gate        *)

vars == <<clock, server, socket, handle, reconnect, backoff, fallback, tick, fetches, ingestBusy,
          failed, threw, passed>>
stream == <<socket, handle, reconnect, backoff, failed, threw>>
ticks  == <<tick, ingestBusy>>

TypeOK ==
  /\ clock \in Nat /\ server \in {"off", "on", "stopping", "gone"}
  /\ socket \in {"none", "connecting", "open", "closed"}
  /\ handle \in BOOLEAN /\ reconnect \in BOOLEAN /\ fallback \in BOOLEAN /\ ingestBusy \in BOOLEAN
  /\ threw \in BOOLEAN /\ backoff \in Nat /\ failed \in Nat /\ passed \in Nat
  /\ tick \in [price : Nat, at : Nat] \cup {None}
  /\ fetches \subseteq [since : Nat, price : Nat \cup {None}, by : {"fallback", "gate"}]

Init ==
  /\ clock = 0 /\ server = "off"
  /\ socket = "none" /\ handle = FALSE /\ reconnect = FALSE /\ backoff = BackoffInitial
  /\ fallback = FALSE /\ tick = None /\ fetches = {}
  /\ ingestBusy = FALSE /\ failed = 0 /\ threw = FALSE /\ passed = 0

Fetch(by) == [since |-> clock, price |-> None, by |-> by]
Least(a, b) == IF a < b THEN a ELSE b

-----------------------------------------------------------------------------
(* The stream                                                              *)

(* The delay of the next time is doubled when the timer is set.            *)
ScheduleWsReconnect(timer) ==
  /\ reconnect' = TRUE
  /\ backoff' = IF timer THEN backoff ELSE Least(2 * backoff, BackoffMax)
  /\ failed' = Least(failed + 1, BackoffMax)

(* startLiveMidStream.  When the socket cannot be constructed the adapter  *)
(* reports that it closed before it returns its handle, which is kept.     *)
StartLiveMidStream ==
  \/ /\ handle /\ reconnect' = FALSE
     /\ UNCHANGED <<socket, handle, backoff, failed, threw>>
  \/ /\ ~handle /\ handle' = TRUE /\ socket' = "connecting" /\ reconnect' = FALSE
     /\ UNCHANGED <<backoff, failed, threw>>
  \/ /\ ~handle /\ handle' = TRUE /\ socket' = "closed" /\ threw' = TRUE
     /\ ScheduleWsReconnect(FALSE)

(* app.listen: a first fetch and the stream                                *)
Boot ==
  /\ server = "off" /\ server' = "on"
  /\ fetches' = {Fetch("fallback")}
  /\ StartLiveMidStream
  /\ UNCHANGED <<clock, fallback, ticks, passed>>

ReconnectFires ==
  /\ reconnect /\ server = "on"
  /\ StartLiveMidStream
  /\ UNCHANGED <<clock, server, fallback, ticks, fetches, passed>>

Open ==
  /\ socket = "connecting" /\ server = "on"
  /\ socket' = "open" /\ backoff' = BackoffInitial /\ failed' = 0 /\ fallback' = TRUE
  /\ UNCHANGED <<clock, server, handle, reconnect, ticks, fetches, threw, passed>>

(* Mutant: the handle of the closed socket is kept. *)
CloseKeepsHandle ==
  /\ socket \in {"connecting", "open"} /\ server = "on"
  /\ socket' = "closed" /\ ScheduleWsReconnect(reconnect)
  /\ UNCHANGED <<clock, server, handle, fallback, ticks, fetches, threw, passed>>

(* onClose                                                                 *)
Close ==
  /\ socket \in {"connecting", "open"} /\ server = "on"
  /\ socket' = "closed" /\ handle' = FALSE /\ ScheduleWsReconnect(reconnect)
  /\ UNCHANGED <<clock, server, fallback, ticks, fetches, threw, passed>>

-----------------------------------------------------------------------------
(* Prices                                                                  *)

(* The paper engine misses what comes while it is being stored.            *)
IngestPrice(price) ==
  /\ tick' = [price |-> price, at |-> clock]
  /\ ingestBusy' = TRUE

Stored == ingestBusy /\ ingestBusy' = FALSE
          /\ UNCHANGED <<clock, server, stream, fallback, tick, fetches, passed>>

(* A message of the stream may have been under way for Trip.               *)
Mid(price) ==
  /\ socket = "open" /\ price \in clock - Trip .. clock /\ price >= 0
  /\ IngestPrice(price)
  /\ UNCHANGED <<clock, server, stream, fallback, fetches, passed>>

FallbackFires ==
  /\ fallback /\ server = "on" /\ Cardinality(fetches) < MaxFetches
  /\ fetches' = fetches \cup {Fetch("fallback")}
  /\ UNCHANGED <<clock, server, stream, fallback, ticks, passed>>

Serve(f) ==
  /\ f.price = None /\ fetches' = (fetches \ {f}) \cup {[f EXCEPT !.price = clock]}
  /\ UNCHANGED <<clock, server, stream, fallback, ticks, passed>>

Oldest(price) == IF clock - price > passed THEN clock - price ELSE passed

(* What a gate waited for passes as it comes.                              *)
Arrive(f) ==
  /\ f.price # None /\ fetches' = fetches \ {f}
  /\ IngestPrice(f.price)
  /\ passed' = IF f.by = "gate" THEN Oldest(f.price) ELSE passed
  /\ UNCHANGED <<clock, server, stream, fallback>>

(* fetchLiveMid: null, and whoever waited at the gate is turned away.      *)
FetchFails(f) ==
  /\ fetches' = fetches \ {f}
  /\ UNCHANGED <<clock, server, stream, fallback, ticks, passed>>

(* Mutant: a tick is never too old. *)
EnsureAnyTick ==
  /\ server = "on" /\ tick # None
  /\ passed' = Oldest(tick.price)
  /\ UNCHANGED <<clock, server, stream, fallback, ticks, fetches>>

(* ensureFreshTick                                                         *)
EnsureFreshTick ==
  /\ server = "on"
  /\ IF tick # None /\ clock - tick.at <= Stale
     THEN passed' = Oldest(tick.price) /\ UNCHANGED fetches
     ELSE /\ Cardinality(fetches) < MaxFetches
          /\ fetches' = fetches \cup {Fetch("gate")} /\ UNCHANGED passed
  /\ UNCHANGED <<clock, server, stream, fallback, ticks>>

-----------------------------------------------------------------------------

(* gracefulShutdown: timers are cleared, the stream is closed; then what   *)
(* is still under way may arrive until the store is closed.                *)
Shutdown ==
  /\ server = "on" /\ server' = "stopping"
  /\ fallback' = FALSE /\ reconnect' = FALSE /\ handle' = FALSE /\ socket' = "none"
  /\ UNCHANGED <<clock, backoff, failed, threw, ticks, fetches, passed>>

Exit == server = "stopping" /\ server' = "gone" /\ fetches' = {}
        /\ UNCHANGED <<clock, stream, fallback, ticks, passed>>

Tick ==
  /\ server # "off" /\ clock < MaxTime /\ \A f \in fetches : clock - f.since < Trip
  /\ clock' = clock + 1
  /\ UNCHANGED <<server, stream, fallback, ticks, fetches, passed>>

Next ==
  \/ Boot \/ ReconnectFires \/ Open \/ Close \/ Stored \/ FallbackFires \/ EnsureFreshTick
  \/ Shutdown \/ Exit \/ Tick
  \/ \E price \in 0 .. MaxTime : Mid(price)
  \/ \E f \in fetches : Serve(f) \/ Arrive(f) \/ FetchFails(f)

Fairness == WF_vars(ReconnectFires)

Spec == Init /\ [][Next]_vars /\ Fairness

-----------------------------------------------------------------------------
(* Properties                                                              *)

(* The server, while it is up, is connected, connecting, or going to be:   *)
(* unless a socket could not even be constructed.  And it waits longer the *)
(* more sockets have closed since one opened.                              *)
StreamIsTended ==
  server = "on" /\ ~threw =>
    /\ (handle /\ socket \in {"connecting", "open"}) \/ reconnect
    /\ backoff = Least(2 ^ failed * BackoffInitial, BackoffMax)

(* What a closed socket leaves behind leads to another one.                *)
StreamComesBack == (server = "on" /\ socket = "closed" /\ ~threw) ~> (socket # "closed" \/ threw)

(* staleMarketDataGate: an order that passes does so on a price that was   *)
(* one not longer ago than is allowed, and the time it took to come,       *)
(* whatever wrote the tick last.                                           *)
GateIsFresh == passed <= Stale + Trip

(* index.ts:6754: "Hyperliquid WS start failed, using REST fallback each   *)
(* minute".  A server without a stream has the fallback.  Does not hold:   *)
(* the fallback starts when a socket opens.                                *)
FallbackCovers == server = "on" /\ socket = "closed" => fallback

(* index.ts:6745: "Hyperliquid WS disconnected, reconnecting..." as above, *)
(* whatever the socket was.  Does not hold: the handle of a socket that    *)
(* could not be constructed keeps the timer from opening another.          *)
StreamAlwaysComesBack == (server = "on" /\ socket = "closed") ~> (socket # "closed")
=============================================================================
