----------------------------- MODULE ServerEdges ----------------------------
(***************************************************************************)
(* What the server has between itself and the world: the info client with  *)
(* its adapter (Client), the stream of mid prices (Stream), the views of   *)
(* positions and open orders (Views), the trading rules as they are cached *)
(* and exported (Rules), the signals sent to it (Signals), the messages it *)
(* sends (Outbox), and the rule engine (Engine).  None of them reads the   *)
(* state of another, so a behaviour is one of one part; the others stay as *)
(* they started.  Only the clock is shared.                                *)
(***************************************************************************)
EXTENDS Integers, FiniteSets

CONSTANTS
  (* Client *)
  Callers, Account, High, MaxConcurrency, MaxRetries, MinInterval, ResponseCacheTtl, MaxCalls, MaxClientTime,
  (* Stream; Trip is the client's as well *)
  BackoffInitial, BackoffMax, Stale, Trip, MaxFetches, MaxStreamTime,
  (* Views *)
  Markets, OrderTypes, ExtraDexes, DiscoveryTtl, Entry, Offsets, MaxOrders, MaxViewTime,
  (* Rules *)
  Coins, Saves, Interval, MaxRuleTime,
  (* Signals *)
  Contents, CoinOf, Senders, DedupWindow, HistoryLimit, MaxSignals, MaxSignalTime,
  (* Outbox *)
  Msgs, Key, MaxSends, Batch, Limit, MaxTroubles,
  (* Engine *)
  Cycles, RuleCount, Tier, Cooldown, Attempts, Pauses, Timed, Unregistered, Ttl, MaxCycleTime,
  None

VARIABLES
  part, clock,
  trades, responseCache, inFlight, queue, activeCount, nextStart, effectiveUser, tradingClient, callers, calls,
  server, socket, handle, reconnect, backoff, fallback, tick, fetches, ingestBusy, failed, threw, passed,
  positions, filled, orders, known, seen,
  rules, disabled, cached, refreshed, exported, saves, unread, strayed,
  signals, received, senders, pendings, handed,
  backend, mem, stored, reader, rl, sending, linked, used, delivered, troubles,
  lastFired, actionLog, cycles, fired, done

client == <<trades, responseCache, inFlight, queue, activeCount, nextStart, effectiveUser, tradingClient, callers,
            calls>>
stream == <<server, socket, handle, reconnect, backoff, fallback, tick, fetches, ingestBusy, failed, threw, passed>>
views  == <<positions, filled, orders, known, seen>>
book   == <<rules, disabled, cached, refreshed, exported, saves, unread, strayed>>
inbox  == <<signals, received, senders, pendings, handed>>
outbox == <<backend, mem, stored, reader, rl, sending, linked, used, delivered, troubles>>
engine == <<lastFired, actionLog, cycles, fired, done>>
vars   == <<part, clock, client, stream, views, book, inbox, outbox, engine>>

Client  == INSTANCE ExchangeClient WITH MaxTime <- MaxClientTime
Stream  == INSTANCE MarketStream WITH MaxTime <- MaxStreamTime
Views   == INSTANCE AccountViews WITH MaxTime <- MaxViewTime
Rules   == INSTANCE RuntimeRules WITH MaxTime <- MaxRuleTime
Signals == INSTANCE RadarSignals WITH MaxTime <- MaxSignalTime
Outbox  == INSTANCE TelegramOutbox WITH MaxAttempts <- MaxSends, worker <- reader
Engine  == INSTANCE RuleEngine WITH MaxAttempts <- Attempts, Backoff <- Pauses, MaxTime <- MaxCycleTime

ASSUME ClientIsSound  == Client!ClientAssumption
ASSUME StreamIsSound  == Stream!StreamAssumption
ASSUME ViewsAreSound  == Views!ViewsAssumption
ASSUME RulesAreSound  == Rules!RulesAssumption
ASSUME SignalsAreSound == Signals!SignalsAssumption
ASSUME OutboxIsSound  == Outbox!OutboxAssumption
ASSUME EngineIsSound  == Engine!EngineAssumption

Init ==
  /\ part \in {"client", "stream", "views", "rules", "signals", "outbox", "engine"}
  /\ Client!Init /\ Stream!Init /\ Views!Init /\ Rules!Init /\ Signals!Init /\ Outbox!Init /\ Engine!Init
  /\ part # "outbox" => backend = "lowdb"

InClient(A) == part = "client" /\ A /\ UNCHANGED <<part, stream, views, book, inbox, outbox, engine>>
Next ==
  \/ InClient(Client!Next)
  \/ part = "stream" /\ Stream!Next /\ UNCHANGED <<part, client, views, book, inbox, outbox, engine>>
  \/ part = "views" /\ Views!Next /\ UNCHANGED <<part, client, stream, book, inbox, outbox, engine>>
  \/ part = "rules" /\ Rules!Next /\ UNCHANGED <<part, client, stream, views, inbox, outbox, engine>>
  \/ part = "signals" /\ Signals!Next /\ UNCHANGED <<part, client, stream, views, book, outbox, engine>>
  \/ part = "outbox" /\ Outbox!Next /\ UNCHANGED <<part, clock, client, stream, views, book, inbox, engine>>
  \/ part = "engine" /\ Engine!Next /\ UNCHANGED <<part, client, stream, views, book, inbox, outbox>>

(* That of the parts; the clock goes on where answers depend on it.        *)
Fairness == Client!Progress /\ WF_vars(InClient(Client!Tick)) /\ Stream!Fairness /\ Outbox!Fairness

Spec == Init /\ [][Next]_vars /\ Fairness

-----------------------------------------------------------------------------
(* Properties                                                              *)

(* ExchangeClient, MarketStream: an answer was true not much earlier than  *)
(* it was asked, and an order passes the gate on a price as young.         *)
ReadsAreRecent ==
  /\ part = "client" => Client!AnswersAreRecent
  /\ part = "stream" => Stream!GateIsFresh
(* ExchangeClient: whoever calls is answered or told of a failure.         *)
CallsEnd == Client!CallsEnd

(* MarketStream: a server that is up is connected or going to be.          *)
StreamIsTended == part = "stream" => Stream!StreamIsTended
(* AccountViews: only positions on a dex that is new, or after a failed    *)
(* discovery, are missed.                                                  *)
OldPositionsAreSeen == part = "views" => Views!OldPositionsAreSeen
(* AccountViews: levels of a short mirror those of a long.                 *)
LevelsAreMirrored == part = "views" => Views!LevelsAreMirrored

(* RuntimeRules: what trades is what is stored, but for a stated delay.    *)
RulesGovern == part = "rules" => Rules!RulesGovern
(* RadarSignals: one of two equal signals is handed off, and every signal  *)
(* of a confirmation hears its outcome.                                    *)
SignalsAreHandedOnce == part = "signals" => Signals!HandedOffOnce /\ Signals!OutcomesAreHeard

(* TelegramOutbox: a message is sent once and once more for each trouble,  *)
(* and of two with one key only one.                                       *)
DeliveredOnce == part = "outbox" => Outbox!OncePerTrouble /\ Outbox!OneMessagePerKey
(* TelegramOutbox: a queued message leaves memory only for the limit, and  *)
(* every one that is queued is sent or given up.                           *)
QueuedIsHandled == Outbox!QueuedIsKept /\ Outbox!QueuedIsHandled

(* RuleEngine: a rule waits for its cooldown, and no action runs twice     *)
(* under a key unless cycles overlap.                                      *)
FiringsAreSpaced == part = "engine" => Engine!FiringsAreSpaced /\ Engine!TwiceOnlyIfOverlapping
=============================================================================
