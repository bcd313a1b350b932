--------------------------- MODULE ExchangeClient ---------------------------
(***************************************************************************)
(* How the server reads from and trades on the exchange: the coordinator   *)
(* of info requests (exchange/hyperliquidInfoClient.ts) below the shared   *)
(* promises of exchange/hyperliquidAdapter.ts, which find out once whose   *)
(* account this is and start one trading client.                           *)
(*                                                                         *)
(* A request is known by its key, the payload.  Time is counted in units   *)
(* of the shortest interval between two requests.  The exchange answers,   *)
(* well or badly, within Trip units.                                       *)
(***************************************************************************)
EXTENDS Integers, FiniteSets, Sequences, SequencesExt, FiniteSetsExt

CONSTANTS
  Callers,
  Account,            (* keys that are answered from the account            *)
  High,               (* keys with priority                                 *)
  MaxConcurrency, MaxRetries, MinInterval,
  ResponseCacheTtl,
  Trip,
  MaxCalls, MaxTime,  (* bounds                                             *)
  None

FlightRecord == [pc : {"ready", "queued", "sent", "served", "pausing"}, attempt : Nat, seen : Nat, since : Nat]

(* What the constants are taken to be                                      *)
ClientAssumption ==
  /\ MinInterval \in Nat /\ ResponseCacheTtl \in Nat \ {0} /\ Trip \in Nat /\ MaxTime \in Nat
  /\ None \notin FlightRecord

Role == "userRole"
Keys == Account \cup {Role, "candleSnapshot"}

VARIABLES
  clock,
  trades,         (* on the account                                         *)
  responseCache,  (* of a key: [seen, served, expires]; seen counts trades  *)
  inFlight,       (* of a key: [pc, attempt, seen, since]                   *)
  queue,          (* keys that wait for a slot                              *)
  activeCount,
  nextStart,      (* nextRequestStartAtMs                                   *)
  effectiveUser,  (* unknown, resolving, known, refused                     *)
  tradingClient,  (* none, starting, ready                                  *)
  callers,        (* pc, key, own: its last trade, asked, got, served       *)
  calls

vars == <<clock, trades, responseCache, inFlight, queue, activeCount, nextStart,
          effectiveUser, tradingClient, callers, calls>>
transport == <<responseCache, inFlight, queue, activeCount, nextStart>>

Quiet == [pc |-> "idle", key |-> None, own |-> 0, asked |-> 0, got |-> 0, served |-> 0]

Init ==
  /\ clock = 0 /\ trades = 0
  /\ responseCache = [k \in Keys |-> None] /\ inFlight = [k \in Keys |-> None]
  /\ queue = <<>> /\ activeCount = 0 /\ nextStart = 0
  /\ effectiveUser = "unknown" /\ tradingClient = "none"
  /\ callers = [c \in Callers |-> Quiet] /\ calls = 0

-----------------------------------------------------------------------------
(* Slots and flights                                                       *)

Fresh(k) == responseCache[k] # None /\ responseCache[k].expires > clock

Flight(pc) == [pc |-> pc, attempt |-> 0, seen |-> 0, since |-> clock]

(* A request with priority overtakes all that wait.                        *)
Enqueued(k) == IF k \in High THEN <<k>> \o queue ELSE Append(queue, k)

(* request, when neither the cache nor a flight answers it                 *)
Launch(k) ==
  IF activeCount < MaxConcurrency
  THEN /\ activeCount' = activeCount + 1 /\ UNCHANGED queue
       /\ inFlight' = [inFlight EXCEPT ![k] = Flight("ready")]
  ELSE /\ queue' = Enqueued(k) /\ UNCHANGED activeCount
       /\ inFlight' = [inFlight EXCEPT ![k] = Flight("queued")]

(* request: the result is in the cache, on its way, or must be fetched.    *)
Request(k) ==
  /\ responseCache' = IF Fresh(k) THEN responseCache ELSE [responseCache EXCEPT ![k] = None]
  /\ UNCHANGED nextStart
  /\ IF Fresh(k) \/ inFlight[k] # None THEN UNCHANGED <<inFlight, queue, activeCount>> ELSE Launch(k)

(* Mutant: the slot that becomes free is not passed on. *)
ReleaseOnly(k) ==
  /\ activeCount' = activeCount - 1
  /\ inFlight' = [inFlight EXCEPT ![k] = None] /\ UNCHANGED queue

(* The flight ends and its slot goes to the first that waits.              *)
Release(k) ==
  IF queue = <<>>
  THEN /\ activeCount' = activeCount - 1
       /\ inFlight' = [inFlight EXCEPT ![k] = None] /\ UNCHANGED queue
  ELSE /\ inFlight' = [inFlight EXCEPT ![k] = None, ![Head(queue)].pc = "ready"]
       /\ queue' = Tail(queue) /\ UNCHANGED activeCount

Send(k) ==
  /\ inFlight[k] # None /\ inFlight[k].pc = "ready" /\ (clock >= nextStart \/ clock = MaxTime)
  /\ nextStart' = clock + MinInterval
  /\ inFlight' = [inFlight EXCEPT ![k].pc = "sent", ![k].since = clock]
  /\ UNCHANGED <<clock, trades, responseCache, queue, activeCount, effectiveUser, tradingClient, callers, calls>>

(* The exchange reads what it is asked for; the answer is on its way.      *)
Serve(k) ==
  /\ inFlight[k] # None /\ inFlight[k].pc = "sent"
  /\ inFlight' = [inFlight EXCEPT ![k].pc = "served", ![k].seen = trades, ![k].since = clock]
  /\ UNCHANGED <<clock, trades, responseCache, queue, activeCount, nextStart,
                 effectiveUser, tradingClient, callers, calls>>

Waiting(c, k) == callers[c].pc = "reading" /\ callers[c].key = k

(* Everybody who waits for the key is answered.                            *)
Answered(k, seen, served) ==
  [c \in Callers |-> IF Waiting(c, k) THEN [callers[c] EXCEPT !.pc = "answered", !.got = seen, !.served = served]
                     ELSE callers[c]]
FailedFor(k) ==
  [c \in Callers |-> IF Waiting(c, k) \/ (k = Role /\ callers[c].pc = "resolving")
                     THEN [callers[c] EXCEPT !.pc = "failed"] ELSE callers[c]]

(* Those that waited for the account go on; the pair is a valid one.       *)
Resolved == [c \in Callers |-> IF callers[c].pc = "resolving" THEN [callers[c] EXCEPT !.pc = "resolved"] ELSE callers[c]]

Arrive(k) ==
  /\ inFlight[k] # None /\ inFlight[k].pc = "served"
  /\ responseCache' = [responseCache EXCEPT ![k] =
       [seen |-> inFlight[k].seen, served |-> inFlight[k].since, expires |-> clock + ResponseCacheTtl]]
  /\ Release(k)
  /\ effectiveUser' = IF k = Role THEN "known" ELSE effectiveUser
  /\ callers' = IF k = Role THEN Resolved ELSE Answered(k, inFlight[k].seen, inFlight[k].since)
  /\ UNCHANGED <<clock, trades, nextStart, tradingClient, calls>>

(* 429, 5xx or no connection                                               *)
Retry(k) ==
  /\ inFlight[k] # None /\ inFlight[k].pc = "sent" /\ inFlight[k].attempt < MaxRetries
  /\ inFlight' = [inFlight EXCEPT ![k].pc = "pausing", ![k].attempt = @ + 1]
  /\ UNCHANGED <<clock, trades, responseCache, queue, activeCount, nextStart,
                 effectiveUser, tradingClient, callers, calls>>

Resume(k) ==
  /\ inFlight[k] # None /\ inFlight[k].pc = "pausing"
  /\ inFlight' = [inFlight EXCEPT ![k].pc = "ready"]
  /\ UNCHANGED <<clock, trades, responseCache, queue, activeCount, nextStart,
                 effectiveUser, tradingClient, callers, calls>>

(* The last attempt fails, or an answer that is no use to try again.  The  *)
(* promise of the effective user stays rejected.                           *)
Fail(k) ==
  /\ inFlight[k] # None /\ inFlight[k].pc = "sent"
  /\ Release(k)
  /\ effectiveUser' = IF k = Role THEN "refused" ELSE effectiveUser
  /\ callers' = FailedFor(k)
  /\ UNCHANGED <<clock, trades, responseCache, nextStart, tradingClient, calls>>

-----------------------------------------------------------------------------
(* The adapter                                                             *)

Idle(c) == callers[c].pc \in {"idle", "answered", "failed"} /\ calls < MaxCalls
Calls(c, pc, k) ==
  /\ calls' = calls + 1
  /\ callers' = [callers EXCEPT ![c] = [@ EXCEPT !.pc = pc, !.key = k, !.asked = clock]]

(* resolveEffectiveUser, before everything that is about the account.      *)
ResolveEffectiveUser(c, k) ==
  /\ Idle(c)
  /\ \/ effectiveUser = "known" /\ Calls(c, "resolved", k) /\ UNCHANGED <<transport, effectiveUser>>
     \/ effectiveUser = "refused" /\ Calls(c, "failed", k) /\ UNCHANGED <<transport, effectiveUser>>
     \/ effectiveUser = "resolving" /\ Calls(c, "resolving", k) /\ UNCHANGED <<transport, effectiveUser>>
     \/ /\ effectiveUser = "unknown" /\ effectiveUser' = "resolving"
        /\ Calls(c, "resolving", k) /\ Request(Role)
  /\ UNCHANGED <<clock, trades, tradingClient>>

(* Mutant: what the cache holds is taken however old it is. *)
ReadAnyAge(c, k) ==
  IF responseCache[k] # None
  THEN /\ callers' = [callers EXCEPT ![c].pc = "answered", ![c].key = k, ![c].asked = clock,
                                     ![c].got = responseCache[k].seen, ![c].served = responseCache[k].served]
       /\ UNCHANGED transport
  ELSE /\ Request(k) /\ callers' = [callers EXCEPT ![c].pc = "reading", ![c].key = k, ![c].asked = clock]

(* requestInfo                                                             *)
Read(c, k) ==
  /\ Request(k)
  /\ callers' = [callers EXCEPT ![c] =
       IF Fresh(k) THEN [@ EXCEPT !.pc = "answered", !.key = k, !.asked = clock,
                                  !.got = responseCache[k].seen, !.served = responseCache[k].served]
       ELSE [@ EXCEPT !.pc = "reading", !.key = k, !.asked = clock]]

ReadAccount(c) ==
  /\ callers[c].pc = "resolved" /\ callers[c].key \in Account
  /\ Read(c, callers[c].key)
  /\ UNCHANGED <<clock, trades, effectiveUser, tradingClient, calls>>

(* getCandles asks for no account.                                         *)
GetCandles(c) ==
  /\ Idle(c) /\ calls' = calls + 1
  /\ Read(c, "candleSnapshot")
  /\ UNCHANGED <<clock, trades, effectiveUser, tradingClient>>

(* getTradingClient: one client is started for all that call.              *)
GetTradingClient(c) ==
  /\ callers[c].pc = "resolved" /\ callers[c].key = "order"
  /\ tradingClient' = IF tradingClient = "none" THEN "starting" ELSE tradingClient
  /\ callers' = [callers EXCEPT ![c].pc = IF tradingClient = "ready" THEN "placing" ELSE "connecting"]
  /\ UNCHANGED <<clock, trades, transport, effectiveUser, calls>>

Connected(ok) ==
  /\ tradingClient = "starting"
  /\ tradingClient' = IF ok THEN "ready" ELSE "none"
  /\ callers' = [c \in Callers |-> IF callers[c].pc # "connecting" THEN callers[c]
                                   ELSE [callers[c] EXCEPT !.pc = IF ok THEN "placing" ELSE "failed"]]
  /\ UNCHANGED <<clock, trades, transport, effectiveUser, calls>>

(* An order that is filled at once                                         *)
Place(c) ==
  /\ callers[c].pc = "placing"
  /\ trades' = trades + 1
  /\ callers' = [callers EXCEPT ![c].pc = "idle", ![c].own = trades + 1]
  /\ UNCHANGED <<clock, transport, effectiveUser, tradingClient, calls>>

Tick ==
  /\ clock < MaxTime
  /\ \A k \in Keys : inFlight[k] # None /\ inFlight[k].pc \in {"sent", "served"} => clock - inFlight[k].since < Trip
  /\ clock' = clock + 1
  /\ UNCHANGED <<trades, transport, effectiveUser, tradingClient, callers, calls>>

Next ==
  \/ \E k \in Keys : Send(k) \/ Serve(k) \/ Arrive(k) \/ Retry(k) \/ Resume(k) \/ Fail(k)
  \/ \E c \in Callers :
       \/ \E k \in Account \cup {"order"} : ResolveEffectiveUser(c, k)
       \/ GetCandles(c) \/ ReadAccount(c) \/ GetTradingClient(c) \/ Place(c)
  \/ \E ok \in BOOLEAN : Connected(ok)
  \/ Tick

(* Timers fire, promises go on, and the exchange answers: fetch has a      *)
(* timeout.                                                                *)
Progress ==
  /\ \A k \in Keys : /\ WF_vars(Send(k)) /\ WF_vars(Resume(k))
                     /\ WF_vars(Serve(k) \/ Retry(k) \/ Fail(k)) /\ WF_vars(Arrive(k))
  /\ \A c \in Callers : WF_vars(ReadAccount(c)) /\ WF_vars(GetTradingClient(c)) /\ WF_vars(Place(c))
  /\ WF_vars(\E ok \in BOOLEAN : Connected(ok))

Fairness == Progress /\ WF_vars(Tick)

Spec == Init /\ [][Next]_vars /\ Fairness

-----------------------------------------------------------------------------
(* Properties                                                              *)

Holding == {k \in Keys : inFlight[k] # None /\ inFlight[k].pc # "queued"}

(* Slots are handed from flight to flight, in three different ways: never  *)
(* are more taken than there are, none is lost, and nobody waits while one *)
(* is free.                                                                *)
SlotsAreUsed ==
  /\ activeCount = Cardinality(Holding) /\ activeCount <= MaxConcurrency
  /\ queue # <<>> => activeCount = MaxConcurrency
  /\ IsInjective(queue) /\ Range(queue) = {k \in Keys : inFlight[k] # None} \ Holding

(* Whichever of cache, shared flight or own flight answers: what a caller  *)
(* gets was true on the exchange not much earlier than it asked.           *)
AnswersAreRecent ==
  \A c \in Callers : callers[c].pc = "answered" => callers[c].served + Trip + ResponseCacheTtl > callers[c].asked

(* Whoever calls is answered or told of a failure, whatever it had to wait *)
(* for.                                                                    *)
CallsEnd ==
  \A c \in Callers : (callers[c].pc \notin {"idle", "answered", "failed"}) ~>
                     (callers[c].pc \in {"idle", "answered", "failed"})

(* hyperliquidAdapter.ts:1191: "Reset the cached promise on failure so     *)
(* subsequent calls can retry" is what the trading client does.  An        *)
(* account that is there is found in the end.  Does not hold: the promise  *)
(* of the effective user is kept when one request fails.                   *)
AccountIsFound == (effectiveUser = "refused") ~> (effectiveUser = "known")

(* hyperliquidInfoClient.ts:17: "Short response cache".  Who has traded    *)
(* then reads an account with the trade.  Does not hold.                   *)
SeesOwnTrade == \A c \in Callers :
  callers[c].pc = "answered" /\ callers[c].key \in Account => callers[c].got >= callers[c].own
=============================================================================
