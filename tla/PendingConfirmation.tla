------------------------ MODULE PendingConfirmation ------------------------
(***************************************************************************)
(* Manual mode: an entry signal becomes a pending confirmation, the owner  *)
(* is told of it on Telegram, and confirms or rejects it on the dashboard  *)
(* or by a Telegram command; a confirmation places an order, verifies the  *)
(* position, removes the pending and places TP/SL.                         *)
(*                                                                         *)
(* Everything runs in one Node process: the code between two awaits is one *)
(* step, and any other callback can run in between.  db.write() lands in a *)
(* later step; writes land in order, so the stored state is the memory of  *)
(* some moment after the call.  Compute jobs share the snapshot: they read *)
(* all of it, and a worker writes it back, and a poll's reload puts it in  *)
(* the place of the memory.  Telegram delivers an update again until it is *)
(* acknowledged by the offset of a later getUpdates.                       *)
(***************************************************************************)
EXTENDS Integers, Sequences, FiniteSets

CONSTANTS
  Backend,       (* persistence/index.ts: "lowdb" or "postgres"             *)
  Symbols,
  Sides,         (* long and short: what a signal says of a symbol          *)
  Dashboards,    (* confirm and reject requests of the dashboard            *)
  Telegram,      (* the one request runTelegramUpdateTick can be serving    *)
  Monitors,      (* engulfing monitor, fvg monitor, radar ingest, listing   *)
  MaxSignals,    (* bound: signals that become a pending                    *)
  MaxUpdates,    (* bound: Telegram updates                                 *)
  MaxTrouble,    (* bound: timeouts, failed sends and crashes               *)
  MaxFills,      (* bound: entry orders accepted for one signal             *)
  MaxCopies      (* bound: reads of the snapshot for compute jobs           *)

ASSUME PendingAssumption ==
  /\ IsFiniteSet(Dashboards) /\ Telegram \notin Dashboards
  /\ Backend \in {"lowdb", "postgres"}
  /\ {MaxSignals, MaxUpdates, MaxTrouble, MaxFills, MaxCopies} \subseteq Nat

Requests  == Dashboards \cup {Telegram}
Born      == 1..MaxSignals
UnknownId == 0
Flat      == "flat"
Nothing   == "nothing"

VARIABLES
  mem,        (* db.data: pending list, signal_detected events, the offset  *)
  disk,       (* what the store holds                                       *)
  copy,       (* the snapshot that a compute job's worker or poll has read  *)
  copies,     (* how often one has been read                                *)
  born,       (* pendings made so far; createdAt of the youngest            *)
  expired,    (* pendings born up to it are older than the TTL              *)
  mon,        (* monitor -> its pass over one symbol                        *)
  req,        (* request -> its run of execute- or rejectPendingConfirmation*)
  tg,         (* runTelegramUpdateTick                                      *)
  inbox,      (* all updates Telegram got for the bot                       *)
  pos,        (* exchange: symbol -> side of the open position, or Flat     *)
  stops,      (* exchange: symbols whose position has TP/SL                 *)
  fills,      (* signal -> entry orders the exchange has accepted for it    *)
  answered,   (* signals whose confirmation or rejection is stored          *)
  trouble     (* timeouts, failed sends, lost positions and crashes so far  *)

clocks   == <<born, expired>>
jobs     == <<copy, copies>>
exchange == <<pos, stops, fills>>
vars     == <<mem, disk, jobs, clocks, mon, req, tg, inbox, exchange, answered, trouble>>

Pending == [id: Born, sym: Symbols, side: Sides, born: Born]
Data    == [pend: SUBSET Pending, events: SUBSET Pending, offset: 0..MaxUpdates]
Command == [cmd: {"confirm", "reject"}, id: Born \cup {UnknownId}]

NoPass == [pc |-> "idle", sym |-> Nothing, side |-> Nothing]
NoRun  == [pc |-> "idle", p |-> {}, attempt |-> 1]
NoTick == [pc |-> "idle", at |-> 0, upto |-> 0]
Empty  == [pend |-> {}, events |-> {}, offset |-> 0]

(* The pending a request holds: a reference to the object it found, which  *)
(* a later replacement in the list does not change.                        *)
Held(r) == CHOOSE p \in req[r].p : TRUE

-----------------------------------------------------------------------------
(* prunePendingConfirmations                                               *)
Pruned(pend) == {p \in pend : p.born > expired}

(* resolvePending: the pending with this id; else the one pending with the *)
(* symbol, side and strategy of the youngest signal_detected event of this *)
(* id; else, for an id without event, the only pending there is.           *)
Single(S) == IF Cardinality(S) = 1 THEN S ELSE {}
Resolve(data, id) ==
  LET exact == {p \in data.pend : p.id = id}
      heard == {e \in data.events : e.id = id}
      last  == CHOOSE e \in heard : \A f \in heard : f.born <= e.born
  IN  IF exact # {} THEN exact
      ELSE IF heard = {} THEN Single(data.pend)
      ELSE Single({p \in data.pend : p.sym = last.sym /\ p.side = last.side})

Remove(data, id) == [data EXCEPT !.pend = {p \in @ : p.id # id}]

-----------------------------------------------------------------------------
(* Signals: a monitor's pass over one symbol, and queuePendingConfirmation *)

Pass(m, pc, sym, side) == mon' = [mon EXCEPT ![m] = [pc |-> pc, sym |-> sym, side |-> side]]
Passed(m)   == mon' = [mon EXCEPT ![m] = NoPass]
MonitorOnly == UNCHANGED <<disk, jobs, expired, req, tg, inbox, exchange, answered, trouble>>

(* The monitor reads the open positions: a symbol with one has its pending *)
(* cleared.  A signal may come up for a symbol without one (radar ingest   *)
(* does not read them), and the position may open before it is queued.     *)
MonitorScan(m, sym) ==
  /\ mon[m].pc = "idle"
  /\ \/ /\ pos[sym] # Flat
        /\ \E p \in mem.pend : p.sym = sym
        /\ Pass(m, "held", sym, Nothing)
     \/ /\ born < MaxSignals
        /\ \E side \in Sides : Pass(m, "bias", sym, side)
  /\ UNCHANGED <<mem, born>> /\ MonitorOnly

(* clearPendingConfirmationForSymbol                                       *)
MonitorClear(m) ==
  /\ mon[m].pc = "held"
  /\ mem' = [mem EXCEPT !.pend = {p \in @ : p.sym # mon[m].sym}]
  /\ Passed(m)
  /\ UNCHANGED born /\ MonitorOnly

(* getOperatorBias() has answered: the signal's direction is blocked.      *)
QueueBlocked(m) ==
  /\ mon[m].pc = "bias"
  /\ Passed(m)
  /\ UNCHANGED <<mem, born>> /\ MonitorOnly

(* Mutant: what to replace is looked up before the bias is awaited, so a   *)
(* pending that came up meanwhile is not seen.                             *)
QueueCommitStale(m) ==
  /\ mon[m].pc = "bias"
  /\ born < MaxSignals
  /\ born' = born + 1
  /\ LET next == [id |-> born', sym |-> mon[m].sym, side |-> mon[m].side, born |-> born']
     IN  mem' = [mem EXCEPT !.pend = Pruned(@) \cup {next}, !.events = @ \cup {next}]
  /\ Passed(m)
  /\ MonitorOnly

(* The bias allows it: prune, then drop a duplicate of the last 60 s (any  *)
(* pending of the same side may be that young), or replace the symbol's    *)
(* pending, keeping its id, or append.                                     *)
QueueCommit(m) ==
  LET sym  == mon[m].sym
      side == mon[m].side
      list == Pruned(mem.pend)
      old  == {p \in list : p.sym = sym}
      id   == IF old = {} THEN born + 1 ELSE (CHOOSE p \in old : TRUE).id
      next == [id |-> id, sym |-> sym, side |-> side, born |-> born + 1]
  IN
  /\ mon[m].pc = "bias"
  /\ \/ /\ \E p \in old : p.side = side
        /\ mem' = [mem EXCEPT !.pend = list]
        /\ UNCHANGED born
     \/ /\ born < MaxSignals
        /\ born' = born + 1
        /\ mem' = [mem EXCEPT !.pend = (list \ old) \cup {next},
                              !.events = @ \cup {next}]
  /\ Passed(m)
  /\ MonitorOnly

(* notifyPendingConfirmationTelegram: the outbox takes one message per     *)
(* dedupeKey, which is made of the id, so the side the owner is told is    *)
(* that of the first signal with the id.                                   *)
ToldSide(data, id) ==
  LET heard == {e \in data.events : e.id = id}
  IN  (CHOOSE e \in heard : \A f \in heard : e.born <= f.born).side

(* loadPendingConfirmations, for the dashboard or the /pending command.    *)
ListPending ==
  /\ Pruned(mem.pend) # mem.pend
  /\ mem' = [mem EXCEPT !.pend = Pruned(@)]
  /\ UNCHANGED <<born, mon>> /\ MonitorOnly

(* The row of postgres is merged with what is written: by id, the younger  *)
(* pending of two, so that an id in the row is never missing afterwards.   *)
(* The file of lowdb is overwritten.                                       *)
MergeById(current, local) ==
  {p \in current \cup local : \A q \in current \cup local : q.id = p.id => q.born <= p.born}
Merged(local) == IF Backend = "lowdb" THEN local
                 ELSE [local EXCEPT !.pend = MergeById(disk.pend, @)]

(* A db.write() of the server lands; what was merged is its memory too.    *)
Flush == disk' = Merged(mem) /\ mem' = disk'

(* Every change of the list is followed by db.write(), which lands later   *)
(* and stores what the memory holds then.                                  *)
WriteLands ==
  /\ disk # mem
  /\ Flush
  /\ UNCHANGED <<jobs, clocks, mon, req, tg, inbox, exchange, answered, trouble>>

(* A worker of a compute job, or the reload() of a poll, reads the store.  *)
CopyRead ==
  /\ copy = {}
  /\ copies < MaxCopies /\ copies' = copies + 1
  /\ copy' = {disk}
  /\ UNCHANGED <<mem, disk, clocks, mon, req, tg, inbox, exchange, answered, trouble>>

(* The worker flushes its copy ...                                         *)
CopyFlushed ==
  /\ \E local \in copy : disk' = Merged(local)
  /\ copy' = {}
  /\ UNCHANGED <<mem, copies, clocks, mon, req, tg, inbox, exchange, answered, trouble>>

(* ... or the reload is done.                                              *)
CopyLoaded ==
  /\ mem' \in copy
  /\ copy' = {}
  /\ UNCHANGED <<disk, copies, clocks, mon, req, tg, inbox, exchange, answered, trouble>>

-----------------------------------------------------------------------------
(* executePendingConfirmation and rejectPendingConfirmation                *)

Run(r, pc)  == req' = [req EXCEPT ![r].pc = pc]
Hold(r, pc, S) == req' = [req EXCEPT ![r] = [NoRun EXCEPT !.pc = pc, !.p = S]]
ServerOnly  == UNCHANGED <<jobs, clocks, mon, inbox>>

(* It returns: the dashboard gets its answer, Telegram's tick goes on.     *)
Done(r) == IF r = Telegram THEN NoRun ELSE [NoRun EXCEPT !.pc = "done"]
Return(r) ==
  /\ req' = [req EXCEPT ![r] = Done(r)]
  /\ tg' = IF r = Telegram THEN [tg EXCEPT !.pc = "reply"] ELSE tg

(* Mutant: an exception leaves telegramUpdateBusy set.                     *)
ThrowBusy(r) ==
  /\ req' = [req EXCEPT ![r] = Done(r)]
  /\ tg' = IF r = Telegram THEN [tg EXCEPT !.pc = "busy"] ELSE tg

(* It throws: an unhandled rejection for the dashboard, the end of the     *)
(* tick, with its offset unsaved, for Telegram.                            *)
Throw(r) ==
  /\ req' = [req EXCEPT ![r] = Done(r)]
  /\ tg' = IF r = Telegram THEN NoTick ELSE tg

Trouble == trouble < MaxTrouble /\ trouble' = trouble + 1

(* The synchronous part: find the pending, append an event.  Nothing is    *)
(* checked again, neither the risk gates, the lock, nor the position.      *)
ConfirmStart(r, id) ==
  /\ req[r].pc = "idle"
  /\ Resolve(mem, id) # {}
  /\ Hold(r, "leverage", Resolve(mem, id))
  /\ UNCHANGED mem

(* A reject goes by the exact id.                                          *)
RejectStart(r, id) ==
  /\ req[r].pc = "idle"
  /\ \E p \in mem.pend : p.id = id
  /\ Hold(r, "rejecting", {p \in mem.pend : p.id = id})
  /\ mem' = Remove(mem, id)

DashboardRequest(r, id) ==
  /\ r \in Dashboards
  /\ ConfirmStart(r, id) \/ RejectStart(r, id)
  /\ UNCHANGED <<disk, tg, exchange, answered, trouble>> /\ ServerOnly

(* setLeverage: done, refused, or timed out.                               *)
SetLeverage(r) ==
  /\ req[r].pc = "leverage"
  /\ \/ Run(r, "place") /\ UNCHANGED <<tg, trouble>>
     \/ Run(r, "refused") /\ UNCHANGED <<tg, trouble>>
     \/ Throw(r) /\ Trouble
  /\ UNCHANGED <<mem, disk, exchange, answered>> /\ ServerOnly

(* The exchange accepts the order: the position opens, grows, or nets out. *)
(* The client order id is the same each time a pending is confirmed; the   *)
(* code does not rely on the venue to refuse it, and the model neither.    *)
Accept(p) ==
  LET after == IF pos[p.sym] \in {Flat, p.side} THEN {p.side}
               ELSE {Flat, p.side, pos[p.sym]}
  IN
  /\ fills[p.born] < MaxFills
  /\ fills' = [fills EXCEPT ![p.born] = @ + 1]
  /\ \E now \in after :
       /\ pos' = [pos EXCEPT ![p.sym] = now]
       /\ stops' = IF now = pos[p.sym] THEN stops ELSE stops \ {p.sym}

(* placeLimitOrder: accepted, refused for the margin (once more with the   *)
(* size the venue has room for), refused, or timed out, and then accepted  *)
(* or not.                                                                 *)
PlaceOrder(r) ==
  /\ req[r].pc = "place"
  /\ \/ /\ Accept(Held(r))
        /\ Run(r, "verify")
        /\ UNCHANGED <<tg, trouble>>
     \/ /\ req[r].attempt = 1
        /\ req' = [req EXCEPT ![r].attempt = 2]
        /\ UNCHANGED <<tg, exchange, trouble>>
     \/ /\ Run(r, "refused")
        /\ UNCHANGED <<tg, exchange, trouble>>
     \/ /\ Throw(r) /\ Trouble
        /\ Accept(Held(r)) \/ UNCHANGED exchange
  /\ UNCHANGED <<mem, disk, answered>> /\ ServerOnly

(* waitForVerifiedOpenPosition: it sees a position of the signal's side,   *)
(* or sees none, or cannot read, until its timeout.                        *)
Verify(r) ==
  /\ req[r].pc = "verify"
  /\ \/ /\ pos[Held(r).sym] = Held(r).side
        /\ Run(r, "placed")
        /\ UNCHANGED <<tg, trouble>>
     \/ /\ pos[Held(r).sym] # Held(r).side
        /\ Throw(r)
        /\ trouble' = trouble + 1
     \/ Throw(r) /\ Trouble
  /\ UNCHANGED <<mem, disk, exchange, answered>> /\ ServerOnly

(* Mutant: the pending stays in the list.                                  *)
AcknowledgeKept(r) ==
  /\ req[r].pc = "placed"
  /\ Run(r, "acking")
  /\ UNCHANGED <<mem, disk, tg, exchange, answered, trouble>> /\ ServerOnly

(* The pending with the id of the one held is removed.                     *)
Acknowledge(r) ==
  /\ req[r].pc = "placed"
  /\ mem' = Remove(mem, Held(r).id)
  /\ Run(r, "acking")
  /\ UNCHANGED <<disk, tg, exchange, answered, trouble>> /\ ServerOnly

(* Mutant: the answer does not wait for the write.                         *)
AnswerUnwritten(r) ==
  /\ req[r].pc \in {"acking", "rejecting"}
  /\ answered' = answered \cup {Held(r).born}
  /\ IF req[r].pc = "acking" THEN Run(r, "protect") /\ UNCHANGED tg ELSE Return(r)
  /\ UNCHANGED <<mem, disk, exchange, trouble>> /\ ServerOnly

(* The write of a confirmation or of a rejection has landed.               *)
AnswerLanded(r) ==
  /\ req[r].pc \in {"acking", "rejecting"}
  /\ Flush
  /\ answered' = answered \cup {Held(r).born}
  /\ IF req[r].pc = "acking" THEN Run(r, "protect") /\ UNCHANGED tg ELSE Return(r)
  /\ UNCHANGED <<exchange, trouble>> /\ ServerOnly

(* The write after a refused order has landed; the pending stays.          *)
RefusalLanded(r) ==
  /\ req[r].pc = "refused"
  /\ Flush
  /\ Return(r)
  /\ UNCHANGED <<exchange, answered, trouble>> /\ ServerOnly

(* Mutant: the position that was verified is not protected.                *)
ProtectNothing(r) ==
  /\ req[r].pc = "protect"
  /\ Return(r)
  /\ UNCHANGED <<mem, disk, exchange, answered, trouble>> /\ ServerOnly

(* placeTpSlTriggerOrders; its failure is logged, and nothing repeats it.  *)
Protect(r) ==
  /\ req[r].pc = "protect"
  /\ \/ /\ stops' = IF pos[Held(r).sym] = Flat THEN stops ELSE stops \cup {Held(r).sym}
        /\ UNCHANGED trouble
     \/ Trouble /\ UNCHANGED stops
  /\ Return(r)
  /\ UNCHANGED <<mem, disk, pos, fills, answered>> /\ ServerOnly

RequestStep(r) ==
  \/ SetLeverage(r)
  \/ PlaceOrder(r)
  \/ Verify(r)
  \/ Acknowledge(r)
  \/ AnswerLanded(r)
  \/ RefusalLanded(r)
  \/ Protect(r)

-----------------------------------------------------------------------------
(* runTelegramUpdateTick; its busy flag is tg.pc # "idle"                  *)

TickOnly == UNCHANGED <<exchange, answered>> /\ ServerOnly

(* getUpdates returns what lies behind the offset.                         *)
TelegramPoll ==
  /\ tg.pc = "idle"
  /\ mem.offset < Len(inbox)
  /\ tg' = [pc |-> "handle", at |-> mem.offset, upto |-> Len(inbox)]
  /\ UNCHANGED <<mem, disk, req, trouble>> /\ TickOnly

(* The next update of the batch: a confirmation or rejection is awaited,   *)
(* one that finds nothing is answered at once.                             *)
TelegramHandle ==
  LET u == inbox[tg.at + 1] IN
  /\ tg.pc = "handle"
  /\ tg.at < tg.upto
  /\ CASE u.cmd = "confirm" /\ Resolve(mem, u.id) # {} ->
            ConfirmStart(Telegram, u.id) /\ tg' = [tg EXCEPT !.pc = "serving"]
       [] u.cmd = "reject" /\ (\E p \in mem.pend : p.id = u.id) ->
            RejectStart(Telegram, u.id) /\ tg' = [tg EXCEPT !.pc = "serving"]
       [] OTHER ->
            tg' = [tg EXCEPT !.pc = "reply"] /\ UNCHANGED <<req, mem>>
  /\ UNCHANGED <<disk, trouble>> /\ TickOnly

(* sendTelegramText; if it fails the tick is over, with its offset unsaved *)
TelegramReply ==
  /\ tg.pc = "reply"
  /\ \/ tg' = [tg EXCEPT !.pc = "handle", !.at = @ + 1] /\ UNCHANGED trouble
     \/ tg' = NoTick /\ Trouble
  /\ UNCHANGED <<mem, disk, req>> /\ TickOnly

TelegramSave ==
  /\ tg.pc = "handle"
  /\ tg.at = tg.upto
  /\ mem' = [mem EXCEPT !.offset = tg.upto]
  /\ tg' = [tg EXCEPT !.pc = "saving"]
  /\ UNCHANGED <<disk, req, trouble>> /\ TickOnly

TelegramSaved ==
  /\ tg.pc = "saving"
  /\ Flush
  /\ tg' = NoTick
  /\ UNCHANGED <<req, trouble>> /\ TickOnly

TelegramStep ==
  TelegramPoll \/ TelegramHandle \/ TelegramReply \/ TelegramSave \/ TelegramSaved

-----------------------------------------------------------------------------
(* The world around                                                        *)

(* The owner answers a pending he was shown, or types an unknown id.       *)
OwnerPresses ==
  /\ Len(inbox) < MaxUpdates
  /\ \E cmd \in {"confirm", "reject"}, id \in 0..born :
       inbox' = Append(inbox, [cmd |-> cmd, id |-> id])
  /\ UNCHANGED <<mem, disk, jobs, clocks, mon, req, tg, exchange, answered, trouble>>

TimePasses ==
  /\ expired < born
  /\ expired' = expired + 1
  /\ UNCHANGED <<mem, disk, jobs, born, mon, req, tg, inbox, exchange, answered, trouble>>

(* TP, SL or the owner closes a position; its reduce-only orders go too.   *)
PositionCloses(sym) ==
  /\ pos[sym] # Flat
  /\ pos' = [pos EXCEPT ![sym] = Flat]
  /\ stops' = stops \ {sym}
  /\ UNCHANGED <<mem, disk, jobs, clocks, mon, req, tg, inbox, fills, answered, trouble>>

(* The process dies: whatever was awaited is gone, the store is read back. *)
Crash ==
  /\ Trouble
  /\ mem' = disk
  /\ mon' = [m \in Monitors |-> NoPass]
  /\ req' = [r \in Requests |-> IF req[r].pc = "idle" THEN NoRun ELSE Done(r)]
  /\ tg' = NoTick
  /\ UNCHANGED <<disk, jobs, clocks, inbox, exchange, answered>>

Init ==
  /\ mem = Empty /\ disk = Empty
  /\ copy = {} /\ copies = 0
  /\ born = 0 /\ expired = 0
  /\ mon = [m \in Monitors |-> NoPass]
  /\ req = [r \in Requests |-> NoRun]
  /\ tg = NoTick
  /\ inbox = <<>>
  /\ pos = [s \in Symbols |-> Flat]
  /\ stops = {} /\ answered = {}
  /\ fills = [b \in Born |-> 0]
  /\ trouble = 0

MonitorStep(m) ==
  \/ MonitorClear(m)
  \/ QueueBlocked(m)
  \/ QueueCommit(m)

Next ==
  \/ \E m \in Monitors :
       \/ \E sym \in Symbols : MonitorScan(m, sym)
       \/ MonitorStep(m)
  \/ ListPending
  \/ WriteLands
  \/ CopyRead
  \/ CopyFlushed
  \/ CopyLoaded
  \/ \E r \in Requests :
       \/ \E id \in 0..born : DashboardRequest(r, id)
       \/ RequestStep(r)
  \/ TelegramStep
  \/ OwnerPresses
  \/ TimePasses
  \/ \E sym \in Symbols : PositionCloses(sym)
  \/ Crash

Spec == Init /\ [][Next]_vars

(* What is awaited answers or times out, and the tick's timer goes on.     *)
Fairness ==
  /\ \A r \in Requests : WF_vars(RequestStep(r))
  /\ WF_vars(TelegramStep)

FairSpec == Spec /\ Fairness

-----------------------------------------------------------------------------
(* Properties                                                              *)

(* Every variable has its type (the shapes of PendingConfirmation, the     *)
(* pcs of the awaits), and a request beyond its start holds one pending.   *)
TypeOK ==
  /\ mem \in Data /\ disk \in Data
  /\ copy \subseteq Data /\ Cardinality(copy) <= 1 /\ copies \in 0..MaxCopies
  /\ born \in 0..MaxSignals /\ expired \in 0..born
  /\ mon \in [Monitors -> [pc: {"idle", "held", "bias"},
                           sym: Symbols \cup {Nothing}, side: Sides \cup {Nothing}]]
  /\ req \in [Requests -> [pc: {"idle", "leverage", "place", "verify", "placed", "acking",
                                "refused", "protect", "rejecting", "done"},
                           p: SUBSET Pending, attempt: {1, 2}]]
  /\ \A r \in Requests : req[r].pc \notin {"idle", "done"} => Cardinality(req[r].p) = 1
  /\ tg \in [pc: {"idle", "handle", "serving", "reply", "saving"},
             at: 0..MaxUpdates, upto: 0..MaxUpdates]
  /\ inbox \in Seq(Command) /\ Len(inbox) <= MaxUpdates
  /\ pos \in [Symbols -> Sides \cup {Flat}]
  /\ stops \subseteq {s \in Symbols : pos[s] # Flat}
  /\ fills \in [Born -> 0..MaxFills]
  /\ answered \subseteq Born
  /\ trouble \in Nat

(* A symbol has at most one pending, in memory and in the store, although  *)
(* several monitors queue at once and each awaits the operator bias first. *)
OnePendingPerSymbol ==
  \A data \in {mem, disk} : \A p, q \in data.pend : p.sym = q.sym => p = q

(* As long as no compute job was at the snapshot, a signal that the owner  *)
(* confirmed or rejected, and whose answer was stored, is never pending    *)
(* again: no crash, late write of another request or redelivered update    *)
(* brings it back to be entered once more.                                 *)
AnsweredStaysAnswered ==
  copies = 0 => \A p \in mem.pend \cup disk.pend : p.born \notin answered

(* A signal is entered once for each request that can run at the same time *)
(* and once more for each timeout, failed send, lost position, crash or    *)
(* compute job's copy, and no more: one after another, answers do not      *)
(* enter it twice.                                                         *)
ReentryNeedsTrouble ==
  \A b \in Born : fills[b] <= Cardinality(Requests) + trouble + copies

(* Where nothing timed out, failed or crashed, a position that requests    *)
(* opened and then left alone has its TP/SL.                               *)
EntriesAreProtected ==
  trouble = 0 /\ (\A r \in Requests : req[r].pc \in {"idle", "done"})
    => \A s \in Symbols : pos[s] # Flat => s \in stops

(* Every update is acknowledged in the end, although a failing one ends    *)
(* the tick and has the whole batch delivered again.                       *)
TelegramDrains ==
  \A n \in 1..MaxUpdates : Len(inbox) >= n ~> mem.offset >= n

(* The owner was told of every pending: the message with its id announced  *)
(* the side that its confirmation would enter.                             *)
PendingIsAnnounced ==
  \A p \in mem.pend : ToldSide(mem, p.id) = p.side
=============================================================================
