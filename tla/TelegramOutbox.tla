--------------------------- MODULE TelegramOutbox ---------------------------
(***************************************************************************)
(* The outbox of Telegram messages: enqueueTelegramOutbox and the sending  *)
(* tick (server/index.ts 2017-2280), with a store that other processes     *)
(* write too.  The tick sends the objects it found at its start; a reload  *)
(* of the server's memory in between leaves it with objects of its own.    *)
(*                                                                         *)
(* Times are reduced to what the code asks of them: whether a message must *)
(* still wait for its next attempt, and whether it is past its retention.  *)
(***************************************************************************)
EXTENDS Naturals, FiniteSets

CONSTANTS
  Msgs,        (* messages, numbered in the order of their createdAt        *)
  Key,         (* dedupeKey of each                                         *)
  MaxAttempts, (* TELEGRAM_OUTBOX_MAX_ATTEMPTS                              *)
  Batch,       (* messages per tick: 20 in the code                         *)
  Limit,       (* messages kept: 5000 in the code                           *)
  MaxTroubles, (* bound: reloads, stale writes, crashes, lost answers       *)
  None

(* What the constants are taken to be                                      *)
OutboxAssumption == Msgs \subseteq Nat /\ MaxAttempts \in Nat /\ Limit \in Nat /\ Batch \in Nat /\ MaxTroubles \in Nat

Message == [st: {"queued", "sent", "failed"}, att: 0 .. MaxAttempts, wait: BOOLEAN, old: BOOLEAN]
Box     == [Msgs -> Message \cup {None}]
New     == [st |-> "queued", att |-> 0, wait |-> FALSE, old |-> FALSE]

VARIABLES
  backend,   (* "lowdb": a write replaces the file; "postgres": it merges   *)
  mem,       (* db.data.telegramOutbox of the server                        *)
  stored,    (* the same in the store                                       *)
  worker,    (* the snapshot that a worker holds, or None                   *)
  rl,        (* what a reload under way has read, or None                   *)
  sending,   (* the messages the tick still has to send                     *)
  linked,    (* whether they are the objects in memory                      *)
  used,      (* messages that have been enqueued                            *)
  delivered, (* how often each has reached the chat                         *)
  troubles

vars == <<backend, mem, stored, worker, rl, sending, linked, used, delivered, troubles>>

Nothing == [m \in Msgs |-> None]

Init ==
  /\ backend \in {"lowdb", "postgres"}
  /\ mem = Nothing /\ stored = Nothing
  /\ worker = None /\ rl = None
  /\ sending = {} /\ linked = TRUE
  /\ used = {}
  /\ delivered = [m \in Msgs |-> 0]
  /\ troubles = 0

Trouble == troubles < MaxTroubles /\ troubles' = troubles + 1

In(box)  == {m \in Msgs : box[m] # None}

(* compactTelegramOutbox: what is past its retention goes, then the oldest *)
(* beyond the limit, whatever their status.                                *)
Retained(box) == {m \in In(box) : box[m].st = "queued" \/ ~box[m].old}
(* Mutant: one too few. *)
NewestShort(s) == {m \in s : Cardinality({n \in s : n > m}) + 1 < Limit}

Newest(s)       == {m \in s : Cardinality({n \in s : n > m}) < Limit}
Compact(box)  == [m \in Msgs |-> IF m \in Newest(Retained(box)) THEN box[m] ELSE None]

(* Messages carry no time but createdAt, so that in a merge the writer's   *)
(* own copy always wins, and what it does not have stays.                  *)
Write(box) ==
  stored' = IF backend = "lowdb" THEN box
            ELSE [m \in Msgs |-> IF box[m] # None THEN box[m] ELSE stored[m]]

-----------------------------------------------------------------------------
(* Mutant: only queued messages count as duplicates. *)
DuplicateQueued(m) == \E n \in In(mem) : Key[n] = Key[m] /\ mem[n].st = "queued"

Duplicate(m) == \E n \in In(mem) : Key[n] = Key[m] /\ mem[n].st # "failed"

(* The notify* functions return here when the chat or the category is off. *)
Enqueue(m) ==
  /\ m \notin used /\ \A n \in Msgs \ used : m <= n
  /\ ~Duplicate(m)
  /\ used' = used \cup {m}
  /\ mem' = Compact([mem EXCEPT ![m] = New])
  /\ Write(mem')
  /\ UNCHANGED <<backend, worker, rl, sending, linked, delivered, troubles>>

(* Mutant: whatever has not failed is due. *)
DueUnlessFailed == {m \in In(mem) : mem[m].st # "failed" /\ ~mem[m].wait}

Due == {m \in In(mem) : mem[m].st = "queued" /\ ~mem[m].wait}

(* The busy flag: a tick that finds another one at work returns.           *)
TickStart ==
  /\ sending = {} /\ Due # {}
  /\ sending' = {m \in Due : Cardinality({n \in Due : n < m}) < Batch}
  /\ linked' = TRUE
  /\ UNCHANGED <<backend, mem, stored, worker, rl, used, delivered, troubles>>

(* It goes through them in the order of their createdAt.                   *)
Current == CHOOSE m \in sending : \A n \in sending : m <= n

(* The message of the turn ends as r; the last one has the box compacted   *)
(* and written.  An object that memory no longer holds changes in vain.    *)
Turn(r) ==
  LET m     == Current
      after == IF linked /\ mem[m] # None THEN [mem EXCEPT ![m] = r] ELSE mem
      ends  == sending = {m}
  IN  /\ sending' = sending \ {m}
      /\ mem' = IF ends THEN Compact(after) ELSE after
      /\ IF ends THEN Write(mem') ELSE UNCHANGED stored

(* The object the tick holds: an orphan shows what memory had at the start.*)
Held(m) == IF linked /\ mem[m] # None THEN mem[m] ELSE New

Sends ==
  /\ sending # {}
  /\ delivered' = [delivered EXCEPT ![Current] = @ + 1]
  /\ Turn([Held(Current) EXCEPT !.st = "sent"])
  /\ UNCHANGED <<backend, worker, rl, linked, used, troubles>>

(* Mutant: a permanent refusal is tried again like any other. *)
FailedForever(m, permanent) ==
  LET o == Held(m) IN
  [o EXCEPT !.att = IF o.att < MaxAttempts THEN o.att + 1 ELSE o.att, !.wait = TRUE]

(* attempts + 1; a refusal for good, or the last attempt, gives it up.     *)
Failed(m, permanent) ==
  LET o == Held(m) IN
  IF permanent \/ o.att + 1 >= MaxAttempts
  THEN [o EXCEPT !.att = o.att + 1, !.st = "failed"]
  ELSE [o EXCEPT !.att = o.att + 1, !.wait = TRUE]

(* Telegram refuses (400, 401 or 403 for good), or cannot be reached.      *)
SendFails(permanent) ==
  /\ sending # {}
  /\ Turn(Failed(Current, permanent))
  /\ UNCHANGED <<backend, worker, rl, linked, used, delivered, troubles>>

SendEnds == Sends \/ \E permanent \in BOOLEAN : SendFails(permanent)

(* The message is in the chat and the answer is lost.                      *)
AnswerLost ==
  /\ sending # {} /\ Trouble
  /\ delivered' = [delivered EXCEPT ![Current] = @ + 1]
  /\ Turn(Failed(Current, FALSE))
  /\ UNCHANGED <<backend, worker, rl, linked, used>>

(* Time passes: backoff ends, retention ends.                              *)
BackoffEnds(m) ==
  /\ mem[m] # None /\ mem[m].wait /\ mem[m].st = "queued"
  /\ mem' = [mem EXCEPT ![m].wait = FALSE]
  /\ UNCHANGED <<backend, stored, worker, rl, sending, linked, used, delivered, troubles>>

RetentionEnds(m) ==
  /\ mem[m] # None /\ ~mem[m].old /\ mem[m].st # "queued"
  /\ mem' = [mem EXCEPT ![m].old = TRUE]
  /\ UNCHANGED <<backend, stored, worker, rl, sending, linked, used, delivered, troubles>>

-----------------------------------------------------------------------------
(* The server reloads its memory, a worker that loaded earlier writes, the *)
(* server dies.                                                            *)
ReloadStart ==
  /\ rl = None /\ worker = None /\ troubles < MaxTroubles
  /\ rl' = stored
  /\ UNCHANGED <<backend, mem, stored, worker, sending, linked, used, delivered, troubles>>

ReloadEnd ==
  /\ rl # None /\ Trouble
  /\ mem' = rl /\ rl' = None
  /\ linked' = FALSE
  /\ UNCHANGED <<backend, stored, worker, sending, used, delivered>>

WorkerLoads ==
  /\ worker = None /\ rl = None /\ troubles < MaxTroubles
  /\ worker' = stored
  /\ UNCHANGED <<backend, mem, stored, rl, sending, linked, used, delivered, troubles>>

WorkerWrites ==
  /\ worker # None /\ Trouble
  /\ Write(worker) /\ worker' = None
  /\ UNCHANGED <<backend, mem, rl, sending, linked, used, delivered>>

Crash ==
  /\ Trouble
  /\ mem' = stored /\ rl' = None
  /\ sending' = {} /\ linked' = TRUE
  /\ UNCHANGED <<backend, stored, worker, used, delivered>>

Next ==
  \/ \E m \in Msgs : Enqueue(m) \/ BackoffEnds(m) \/ RetentionEnds(m)
  \/ TickStart \/ SendEnds \/ AnswerLost
  \/ ReloadStart \/ ReloadEnd \/ WorkerLoads \/ WorkerWrites \/ Crash

(* The timer ticks every 3 s, a request to Telegram ends one way or the    *)
(* other, and a backoff is at most TELEGRAM_OUTBOX_RETRY_MAX_MS.           *)
Fairness ==
  /\ WF_vars(TickStart)
  /\ WF_vars(SendEnds)
  /\ \A m \in Msgs : WF_vars(BackoffEnds(m))

Spec == Init /\ [][Next]_vars /\ Fairness

-----------------------------------------------------------------------------
(* Properties                                                              *)

TypeOK ==
  /\ mem \in Box /\ stored \in Box
  /\ worker \in Box \cup {None} /\ rl \in Box \cup {None}
  /\ sending \subseteq Msgs /\ used \subseteq Msgs

(* A message reaches the chat once, and once more for each reload, stale   *)
(* write of a worker, crash or lost answer: the busy flag and the status   *)
(* keep ticks from sending twice (2204-2264).                              *)
OncePerTrouble == \A m \in Msgs : delivered[m] <= 1 + troubles

(* Of two messages with one dedupeKey the second is only sent when the     *)
(* first is past its retention or something of the above came in between   *)
(* (2165-2200).                                                            *)
OneMessagePerKey ==
  \A m, n \in Msgs :
    /\ m < n /\ Key[m] = Key[n] /\ delivered[m] > 0 /\ delivered[n] > 0
    /\ troubles = 0
    => mem[m] = None \/ mem[m].old

(* A queued message leaves memory only for the limit, or with a reload or  *)
(* a crash; what is past its retention goes before it (2017-2030).         *)
QueuedIsKept ==
  [][\A m \in Msgs :
       mem[m] # None /\ mem[m].st = "queued" /\ mem'[m] = None /\ troubles' = troubles
       => Cardinality(Retained(mem)) >= Limit]_vars

(* The queue empties, as each message comes once: every one in memory is   *)
(* sent or given up in the end, unless it is lost with the memory or       *)
(* dropped for the limit (2204-2280).                                      *)
Queued == {m \in Msgs : mem[m] # None /\ mem[m].st = "queued"}
QueuedIsHandled == Queued # {} ~> Queued = {}
=============================================================================
