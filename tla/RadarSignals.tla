---------------------------- MODULE RadarSignals ----------------------------
(***************************************************************************)
(* The signals that are sent to the server (server/index.ts                *)
(* ingestRadarSignal): a signal is recorded, compared with what was        *)
(* received shortly before, and handed off; what becomes of it is written  *)
(* back to its record, at once or when the owner has answered.  Whether    *)
(* the radar is on, confirms by itself, and whether the cached rules       *)
(* (RuntimeRules) have its coin are choices; of the handoff                *)
(* (PendingConfirmation, StrategyMonitors) only its outcome is kept.       *)
(***************************************************************************)
EXTENDS Integers, Sequences, FiniteSets

CONSTANTS
  Contents,           (* of a signal: all that its dedupe key is made of    *)
  CoinOf,             (* of a content                                       *)
  Senders,            (* requests                                           *)
  DedupWindow, HistoryLimit,
  MaxSignals, MaxTime   (* bounds                                           *)

(* What the constants are taken to be                                      *)
SignalsAssumption == DedupWindow \in Nat /\ HistoryLimit \in Nat \ {0} /\ MaxSignals \in Nat /\ MaxTime \in Nat

VARIABLES
  clock,
  signals,     (* radarSignals, in the order of the list                    *)
  received,    (* so many signals                                           *)
  senders,     (* [pc, signal, forgotten, pending], by request              *)
  pendings,    (* pending confirmations: [coin, open, outcome]              *)
  handed       (* ghost: [id, content, at, forgotten: was off the list] *)

vars == <<clock, signals, received, senders, pendings, handed>>

Idle == [pc |-> "idle"]

Init ==
  /\ clock = 0
  /\ signals = <<>> /\ received = 0 /\ senders = [r \in Senders |-> Idle]
  /\ pendings = <<>> /\ handed = {}

-----------------------------------------------------------------------------
(* compactRadarSignals: those updated last are kept, in that order; of     *)
(* equals the one that was first stays first.                              *)
Ahead(s, i, j) == s[i].updated > s[j].updated \/ (s[i].updated = s[j].updated /\ i < j)
Place(s, j) == Cardinality({i \in DOMAIN s : Ahead(s, i, j)}) + 1
Compact(s) ==
  [k \in 1 .. (IF Len(s) < HistoryLimit THEN Len(s) ELSE HistoryLimit) |->
     s[CHOOSE j \in DOMAIN s : Place(s, j) = k]]

Duplicate(content) ==
  \E i \in DOMAIN signals : signals[i].content = content /\ clock - signals[i].at <= DedupWindow

(* Received, and pushed off the list                                       *)
Forgotten == (1..received) \ {signals[i].id : i \in DOMAIN signals}

Record(content) ==
  [id |-> received + 1, content |-> content, at |-> clock, updated |-> clock, status |-> "ignored",
   pending |-> 0, late |-> FALSE]

(* Mutant: the signal is put on the list when it has been handed off. *)
ReceiveUnlisted(r, content) ==
  /\ senders[r].pc = "idle" /\ received < MaxSignals
  /\ received' = received + 1
  /\ senders' = IF Duplicate(content) THEN senders
                ELSE [senders EXCEPT ![r] = [pc |-> "gate", signal |-> Record(content), forgotten |-> Forgotten]]
  /\ signals' = IF Duplicate(content) THEN Compact(<<Record(content)>> \o signals) ELSE signals
  /\ UNCHANGED <<clock, pendings, handed>>

(* ingestRadarSignal up to its first write: a duplicate is recorded, too,  *)
(* and goes no further.                                                    *)
Receive(r, content) ==
  /\ senders[r].pc = "idle" /\ received < MaxSignals
  /\ received' = received + 1
  /\ signals' = Compact(<<Record(content)>> \o signals)
  /\ senders' = IF Duplicate(content) THEN senders
                ELSE [senders EXCEPT ![r] = [pc |-> "gate", signal |-> Record(content), forgotten |-> Forgotten]]
  /\ UNCHANGED <<clock, pendings, handed>>

(* The record replaces the one with its id.                                *)
Written(record) ==
  Compact([i \in DOMAIN signals |-> IF signals[i].id = record.id THEN record ELSE signals[i]])

Ends(r, status, pending) ==
  /\ signals' = Written([senders[r].signal EXCEPT
       !.status = status, !.updated = clock, !.pending = pending,
       !.late = pending # 0 /\ pendings[pending].outcome # "none"])
  /\ senders' = [senders EXCEPT ![r] = Idle]

CoinFor(r) == CoinOf[senders[r].signal.content]
(* radar_disabled, or symbol_not_monitored                                *)
Refuse(r) ==
  /\ senders[r].pc = "gate"
  /\ \E status \in {"ignored", "rejected"} : Ends(r, status, 0)
  /\ UNCHANGED <<clock, received, pendings, handed>>

Handed(r) ==
  handed \cup {[id |-> senders[r].signal.id, content |-> senders[r].signal.content, at |-> senders[r].signal.at,
                forgotten |-> senders[r].forgotten]}

(* handoffStrategyEntrySignal begins.                                      *)
Handoff(r) ==
  /\ senders[r].pc = "gate"
  /\ handed' = Handed(r)
  /\ senders' = [senders EXCEPT ![r].pc = "handoff"]
  /\ UNCHANGED <<clock, signals, received, pendings>>

(* It ends at once, with an order or without.                              *)
HandoffEnds(r) ==
  /\ senders[r].pc = "handoff"
  /\ \E status \in {"rejected", "ignored", "auto_order_placed"} : Ends(r, status, 0)
  /\ UNCHANGED <<clock, received, pendings, handed>>

(* queuePendingConfirmation: the coin's one is asked again, or a new one,  *)
(* and may be answered before the record of the signal knows of it.        *)
OpenFor(coin) == {p \in DOMAIN pendings : pendings[p].open /\ pendings[p].coin = coin}

Queued(r, p) == senders' = [senders EXCEPT ![r] = [pc |-> "queued", signal |-> @.signal, pending |-> p]]

Queue(r) ==
  /\ senders[r].pc = "handoff"
  /\ \/ \E p \in OpenFor(CoinFor(r)) :
          pendings' = [pendings EXCEPT ![p].outcome = "none"] /\ Queued(r, p)
     \/ /\ OpenFor(CoinFor(r)) = {}
        /\ pendings' = Append(pendings, [coin |-> CoinFor(r), open |-> TRUE, outcome |-> "none"])
        /\ Queued(r, Len(pendings) + 1)
  /\ UNCHANGED <<clock, signals, received, handed>>

QueueEnds(r) ==
  /\ senders[r].pc = "queued"
  /\ Ends(r, "pending_confirmation", senders[r].pending)
  /\ UNCHANGED <<clock, received, pendings, handed>>

(* Mutant: only the newest signal of a confirmation is told. *)
ReconcileNewest(p, status, closes) ==
  /\ pendings[p].open
  /\ pendings' = [pendings EXCEPT ![p].open = ~closes, ![p].outcome = status]
  /\ LET told   == {i \in DOMAIN signals : signals[i].pending = p}
         newest == CHOOSE i \in told : \A j \in told : i <= j
     IN  signals' = IF told = {} THEN signals
                    ELSE Compact([signals EXCEPT ![newest].status = status, ![newest].updated = clock])
  /\ UNCHANGED <<clock, received, senders, handed>>

(* reconcileRadarSignalOutcome: the owner has confirmed or rejected; what  *)
(* the exchange refuses can be confirmed again.                            *)
Reconcile(p, status, closes) ==
  /\ pendings[p].open
  /\ pendings' = [pendings EXCEPT ![p].open = ~closes, ![p].outcome = status]
  /\ signals' = Compact([i \in DOMAIN signals |->
       IF signals[i].pending = p THEN [signals[i] EXCEPT !.status = status, !.updated = clock] ELSE signals[i]])
  /\ UNCHANGED <<clock, received, senders, handed>>

Tick ==
  /\ clock < MaxTime /\ clock' = clock + 1
  /\ UNCHANGED <<signals, received, senders, pendings, handed>>

Next ==
  \/ Tick
  \/ \E r \in Senders : \/ \E content \in Contents : Receive(r, content)
                         \/ Refuse(r) \/ Handoff(r) \/ HandoffEnds(r) \/ Queue(r) \/ QueueEnds(r)
  \/ \E p \in DOMAIN pendings : \/ Reconcile(p, "auto_order_placed", TRUE)
                                \/ \E closes \in BOOLEAN : Reconcile(p, "rejected", closes)

Spec == Init /\ [][Next]_vars

-----------------------------------------------------------------------------
(* Properties                                                              *)

(* However senders overlap, no signal is handed off within the window of   *)
(* one that says the same, unless that one has been pushed off the list.   *)
HandedOffOnce ==
  \A g, h \in handed :
    g.content = h.content /\ g.id < h.id /\ h.at - g.at <= DedupWindow => g.id \in h.forgotten

(* docs/RADAR_RUNTIME.md: "pending/order/rejected outcomes are written     *)
(* back to the source record": every signal of a confirmation shows its    *)
(* outcome, unless that came before the signal's record knew of it.        *)
Heard(s) == s.pending # 0 /\ pendings[s.pending].outcome # "none" => s.status = pendings[s.pending].outcome
OutcomesAreHeard == \A i \in DOMAIN signals : signals[i].late \/ Heard(signals[i])

(* As above, without the exception.  Does not hold.                        *)
OutcomesAreWrittenBack == \A i \in DOMAIN signals : Heard(signals[i])
=============================================================================
