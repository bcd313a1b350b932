-------------------------- MODULE OrderRoutes_proofs --------------------------
(* What the order routes keep, for any requests and bodies and any limits:     *)
(* what the records say of an order is true, a late retry places nothing, and  *)
(* the gross cap holds unless an entry was let pass blindly.                   *)
EXTENDS OrderRoutes, TLAPS

Places == {"idle", "fresh", "risk", "closing", "exposure", "gross", "clear",
           "refusing", "ack", "finish", "done", "dead"} \cup OnTheWay
Handlers ==
  [pc : Places, body : Shapes, equity : {0, Equity}, full : BOOLEAN,
   mult : {"full", "half"}, named : BOOLEAN, qty : Nat]
Statuses == {"none", "created", "policy_rejected", "rejected", "auto_order_placed"}
Candidates == [state : States, order : Requests \cup {NoOrder}]

Types ==
  /\ h \in [Requests -> Handlers]
  /\ reply \in [Requests -> {"none", "refused", "placed", "failed", "cached"}]
  /\ order \in [Requests -> {"none", "resting", "refused", "filled", "cancelled"}]
  /\ heard \in [Requests -> {"none", "ok", "failed"}]
  /\ intent \in [Requests -> Statuses] /\ cand \in Candidates
  /\ saved \in [intent : [Requests -> Statuses], cand : Candidates]
  /\ positions \in Nat /\ lock \in BOOLEAN /\ blind \in BOOLEAN
  /\ late \in [Requests -> BOOLEAN]

(* Where a handler stands before its order is sent, and after it was.          *)
Before == {"idle", "fresh", "risk", "closing", "exposure", "gross", "refusing"} \cup OnTheWay
After  == {"ack", "clear", "finish"}
Staged(r) ==
  /\ h[r].pc \in Before => order[r] = "none"
  /\ h[r].pc \in After => order[r] # "none"
  /\ order[r] = "none" <=> heard[r] = "none"
  /\ heard[r] = "ok" => OrderTaken(r)
  /\ reply[r] # "none" => h[r].pc = "done"
  /\ reply[r] \in {"placed", "failed"} => order[r] # "none"

(* An intent that says it was refused: its order has failed, or its handler    *)
(* is not going to send one any more.                                          *)
Stopped == {"refusing", "done", "dead"}
Truthful(i, r) ==
  /\ i[r] = "auto_order_placed" => heard[r] = "ok"
  /\ i[r] \in {"policy_rejected", "rejected"} =>
       heard[r] = "failed" \/ (order[r] = "none" /\ h[r].pc \in Stopped)

(* A candidate names an order only once its acknowledgement was looked at.     *)
Earned(c) ==
  /\ c.state = "executed" => c.order # NoOrder
  /\ c.order # NoOrder => /\ heard[c.order] = "ok" /\ h[c.order].named
                          /\ h[c.order].pc \notin {"ack"}

(* A key that was answered and not forgotten is in the cache, and a late       *)
(* request runs into it before it sets a leverage or places anything.          *)
KeysAreCached == AnsweredKeys \ forgotten \subseteq cache
Caught(r) ==
  late[r] => /\ order[r] = "none"
             /\ \/ h[r].pc \in {"done", "dead"}
                \/ /\ h[r].pc \in Before \ {"idle", "leverage", "place"}
                   /\ h[r].body.kind = "market" /\ h[r].body.key \in AnsweredKeys \ forgotten

(* An entry that was compared with the gross cap and may still be filled, and  *)
(* what it may add.                                                            *)
Committed(r) ==
  /\ IsEntry(r)
  /\ \/ order[r] = "resting"
     \/ order[r] = "none" /\ h[r].pc \in {"leverage", "place"}
     \/ order[r] = "none" /\ h[r].pc \in {"signal", "policy", "gated"} /\ h[r].body.size > 0
Amount(r) ==
  IF order[r] = "resting" \/ h[r].pc \in {"leverage", "place"} THEN h[r].qty ELSE h[r].body.size
Sighted(r) ==
  IsEntry(r) /\ h[r].pc \in {"exposure", "gross", "signal", "policy", "gated", "size"} => h[r].equity > 0
Capped ==
  /\ positions <= GrossCap
  /\ \A r \in Requests :
       /\ Sighted(r)
       /\ Committed(r) => /\ positions + Amount(r) <= GrossCap
                          /\ \A x \in Requests : Committed(x) => x = r

IInv ==
  /\ Types
  /\ \A r \in Requests : Staged(r) /\ Truthful(intent, r) /\ Truthful(saved.intent, r) /\ Caught(r)
  /\ Earned(cand) /\ Earned(saved.cand)
  /\ KeysAreCached
  /\ ~blind => Capped

-------------------------------------------------------------------------------
LEMMA BodyIsBody ==
  ASSUME NEW s \in Shapes
  PROVE  /\ s.kind \in {"market", "limit"} /\ s.size \in Nat /\ s.lev \in {"none", "fine", "high"}
         /\ {s.reduce, s.confirm, s.signalOverride, s.policyOverride} \subseteq BOOLEAN
  BY ShapesAreBodies DEF ShapeOK

LEMMA BlankType == ASSUME NEW where \in Places PROVE Blank(where) \in Handlers /\ Blank(where).pc = where
<1>1. (CHOOSE s \in Shapes : TRUE) \in Shapes
  BY ShapesAreBodies
<1> QED
  BY <1>1 DEF Blank, Handlers

LEMMA EndedType ==
  ASSUME Types, NEW r \in Requests, NEW where \in {"done", "dead"}
  PROVE  /\ Ended(r, where) \in Handlers /\ Ended(r, where).pc = where
         /\ order[r] # "none" => /\ Ended(r, where).body = h[r].body
                                /\ Ended(r, where).named = h[r].named /\ Ended(r, where).qty = h[r].qty
<1>1. CASE order[r] = "none"
  BY <1>1, BlankType DEF Ended, Places
<1>2. CASE order[r] # "none"
  <2>1. h[r] \in Handlers /\ where \in Places
    BY DEF Types, Places
  <2>2. Ended(r, where) = [h[r] EXCEPT !.pc = where, !.equity = 0, !.mult = "full"]
    BY <1>2 DEF Ended
  <2> QED
    BY <2>1, <2>2 DEF Handlers
<1> QED
  BY <1>1, <1>2

LEMMA OrdersInit == ASSUME Init PROVE IInv
<1>1. Blank("idle") \in Handlers /\ Blank("idle").pc = "idle"
  BY BlankType DEF Places
<1>2. \A r \in Requests : h[r] = Blank("idle") /\ order[r] = "none" /\ heard[r] = "none" /\ reply[r] = "none"
                         /\ intent[r] = "none" /\ saved.intent[r] = "none" /\ late[r] = FALSE
  BY DEF Init
<1>3. Types
  <2>1. cand \in Candidates
    BY DEF Init, Candidates, States
  <2>2. intent \in [Requests -> Statuses]
    BY DEF Init, Statuses
  <2>3. saved \in [intent : [Requests -> Statuses], cand : Candidates]
    BY <2>1, <2>2 DEF Init
  <2> QED
    BY <1>1, <2>1, <2>2, <2>3 DEF Init, Types
<1>4. \A r \in Requests : Staged(r) /\ Truthful(intent, r) /\ Truthful(saved.intent, r) /\ Caught(r)
  BY <1>1, <1>2 DEF Staged, Truthful, Caught, After
<1>5. Earned(cand) /\ Earned(saved.cand)
  BY LimitsAssumption DEF Init, Earned
<1>6. KeysAreCached
  BY <1>2 DEF KeysAreCached, AnsweredKeys
<1>7. Capped
  BY <1>1, <1>2, LimitsAssumption DEF Init, Capped, Sighted, Committed
<1> QED
  BY <1>3, <1>4, <1>5, <1>6, <1>7 DEF IInv

-------------------------------------------------------------------------------
(* What a step of one handler leaves alone                                    *)

(* The answered keys stay while nobody answers, and answers keep their bodies. *)
LEMMA KeysStay ==
  ASSUME \A x \in Requests : /\ reply'[x] \in {"placed", "failed"} <=> reply[x] \in {"placed", "failed"}
                             /\ reply[x] \in {"placed", "failed"} => h'[x].body = h[x].body
  PROVE  AnsweredKeys' = AnsweredKeys
  BY DEF AnsweredKeys

(* An entry that is compared with the cap while no other is on its way.        *)
LEMMA CapStays ==
  ASSUME IInv, NEW r \in Requests, ~blind, positions' = positions,
         \A x \in Requests \ {r} : h'[x] = h[x] /\ order'[x] = order[x],
         Sighted(r)',
         Committed(r)' => \/ Committed(r) /\ Amount(r)' <= Amount(r)
                          \/ positions + Amount(r)' <= GrossCap /\ ~Outstanding(r),
         Committed(r)' => Amount(r)' \in Nat
  PROVE  Capped'
<1>1. Capped
  BY DEF IInv
<1>2. \A x \in Requests \ {r} : /\ Committed(x)' <=> Committed(x)
                               /\ Amount(x)' = Amount(x) /\ (Sighted(x)' <=> Sighted(x))
  BY DEF Committed, Amount, IsEntry, Sighted
<1>3. \A x \in Requests \ {r} : Committed(x) => Outstanding(r)
  BY DEF Committed, Outstanding, OnTheWay
<1>4. ~Outstanding(r) => \A x \in Requests : Committed(x) => x = r
  BY <1>3
<1>5. Committed(r)' => \A x \in Requests : Committed(x)' => x = r
  BY <1>1, <1>2, <1>4 DEF Capped
<1>6. Committed(r)' => positions + Amount(r)' <= GrossCap
  <2>1. CASE Committed(r) /\ Amount(r)' <= Amount(r)
    <3>1. Amount(r) \in Nat
      BY BodyIsBody DEF IInv, Types, Handlers, Amount
    <3> QED
      BY <1>1, <2>1, <3>1, LimitsAssumption DEF Capped, IInv, Types
  <2> QED
    BY <2>1
<1> QED
  BY <1>1, <1>2, <1>5, <1>6 DEF Capped

(* A handler goes on towards its order, or towards a refusal.                  *)
LEMMA GoesOn ==
  ASSUME IInv, NEW r \in Requests, NEW n \in Handlers,
         h[r].pc \in Before \ {"idle", "refusing"}, n.pc \in Before \ {"idle"}, n.body = h[r].body,
         h' = [h EXCEPT ![r] = n],
         UNCHANGED <<reply, order, heard, positions, cand, cache, late, forgotten>>,
         lock' \in BOOLEAN, blind' \in BOOLEAN, blind => blind',
         intent' \in [Requests -> Statuses], \A x \in Requests \ {r} : intent'[x] = intent[x],
         \/ intent'[r] \in {intent[r], "created"}
         \/ intent'[r] \in {"policy_rejected", "rejected"} /\ n.pc = "refusing",
         saved' = saved \/ saved' = [intent |-> intent, cand |-> cand],
         late[r] => n.pc \notin {"leverage", "place"},
         ~blind' => Capped'
  PROVE  IInv'
<1>1. h'[r] = n /\ \A x \in Requests \ {r} : h'[x] = h[x]
  BY DEF IInv, Types
<1>2. order[r] = "none" /\ heard[r] = "none" /\ reply[r] = "none"
  BY DEF IInv, Staged, Before, OnTheWay
<1>3. AnsweredKeys' = AnsweredKeys
  BY <1>1, <1>2, KeysStay
<1>4. Types'
  <2>1. h' \in [Requests -> Handlers]
    BY DEF IInv, Types
  <2>2. saved' \in [intent : [Requests -> Statuses], cand : Candidates]
    BY DEF IInv, Types
  <2> QED
    BY <2>1, <2>2 DEF IInv, Types
<1>5. \A x \in Requests : Staged(x)'
  BY <1>1, <1>2 DEF IInv, Staged, OrderTaken, After, Before, OnTheWay
<1>6. \A x \in Requests : Caught(x)'
  BY <1>1, <1>2, <1>3 DEF IInv, Caught, Before, OnTheWay
<1>7. \A x \in Requests : Truthful(intent, x)' /\ Truthful(saved.intent, x)'
  BY <1>1, <1>2 DEF IInv, Truthful, Before, OnTheWay, Stopped
<1>8. Earned(cand)' /\ Earned(saved.cand)'
  <2>1. ASSUME NEW c, Earned(c), c \in Candidates
        PROVE  Earned(c)'
    BY <2>1, <1>1, <1>2 DEF Earned, Candidates
  <2> QED
    BY <2>1 DEF IInv, Types
<1> QED
  BY <1>3, <1>4, <1>5, <1>6, <1>7, <1>8 DEF IInv, KeysAreCached

(* A handler ends before it has sent an order.                                 *)
LEMMA EndsBefore ==
  ASSUME IInv, NEW r \in Requests, h[r].pc \in Before,
         NEW where \in {"done", "dead"}, h' = [h EXCEPT ![r] = Ended(r, where)],
         reply' = reply \/ (where = "done" /\ \E how \in {"refused", "cached"} : reply' = [reply EXCEPT ![r] = how]),
         UNCHANGED <<order, heard, positions, cand, cache, late, forgotten>>,
         lock' \in BOOLEAN, blind' \in BOOLEAN, blind => blind',
         UNCHANGED intent, saved' = saved \/ saved' = [intent |-> intent, cand |-> cand]
  PROVE  IInv'
<1>1. /\ h'[r] = Ended(r, where) /\ \A x \in Requests \ {r} : h'[x] = h[x]
      /\ Ended(r, where) \in Handlers /\ h'[r].pc = where
  BY EndedType DEF IInv, Types
<1>2. order[r] = "none" /\ heard[r] = "none" /\ reply[r] = "none"
  BY DEF IInv, Staged, Before, OnTheWay
<1>3. /\ reply' \in [Requests -> {"none", "refused", "placed", "failed", "cached"}]
      /\ \A x \in Requests \ {r} : reply'[x] = reply[x]
      /\ reply'[r] \in {"none", "refused", "cached"} /\ (reply'[r] # "none" => where = "done")
  BY <1>2 DEF IInv, Types
<1>4. AnsweredKeys' = AnsweredKeys
  BY <1>1, <1>2, <1>3, KeysStay
<1>5. Types'
  <2>1. h' \in [Requests -> Handlers]
    BY <1>1 DEF IInv, Types
  <2>2. saved' \in [intent : [Requests -> Statuses], cand : Candidates]
    BY DEF IInv, Types
  <2> QED
    BY <1>3, <2>1, <2>2 DEF IInv, Types
<1>6. \A x \in Requests : Staged(x)'
  BY <1>1, <1>2, <1>3 DEF IInv, Staged, OrderTaken, After, Before, OnTheWay
<1>7. \A x \in Requests : Caught(x)'
  BY <1>1, <1>2, <1>4 DEF IInv, Caught
<1>8. \A x \in Requests : Truthful(intent, x)' /\ Truthful(saved.intent, x)'
  BY <1>1, <1>2 DEF IInv, Truthful, Stopped
<1>9. Earned(cand)' /\ Earned(saved.cand)'
  <2>1. ASSUME NEW c, Earned(c), c \in Candidates
        PROVE  Earned(c)'
    BY <2>1, <1>1, <1>2 DEF Earned, Candidates
  <2> QED
    BY <2>1 DEF IInv, Types
<1>10. ASSUME ~blind PROVE Capped'
  <2>1. Sighted(r)' /\ ~Committed(r)'
    BY <1>1, <1>2 DEF Sighted, Committed
  <2> QED
    BY <1>1, <1>10, <2>1, CapStays
<1> QED
  BY <1>4, <1>5, <1>6, <1>7, <1>8, <1>9, <1>10 DEF IInv, KeysAreCached

(* What a refusal or a cached answer needs of the rest.                        *)
LEMMA AnswerKeeps ==
  ASSUME IInv, NEW r \in Requests, NEW how \in {"refused", "cached"}, h[r].pc \in Before, Answer(r, how),
         UNCHANGED <<order, heard, positions, memory, cache, late, forgotten>>,
         lock' \in BOOLEAN, blind' \in BOOLEAN, blind => blind',
         saved' = saved \/ saved' = [intent |-> intent, cand |-> cand]
  PROVE  IInv'
  BY EndsBefore DEF Answer, memory

(* Room for the size asked for, and no other entry on its way.                *)
Fits(r) ==
  \/ positions + h[r].body.size <= GrossCap /\ ~Outstanding(r)
  \/ h[r].body.size = 0

(* A handler goes to another wait, and nothing else changes.                   *)
LEMMA GoKeeps ==
  ASSUME IInv, NEW r \in Requests, NEW where \in Before \ {"idle"},
         h[r].pc \in Before \ {"idle", "refusing"}, Go(r, where),
         UNCHANGED <<market, memory, cache, late, forgotten>>,
         saved' = saved \/ saved' = [intent |-> intent, cand |-> cand],
         blind' \in BOOLEAN, blind => blind',
         late[r] => where \notin {"leverage", "place"},
         ~blind' /\ IsEntry(r) /\ where \in {"exposure", "gross", "signal", "policy", "gated", "size"} => h[r].equity > 0,
         ~blind' /\ IsEntry(r) /\ where \in {"leverage", "place", "signal", "policy", "gated"} =>
           \/ Committed(r) /\ (h[r].pc \in {"leverage", "place"} <=> where \in {"leverage", "place"})
           \/ where \notin {"leverage", "place"} /\ Fits(r)
  PROVE  IInv'
<1> DEFINE n == [h[r] EXCEPT !.pc = where]
<1>1. n \in Handlers /\ n.pc = where /\ n.body = h[r].body /\ n.qty = h[r].qty /\ n.equity = h[r].equity
  BY DEF IInv, Types, Handlers, Before, Places
<1>2. h' = [h EXCEPT ![r] = n] /\ h'[r] = n /\ \A x \in Requests \ {r} : h'[x] = h[x]
  BY DEF Go, IInv, Types
<1>3. order[r] = "none"
  BY DEF IInv, Staged
<1>4. ASSUME ~blind' PROVE Capped'
  <2>1. Sighted(r)'
    BY <1>1, <1>2, <1>4 DEF Sighted, IsEntry
  <2>2. Amount(r)' \in Nat
    BY <1>1, <1>2, BodyIsBody DEF Amount, IInv, Types, Handlers
  <2>3. Committed(r)' => \/ Committed(r) /\ Amount(r)' = Amount(r)
                         \/ positions + Amount(r)' <= GrossCap /\ ~Outstanding(r)
    BY <1>1, <1>2, <1>3, <1>4, BodyIsBody DEF Fits, Committed, IsEntry, Amount, market, IInv, Types, Handlers
  <2> QED
    BY <1>2, <1>4, <2>1, <2>2, <2>3, CapStays DEF market, IInv, Types
<1>5. /\ intent' = intent /\ intent' \in [Requests -> Statuses] /\ lock' \in BOOLEAN
      /\ UNCHANGED <<reply, order, heard, positions, cand, cache, late, forgotten>>
  BY DEF Go, market, memory, IInv, Types
<1> HIDE DEF n
<1> QED
  BY <1>1, <1>2, <1>4, <1>5, GoesOn

-------------------------------------------------------------------------------
(* Gates                                                                      *)

(* The key of a request that comes late is one of the answered ones.           *)
LEMMA ArriveKeeps == ASSUME IInv, NEW r \in Requests, Arrive(r) PROVE IInv'
<1>1. PICK s \in Shapes :
        /\ h' = [h EXCEPT ![r].body = s, ![r].pc = IF s.reduce THEN "risk" ELSE "fresh"]
        /\ late' = [late EXCEPT ![r] = s.kind = "market" /\ s.key \in AnsweredKeys \ forgotten]
  BY DEF Arrive
<1>2. h[r].pc = "idle" /\ order[r] = "none" /\ heard[r] = "none" /\ reply[r] = "none"
  BY DEF Arrive, At, IInv, Staged, Before
<1>3. /\ h'[r] \in Handlers /\ h'[r].pc \in {"risk", "fresh"} /\ h'[r].body = s
      /\ \A x \in Requests \ {r} : h'[x] = h[x]
  <2> DEFINE to == IF s.reduce THEN "risk" ELSE "fresh"
             b  == [h[r] EXCEPT !.body = s, !.pc = to]
  <2>1. h[r] \in Handlers /\ to \in {"risk", "fresh"} /\ to \in Places
    BY DEF IInv, Types, Places
  <2>2. b \in Handlers /\ b.pc = to /\ b.body = s
    <3> HIDE DEF to
    <3> QED
      BY <2>1 DEF Handlers
  <2>3. h'[r] = b /\ \A x \in Requests \ {r} : h'[x] = h[x]
    <3>1. h \in [Requests -> Handlers]
      BY DEF IInv, Types
    <3> QED
      BY <1>1, <3>1
  <2> QED
    BY <2>1, <2>2, <2>3
<1>4. /\ late' \in [Requests -> BOOLEAN] /\ \A x \in Requests \ {r} : late'[x] = late[x]
      /\ (late'[r] => s.kind = "market" /\ s.key \in AnsweredKeys \ forgotten)
  BY <1>1 DEF IInv, Types
<1>5. UNCHANGED <<reply, order, heard, positions, lock, intent, cand, saved, cache, forgotten, blind>>
  BY DEF Arrive, market, memory
<1>6. AnsweredKeys' = AnsweredKeys
  BY <1>2, <1>3, <1>5, KeysStay
<1>7. Types'
  <2>1. h' \in [Requests -> Handlers]
    BY <1>1, <1>3 DEF IInv, Types
  <2> QED
    BY <2>1, <1>4, <1>5 DEF IInv, Types
<1>8. \A x \in Requests : Staged(x)' /\ Truthful(intent, x)' /\ Truthful(saved.intent, x)'
  BY <1>2, <1>3, <1>5 DEF IInv, Staged, Truthful, Stopped, OrderTaken, After, Before
<1>9. \A x \in Requests : Caught(x)'
  <2>1. Caught(r)'
    <3>1. h'[r].pc \in Before \ {"idle", "leverage", "place"} /\ order'[r] = "none"
      BY <1>2, <1>3, <1>5 DEF Before, OnTheWay
    <3>2. late'[r] => h'[r].body.kind = "market" /\ h'[r].body.key \in AnsweredKeys' \ forgotten'
      BY <1>3, <1>4, <1>5, <1>6
    <3> QED
      BY <3>1, <3>2 DEF Caught
  <2>2. \A x \in Requests \ {r} : Caught(x)'
    BY <1>3, <1>4, <1>5, <1>6 DEF IInv, Caught
  <2> QED
    BY <2>1, <2>2
<1>10. Earned(cand)' /\ Earned(saved.cand)'
  <2>1. ASSUME NEW c, Earned(c), c \in Candidates
        PROVE  Earned(c)'
    BY <2>1, <1>2, <1>3, <1>5 DEF Earned, Candidates
  <2> QED
    BY <2>1, <1>5 DEF IInv, Types
<1>11. ASSUME ~blind PROVE Capped'
  BY <1>2, <1>3, <1>5, <1>11, CapStays DEF Sighted, Committed
<1> QED
  BY <1>5, <1>6, <1>7, <1>8, <1>9, <1>10, <1>11 DEF IInv, KeysAreCached

LEMMA FreshTickKeeps == ASSUME IInv, NEW r \in Requests, FreshTick(r) PROVE IInv'
<1>1. h[r].pc = "fresh"
  BY DEF FreshTick, At
<1>2. CASE Go(r, "risk")
  BY <1>1, <1>2, GoKeeps DEF FreshTick, Before, OnTheWay, IInv, Types, ghosts
<1>3. CASE Answer(r, "refused")
  BY <1>1, <1>3, AnswerKeeps DEF FreshTick, Before, OnTheWay, IInv, Types, ghosts, market
<1> QED
  BY <1>2, <1>3 DEF FreshTick, EnterRisk

(* An entry that goes on without an equity is let pass blindly.                *)
LEMMA RiskReadKeeps == ASSUME IInv, NEW r \in Requests, RiskRead(r) PROVE IInv'
<1>1. h[r].pc = "risk" /\ order[r] = "none"
  BY DEF RiskRead, At, IInv, Staged, Before
<1>2. UNCHANGED <<order, heard, positions, intent, cand, saved, cache, late, forgotten>>
  BY DEF RiskRead, memory
<1>3. CASE Answer(r, "refused") /\ lock' \in BOOLEAN /\ blind' \in BOOLEAN /\ (blind => blind')
  BY <1>1, <1>2, <1>3, AnswerKeeps DEF Before, memory
<1>4. ASSUME NEW equity \in {0, Equity}, NEW full \in BOOLEAN, NEW loss \in BOOLEAN,
             lock' = (lock \/ loss), blind' = (blind \/ (IsEntry(r) /\ equity = 0)),
             h' = [h EXCEPT ![r].equity = equity, ![r].full = full,
                            ![r].pc = IF loss /\ IsEntry(r) THEN "closing" ELSE AfterRisk(r, equity)],
             UNCHANGED reply
      PROVE  IInv'
  <2> DEFINE where == IF loss /\ IsEntry(r) THEN "closing" ELSE AfterRisk(r, equity)
             n == [h[r] EXCEPT !.equity = equity, !.full = full, !.pc = where]
  <2>1. /\ where \in {"closing", "gated", "exposure", "signal"}
        /\ where = "gated" => ~IsEntry(r)
        /\ where = "signal" /\ IsEntry(r) => ~(h[r].body.size > 0 /\ equity > 0)
    BY DEF AfterRisk
  <2> HIDE DEF where
  <2>0. where \in Places
    BY <2>1 DEF Places, OnTheWay
  <2>2. n \in Handlers /\ n.pc = where /\ n.body = h[r].body /\ n.equity = equity
    <3>1. h[r] \in Handlers
      BY DEF IInv, Types
    <3> QED
      BY <2>0, <3>1 DEF Handlers
  <2>3. h' = [h EXCEPT ![r] = n] /\ h'[r] = n /\ \A x \in Requests \ {r} : h'[x] = h[x]
    BY <1>4 DEF IInv, Types, where
  <2>4. lock' \in BOOLEAN /\ blind' \in BOOLEAN /\ (blind => blind')
    BY <1>4 DEF IInv, Types, IsEntry
  <2> HIDE DEF n
  <2>5. ASSUME ~blind' PROVE Capped'
    <3>1. IsEntry(r) => equity > 0
      <4>1. equity \in Nat
        BY LimitsAssumption
      <4>2. IsEntry(r) => equity # 0
        BY <1>4, <2>5
      <4> QED
        BY <4>1, <4>2
    <3>2. Sighted(r)' /\ ~Committed(r)'
      BY <1>1, <1>2, <2>1, <2>2, <2>3, <3>1 DEF Sighted, Committed, IsEntry
    <3> QED
      BY <1>2, <2>3, <2>4, <2>5, <3>2, CapStays DEF IInv, Types
  <2>6. intent' \in [Requests -> Statuses]
    BY <1>2 DEF IInv, Types
  <2> QED
    BY <1>1, <1>2, <1>4, <2>1, <2>2, <2>3, <2>4, <2>5, <2>6, GoesOn DEF Before, OnTheWay
<1>5. ASSUME NEW quality \in {"full", "partial", "unavailable"}, NEW loss \in BOOLEAN,
             LET full   == quality = "full"
                 equity == IF quality = "unavailable" THEN 0 ELSE Equity
                 levered == full /\ positions > LeverageCap
             IN  /\ loss => full
                 /\ lock' = (lock \/ loss)
                 /\ blind' = (blind \/ (IsEntry(r) /\ equity = 0))
                 /\ IF levered /\ ~loss /\ IsEntry(r) THEN Answer(r, "refused")
                    ELSE /\ h' = [h EXCEPT ![r].equity = equity, ![r].full = full,
                                           ![r].pc = IF loss /\ IsEntry(r) THEN "closing"
                                                     ELSE AfterRisk(r, equity)]
                         /\ UNCHANGED reply
      PROVE  IInv'
  <2> DEFINE full == quality = "full"
             equity == IF quality = "unavailable" THEN 0 ELSE Equity
  <2>1. full \in BOOLEAN /\ equity \in {0, Equity}
    OBVIOUS
  <2>2. lock' = (lock \/ loss) /\ blind' = (blind \/ (IsEntry(r) /\ equity = 0))
    BY <1>5
  <2>3. lock' \in BOOLEAN /\ blind' \in BOOLEAN /\ (blind => blind')
    BY <2>2 DEF IInv, Types, IsEntry
  <2>4. \/ Answer(r, "refused")
        \/ /\ h' = [h EXCEPT ![r].equity = equity, ![r].full = full,
                             ![r].pc = IF loss /\ IsEntry(r) THEN "closing" ELSE AfterRisk(r, equity)]
           /\ UNCHANGED reply
    BY <1>5
  <2> HIDE DEF full, equity
  <2> QED
    BY <2>1, <2>2, <2>3, <2>4, <1>3, <1>4
<1> QED
  BY <1>3, <1>5 DEF RiskRead, IInv, Types

LEMMA ExposureReadKeeps == ASSUME IInv, NEW r \in Requests, ExposureRead(r) PROVE IInv'
<1>1. h[r].pc = "exposure"
  BY DEF ExposureRead, At
<1>2. CASE Go(r, "gross")
  <2>1. ~blind /\ IsEntry(r) => h[r].equity > 0
    BY <1>1 DEF IInv, Capped, Sighted
  <2> QED
    BY <1>1, <1>2, <2>1, GoKeeps DEF ExposureRead, Before, OnTheWay, IInv, Types, ghosts
<1>3. CASE Answer(r, "refused")
  BY <1>1, <1>3, AnswerKeeps DEF ExposureRead, Before, OnTheWay, IInv, Types, ghosts, market
<1> QED
  BY <1>2, <1>3 DEF ExposureRead

(* The comparison with the cap, with no other entry on its way.                *)
LEMMA GrossReadKeeps == ASSUME IInv, NEW r \in Requests, GrossRead(r) PROVE IInv'
<1>1. h[r].pc = "gross"
  BY DEF GrossRead, At
<1>2. CASE Go(r, "signal") /\ ~ExceedsGross(h[r].equity, h[r].body.size) /\ blind' = (blind \/ Outstanding(r))
  <2>1. ~blind /\ IsEntry(r) => h[r].equity > 0
    BY <1>1 DEF IInv, Capped, Sighted
  <2>2. blind' \in BOOLEAN /\ (blind => blind')
    BY <1>2 DEF IInv, Types, Outstanding
  <2>3. ~blind' /\ IsEntry(r) => positions + h[r].body.size <= GrossCap /\ ~Outstanding(r)
    <3>1. h[r].body.size \in Nat /\ h[r].equity \in Nat /\ positions \in Nat
      BY BodyIsBody, LimitsAssumption DEF IInv, Types, Handlers
    <3>2. ~blind' => ~blind /\ ~Outstanding(r)
      BY <1>2
    <3> QED
      BY <1>2, <2>1, <3>1, <3>2, LimitsAssumption DEF ExceedsGross
  <2>4. UNCHANGED <<market, memory, saved, cache, late, forgotten>>
    BY DEF GrossRead
  <2>5. "signal" \in Before \ {"idle"} /\ h[r].pc \in Before \ {"idle", "refusing"}
    BY <1>1 DEF Before, OnTheWay
  <2> QED
    <3>1. ~blind' /\ IsEntry(r) /\ "signal" \in {"exposure", "gross", "signal", "policy", "gated", "size"} => h[r].equity > 0
      BY <2>1, <2>2
    <3>2. ~blind' /\ IsEntry(r) => Fits(r)
      BY <2>3 DEF Fits
    <3>3. late[r] => "signal" \notin {"leverage", "place"}
      OBVIOUS
    <3> QED
      <4>1. Go(r, "signal")
        BY <1>2
      <4> QED
        BY <4>1, <2>2, <2>4, <2>5, <3>1, <3>2, <3>3, GoKeeps DEF IInv, Types
<1>3. CASE Answer(r, "refused") /\ UNCHANGED blind
  BY <1>1, <1>3, AnswerKeeps DEF GrossRead, Before, OnTheWay, IInv, Types, market
<1> QED
  BY <1>2, <1>3 DEF GrossRead

LEMMA SignalReadKeeps == ASSUME IInv, NEW r \in Requests, SignalRead(r) PROVE IInv'
<1>1. h[r].pc = "signal" /\ order[r] = "none"
  BY DEF SignalRead, At, IInv, Staged, Before, OnTheWay
<1>2. CASE Go(r, "policy")
  <2>1. ~blind /\ IsEntry(r) => h[r].equity > 0
    BY <1>1 DEF IInv, Capped, Sighted
  <2>2. ~IsEntry(r) \/ Committed(r) \/ Fits(r)
    BY <1>1, BodyIsBody DEF Committed, Fits, IInv, Types, Handlers
  <2> QED
    <3>1. "policy" \in Before \ {"idle"} /\ h[r].pc \in Before \ {"idle", "refusing"}
      BY <1>1 DEF Before, OnTheWay
    <3>2. UNCHANGED <<market, memory, saved, cache, late, forgotten, blind>>
      BY DEF SignalRead, ghosts
    <3> QED
      BY <1>1, <1>2, <2>1, <2>2, <3>1, <3>2, GoKeeps DEF IInv, Types
<1>3. CASE Answer(r, "refused")
  BY <1>1, <1>3, AnswerKeeps DEF SignalRead, Before, OnTheWay, IInv, Types, ghosts, market
<1> QED
  BY <1>2, <1>3 DEF SignalRead

(* What a gate adds to a handler leaves an entry as committed as it was.       *)
LEMMA PolicyGateKeeps == ASSUME IInv, NEW r \in Requests, PolicyGate(r) PROVE IInv'
<1>1. h[r].pc = "policy" /\ order[r] = "none"
  BY DEF PolicyGate, At, IInv, Staged, Before, OnTheWay
<1>2. ASSUME NEW m \in {"full", "half"}, NEW named \in BOOLEAN, NEW where \in {"gated", "refusing"}, NEW i \in Statuses,
             i = "created" \/ (i = "policy_rejected" /\ where = "refusing"),
             h' = [h EXCEPT ![r].mult = m, ![r].named = named, ![r].pc = where],
             intent' = [intent EXCEPT ![r] = i]
      PROVE  IInv'
  <2> DEFINE n == [h[r] EXCEPT !.mult = m, !.named = named, !.pc = where]
  <2>1. n \in Handlers /\ n.pc = where /\ n.body = h[r].body /\ n.equity = h[r].equity /\ n.qty = h[r].qty
    <3>1. where \in Places
      BY DEF Places, OnTheWay
    <3>2. h[r] \in Handlers
      BY DEF IInv, Types
    <3> QED
      BY <3>1, <3>2 DEF Handlers
  <2>2. h' = [h EXCEPT ![r] = n] /\ h'[r] = n /\ \A x \in Requests \ {r} : h'[x] = h[x]
    BY <1>2 DEF IInv, Types
  <2> HIDE DEF n
  <2>3. ASSUME ~blind PROVE Capped'
    <3>1. Sighted(r)'
      BY <1>1, <2>1, <2>2, <2>3 DEF IInv, Capped, Sighted, IsEntry
    <3>2. Committed(r)' => Committed(r) /\ Amount(r)' = Amount(r)
      <4>1. order'[r] = "none"
        BY <1>1 DEF PolicyGate, market
      <4>2. h'[r].body = h[r].body /\ h'[r].pc \in {"gated", "refusing"}
        BY <2>1, <2>2
      <4> QED
        BY <1>1, <4>1, <4>2 DEF Committed, Amount, IsEntry
    <3>3. Amount(r)' \in Nat
      BY <2>1, <2>2, BodyIsBody DEF Amount, Handlers
    <3> QED
      <4>1. UNCHANGED <<order, positions>>
        BY DEF PolicyGate, market
      <4>2. Amount(r)' <= Amount(r) \/ ~Committed(r)'
        BY <3>2, <3>3
      <4> QED
        BY <2>2, <2>3, <3>1, <3>2, <3>3, <4>1, <4>2, CapStays
  <2>4. intent' \in [Requests -> Statuses] /\ intent'[r] = i /\ \A x \in Requests \ {r} : intent'[x] = intent[x]
    BY <1>2 DEF IInv, Types
  <2>5. UNCHANGED <<reply, order, heard, positions, cand, cache, late, forgotten, saved, lock, blind>>
        /\ lock \in BOOLEAN /\ blind \in BOOLEAN
    BY DEF PolicyGate, market, ghosts, IInv, Types
  <2>6. h[r].pc \in Before \ {"idle", "refusing"} /\ n.pc \in Before \ {"idle"} /\ n.pc \notin {"leverage", "place"}
    BY <1>1, <2>1 DEF Before, OnTheWay
  <2> QED
    BY <1>2, <2>1, <2>2, <2>3, <2>4, <2>5, <2>6, GoesOn
<1>3. CASE \E m \in Multipliers : /\ h' = [h EXCEPT ![r].mult = m, ![r].named = TRUE, ![r].pc = "gated"]
                                /\ intent' = [intent EXCEPT ![r] = "created"]
  BY <1>2, <1>3 DEF Multipliers, Statuses
<1>4. CASE \E named \in BOOLEAN :
             LET over == h[r].body.policyOverride IN
             /\ named => cand.state \in Live
             /\ h' = [h EXCEPT ![r].mult = "half", ![r].named = named,
                               ![r].pc = IF over THEN "gated" ELSE "refusing"]
             /\ intent' = [intent EXCEPT ![r] = IF over THEN "created" ELSE "policy_rejected"]
  <2>0. PICK named \in BOOLEAN :
             LET over == h[r].body.policyOverride IN
             /\ h' = [h EXCEPT ![r].mult = "half", ![r].named = named,
                               ![r].pc = IF over THEN "gated" ELSE "refusing"]
             /\ intent' = [intent EXCEPT ![r] = IF over THEN "created" ELSE "policy_rejected"]
    BY <1>4
  <2>1. {"created", "policy_rejected"} \subseteq Statuses
    BY DEF Statuses
  <2>2. CASE h[r].body.policyOverride
    BY <1>2, <2>0, <2>1, <2>2
  <2>3. CASE ~h[r].body.policyOverride
    BY <1>2, <2>0, <2>1, <2>3
  <2> QED
    BY <2>2, <2>3
<1> QED
  BY <1>3, <1>4 DEF PolicyGate

-------------------------------------------------------------------------------
(* Handlers                                                                   *)

LEMMA AdjustedIsLess ==
  ASSUME NEW r \in Requests, NEW q \in Nat
  PROVE  Adjusted(r, q) \in Nat /\ Adjusted(r, q) <= q
  BY DEF Adjusted

(* The key of a late request is in the cache when the handler looks it up.     *)
LEMMA LateIsKnown ==
  ASSUME IInv, NEW r \in Requests, h[r].pc \in {"gated", "size"}, late[r]
  PROVE  h[r].body.kind = "market" /\ h[r].body.key # NoKey /\ h[r].body.key \in cache
<1>1. h[r].body.kind = "market" /\ h[r].body.key \in AnsweredKeys \ forgotten
  BY DEF IInv, Caught
<1> QED
  BY <1>1 DEF IInv, KeysAreCached, AnsweredKeys

(* An entry that is submitted was compared with the cap: at the gate, with the *)
(* size asked for, or just now.                                               *)
LEMMA SubmitKeeps ==
  ASSUME IInv, NEW r \in Requests, NEW q \in Nat, h[r].pc \in {"gated", "size"}, Submit(r, q),
         UNCHANGED <<market, memory, cache, late, forgotten>>,
         saved' = saved \/ saved' = [intent |-> intent, cand |-> cand],
         blind' \in BOOLEAN, blind => blind',
         ~blind' /\ IsEntry(r) =>
           \/ positions + q <= GrossCap /\ ~Outstanding(r)
           \/ h[r].pc = "gated" /\ h[r].body.size > 0 /\ q <= h[r].body.size
  PROVE  IInv'
<1>1. h[r].pc \in Before \ {"idle", "refusing"} /\ order[r] = "none"
  BY DEF Before, OnTheWay, IInv, Staged
<1>2. UNCHANGED <<order, heard, positions, lock, intent, cand>> /\ lock \in BOOLEAN /\ intent \in [Requests -> Statuses]
  BY DEF market, memory, IInv, Types
<1>3. CASE Answer(r, "refused") \/ Answer(r, "cached")
  BY <1>1, <1>2, <1>3, AnswerKeeps DEF memory
<1>4. ASSUME NEW where \in {"leverage", "place"}, ~late[r],
             h' = [h EXCEPT ![r].qty = q, ![r].pc = where], UNCHANGED reply
      PROVE  IInv'
  <2> DEFINE n == [h[r] EXCEPT !.qty = q, !.pc = where]
  <2>1. n \in Handlers /\ n.pc = where /\ n.body = h[r].body /\ n.qty = q
    <3>1. h[r] \in Handlers
      BY DEF IInv, Types
    <3>2. where \in Places
      BY DEF Places, OnTheWay
    <3> QED
      BY <3>1, <3>2 DEF Handlers
  <2>2. h' = [h EXCEPT ![r] = n] /\ h'[r] = n /\ \A x \in Requests \ {r} : h'[x] = h[x]
    BY <1>4 DEF IInv, Types
  <2> HIDE DEF n
  <2>3. n.pc \in Before \ {"idle"}
    BY <2>1 DEF Before, OnTheWay
  <2>4. ASSUME ~blind' PROVE Capped'
    <3>1. Sighted(r)' /\ Amount(r)' = q
      BY <2>1, <2>2 DEF Sighted, Amount
    <3>2. IsEntry(r)' <=> IsEntry(r)
      BY <2>1, <2>2 DEF IsEntry
    <3>3. Committed(r)' => IsEntry(r)
      BY <3>2 DEF Committed
    <3>4. h[r].pc = "gated" /\ h[r].body.size > 0 /\ IsEntry(r) => Committed(r) /\ Amount(r) = h[r].body.size
      BY <1>1 DEF Committed, Amount
    <3>5. Committed(r)' => \/ Committed(r) /\ Amount(r)' <= Amount(r)
                           \/ positions + Amount(r)' <= GrossCap /\ ~Outstanding(r)
      BY <2>4, <3>1, <3>3, <3>4
    <3> QED
      BY <1>2, <2>2, <2>4, <3>1, <3>5, CapStays
  <2> QED
    BY <1>1, <1>2, <1>4, <2>1, <2>2, <2>3, <2>4, GoesOn
<1>5. CASE late[r]
  BY <1>3, <1>5, LateIsKnown DEF Submit
<1>6. CASE ~late[r]
  BY <1>3, <1>4, <1>6 DEF Submit
<1> QED
  BY <1>5, <1>6

LEMMA RejectKeeps ==
  ASSUME IInv, NEW r \in Requests, h[r].pc \in {"gated", "size"}, Reject(r),
         UNCHANGED <<market, cand, cache, ghosts>>,
         saved' = saved \/ saved' = [intent |-> intent, cand |-> cand]
  PROVE  IInv'
<1> DEFINE n == [h[r] EXCEPT !.pc = "refusing"]
<1>1. n \in Handlers /\ n.pc = "refusing" /\ n.body = h[r].body
  <2>1. h[r] \in Handlers
    BY DEF IInv, Types
  <2> QED
    BY <2>1 DEF Handlers, Places
<1>2. h' = [h EXCEPT ![r] = n] /\ h'[r] = n /\ \A x \in Requests \ {r} : h'[x] = h[x]
  BY DEF IInv, Types, Reject, Go
<1> HIDE DEF n
<1>3. h[r].pc \in Before \ {"idle", "refusing"} /\ order[r] = "none" /\ n.pc \in Before \ {"idle"}
  BY <1>1 DEF Before, OnTheWay, IInv, Staged
<1>4. /\ intent' \in [Requests -> Statuses] /\ intent'[r] = "rejected"
      /\ \A x \in Requests \ {r} : intent'[x] = intent[x]
  BY DEF Reject, IInv, Types, Statuses
<1>5. UNCHANGED <<reply, order, heard, positions, lock, cand, cache, late, forgotten, blind>> /\ lock \in BOOLEAN /\ blind \in BOOLEAN
  BY DEF market, ghosts, Reject, Go, IInv, Types
<1>6. ASSUME ~blind PROVE Capped'
  <2>1. Sighted(r)' /\ ~Committed(r)'
    BY <1>1, <1>2, <1>3, <1>5 DEF Sighted, Committed
  <2> QED
    BY <1>2, <1>5, <1>6, <2>1, CapStays
<1> QED
  BY <1>1, <1>2, <1>3, <1>4, <1>5, <1>6, GoesOn

LEMMA StartKeeps == ASSUME IInv, NEW r \in Requests, Start(r) PROVE IInv'
<1> DEFINE q == Adjusted(r, h[r].body.size)
<1>1. h[r].pc = "gated" /\ h[r].body.size \in Nat
  BY BodyIsBody DEF Start, At, IInv, Types, Handlers
<1>2. q \in Nat /\ q <= h[r].body.size
  BY <1>1, AdjustedIsLess
<1> HIDE DEF q
<1>3. UNCHANGED <<market, cand, cache, ghosts, late, forgotten, blind>> /\ blind \in BOOLEAN
      /\ (saved' = saved \/ saved' = [intent |-> intent, cand |-> cand])
  BY DEF Start, ghosts, IInv, Types
<1>4. CASE Go(r, "size") /\ UNCHANGED intent
  <2>1. ~blind /\ IsEntry(r) => h[r].equity > 0
    BY <1>1 DEF IInv, Capped, Sighted
  <2>2. "size" \in Before \ {"idle"} /\ h[r].pc \in Before \ {"idle", "refusing"}
    BY <1>1 DEF Before, OnTheWay
  <2>3. UNCHANGED memory
    BY <1>3, <1>4 DEF memory
  <2> QED
    BY <1>3, <1>4, <2>1, <2>2, <2>3, GoKeeps
<1>5. CASE Reject(r)
  BY <1>1, <1>3, <1>5, RejectKeeps
<1>6. CASE h[r].body.size # 0 /\ Submit(r, q) /\ UNCHANGED intent
  <2>1. h[r].body.size > 0
    BY <1>1, <1>6
  <2>2. UNCHANGED memory
    BY <1>3, <1>6 DEF memory
  <2> QED
    BY <1>1, <1>2, <1>3, <1>6, <2>1, <2>2, SubmitKeeps
<1>7. CASE Die(r) /\ UNCHANGED intent
  <2>1. h[r].pc \in Before /\ UNCHANGED <<order, heard, positions, lock>> /\ lock \in BOOLEAN
    BY <1>1, <1>3 DEF Before, OnTheWay, market, IInv, Types
  <2> QED
    BY <1>3, <1>7, <2>1, EndsBefore DEF Die
<1> QED
  BY <1>4, <1>5, <1>6, <1>7 DEF Start, Starts, q

LEMMA SizeReadKeeps == ASSUME IInv, NEW r \in Requests, SizeRead(r) PROVE IInv'
<1>1. PICK available \in {0, SymbolCap}, equity \in {h[r].equity, Equity}, fails \in BOOLEAN :
        LET q == Adjusted(r, AllocationSize(equity, available))
            capped == IsEntry(r) /\ h[r].equity > 0
        IN  IF q = 0 THEN Reject(r) /\ UNCHANGED blind
            ELSE IF capped /\ fails
            THEN /\ IF h[r].body.kind = "market" THEN Reject(r)
                    ELSE Answer(r, "refused") /\ UNCHANGED intent
                 /\ UNCHANGED blind
            ELSE IF capped /\ ExceedsGross(h[r].equity, q)
            THEN Reject(r) /\ UNCHANGED blind
            ELSE /\ Submit(r, q)
                 /\ blind' = (blind \/ (IsEntry(r) /\ Outstanding(r)))
                 /\ UNCHANGED intent
  BY DEF SizeRead
<1> DEFINE q == Adjusted(r, AllocationSize(equity, available))
<1>2. h[r].pc = "size" /\ h[r].equity \in Nat /\ positions \in Nat
  BY LimitsAssumption DEF SizeRead, At, IInv, Types, Handlers
<1>3. q \in Nat
  <2>1. AllocationSize(equity, available) \in Nat
    BY LimitsAssumption DEF AllocationSize, Smaller
  <2> QED
    BY <2>1, AdjustedIsLess
<1>4. UNCHANGED <<market, cand, saved, cache, late, forgotten>> /\ blind \in BOOLEAN
  BY DEF SizeRead, IInv, Types
<1> HIDE DEF q
<1>5. CASE Reject(r) /\ UNCHANGED blind
  BY <1>2, <1>4, <1>5, RejectKeeps DEF ghosts
<1>6. CASE Answer(r, "refused") /\ UNCHANGED intent /\ UNCHANGED blind
  <2>1. h[r].pc \in Before /\ UNCHANGED memory /\ UNCHANGED <<order, heard, positions>> /\ lock' \in BOOLEAN
    BY <1>2, <1>4, <1>6 DEF Before, OnTheWay, memory, market, IInv, Types
  <2> QED
    BY <1>4, <1>6, <2>1, AnswerKeeps
<1>7. CASE /\ ~(IsEntry(r) /\ h[r].equity > 0 /\ ExceedsGross(h[r].equity, q))
           /\ Submit(r, q) /\ UNCHANGED intent
           /\ blind' = (blind \/ (IsEntry(r) /\ Outstanding(r)))
  <2>1. ~blind /\ IsEntry(r) => h[r].equity > 0
    BY <1>2 DEF IInv, Capped, Sighted
  <2>2. blind' \in BOOLEAN /\ (blind => blind')
    BY <1>4, <1>7
  <2>3. ~blind' /\ IsEntry(r) => positions + q <= GrossCap /\ ~Outstanding(r)
    <3>1. ~blind' => ~blind /\ ~(IsEntry(r) /\ Outstanding(r))
      BY <1>7
    <3>2. ~blind /\ IsEntry(r) => ~(positions + q > GrossCap)
      BY <1>7, <2>1 DEF ExceedsGross
    <3>3. positions + q > GrossCap \/ positions + q <= GrossCap
      BY <1>2, <1>3, LimitsAssumption
    <3> QED
      BY <3>1, <3>2, <3>3
  <2>4. UNCHANGED memory
    BY <1>4, <1>7 DEF memory
  <2> QED
    BY <1>2, <1>3, <1>4, <1>7, <2>2, <2>3, <2>4, SubmitKeeps
<1> QED
  BY <1>1, <1>5, <1>6, <1>7 DEF q

LEMMA RefuseKeeps == ASSUME IInv, NEW r \in Requests, Refuse(r) PROVE IInv'
<1>1. h[r].pc \in Before
  BY DEF Refuse, At, Before
<1>2. UNCHANGED <<order, heard, positions, lock, intent, cand, cache, late, forgotten, blind>>
      /\ lock \in BOOLEAN /\ blind \in BOOLEAN
  BY DEF Refuse, market, ghosts, memory, IInv, Types
<1>3. saved' = saved \/ saved' = [intent |-> intent, cand |-> cand]
  BY <1>2 DEF Refuse, Store
<1>4. CASE Answer(r, "refused")
  BY <1>1, <1>2, <1>3, <1>4, AnswerKeeps DEF memory
<1>5. CASE Die(r)
  BY <1>1, <1>2, <1>3, <1>5, EndsBefore DEF Die
<1> QED
  BY <1>4, <1>5 DEF Refuse

LEMMA LeverageKeeps == ASSUME IInv, NEW r \in Requests, Leverage(r) PROVE IInv'
<1>1. h[r].pc = "leverage" /\ order[r] = "none" /\ ~late[r] /\ Go(r, "place")
  BY DEF Leverage, At, IInv, Staged, Caught, Before, OnTheWay
<1>2. "place" \in Before \ {"idle"} /\ h[r].pc \in Before \ {"idle", "refusing"}
  BY <1>1 DEF Before, OnTheWay
<1>3. IsEntry(r) => Committed(r)
  BY <1>1 DEF Committed
<1>4. UNCHANGED <<market, memory, saved, cache, late, forgotten, blind>> /\ blind \in BOOLEAN
  BY DEF Leverage, ghosts, IInv, Types
<1> QED
  BY <1>1, <1>2, <1>3, <1>4, GoKeeps

-------------------------------------------------------------------------------
(* At the exchange and behind it                                              *)

LEMMA ExchangeKeeps == ASSUME IInv, NEW r \in Requests, Exchange(r) PROVE IInv'
<1>1. h[r].pc = "place" /\ order[r] = "none" /\ heard[r] = "none" /\ reply[r] = "none" /\ ~late[r]
  BY DEF Exchange, At, IInv, Staged, Caught, Before, OnTheWay
<1>2. /\ h' \in [Requests -> Handlers] /\ h'[r].pc = "ack" /\ h'[r].body = h[r].body /\ h'[r].qty = h[r].qty
      /\ \A x \in Requests \ {r} : h'[x] = h[x]
  <2>1. h \in [Requests -> Handlers] /\ h[r] \in Handlers /\ h' = [h EXCEPT ![r].pc = "ack"]
    BY DEF Exchange, Go, IInv, Types
  <2>2. [h[r] EXCEPT !.pc = "ack"] \in Handlers
    BY <2>1 DEF Handlers, Places
  <2>3. h'[r] = [h[r] EXCEPT !.pc = "ack"] /\ h' \in [Requests -> Handlers]
    BY <2>1, <2>2
  <2>4. h'[r].pc = "ack" /\ h'[r].body = h[r].body /\ h'[r].qty = h[r].qty
    BY <2>1, <2>3 DEF Handlers
  <2> QED
    BY <2>1, <2>3, <2>4
<1>3. /\ order' \in [Requests -> {"none", "resting", "refused", "filled", "cancelled"}]
      /\ heard' \in [Requests -> {"none", "ok", "failed"}]
      /\ order'[r] \in {"resting", "refused"} /\ heard'[r] \in {"ok", "failed"}
      /\ heard'[r] = "ok" => order'[r] = "resting"
      /\ \A x \in Requests \ {r} : order'[x] = order[x] /\ heard'[x] = heard[x]
  BY DEF Exchange, IInv, Types
<1>4. UNCHANGED <<reply, positions, lock, intent, cand, saved, cache, late, forgotten, blind>>
  BY DEF Exchange, Go, memory, ghosts
<1>5. AnsweredKeys' = AnsweredKeys
  BY <1>1, <1>2, <1>4, KeysStay
<1>6. Types'
  BY <1>2, <1>3, <1>4 DEF IInv, Types
<1>7. \A x \in Requests : Staged(x)' /\ Truthful(intent, x)' /\ Truthful(saved.intent, x)'
  BY <1>1, <1>2, <1>3, <1>4 DEF IInv, Staged, Truthful, Stopped, OrderTaken, After, Before, OnTheWay
<1>8. \A x \in Requests : Caught(x)'
  BY <1>1, <1>2, <1>3, <1>4, <1>5 DEF IInv, Caught
<1>9. Earned(cand)' /\ Earned(saved.cand)'
  <2>1. ASSUME NEW c, Earned(c), c \in Candidates
        PROVE  Earned(c)'
    BY <2>1, <1>1, <1>2, <1>3 DEF Earned, Candidates
  <2> QED
    BY <2>1, <1>4 DEF IInv, Types
<1>10. ASSUME ~blind PROVE Capped'
  <2>1. /\ Sighted(r)' /\ Amount(r) = h[r].qty /\ h[r].qty \in Nat
        /\ Committed(r)' => Amount(r)' = h[r].qty
    <3>1. Sighted(r)'
      BY <1>2 DEF Sighted
    <3>2. h[r].qty \in Nat
      BY DEF IInv, Types, Handlers
    <3>3. Amount(r) = h[r].qty
      BY <1>1 DEF Amount
    <3>4. Committed(r)' => Amount(r)' = h[r].qty
      BY <1>2, <1>3 DEF Amount, Committed
    <3> QED
      BY <3>1, <3>2, <3>3, <3>4
  <2>2. Committed(r)' => Committed(r)
    BY <1>1, <1>2 DEF Committed, IsEntry
  <2> QED
    BY <1>2, <1>3, <1>4, <1>10, <2>1, <2>2, CapStays
<1> QED
  BY <1>4, <1>5, <1>6, <1>7, <1>8, <1>9, <1>10 DEF IInv, KeysAreCached

(* Behind the exchange a handler changes records, and its answer goes into the *)
(* cache with it.                                                              *)
LEMMA StepsBehind ==
  ASSUME IInv, NEW r \in Requests, NEW n \in Handlers, h[r].pc \in After,
         n.pc \in {"clear", "finish", "done", "dead"}, n.body = h[r].body, n.qty = h[r].qty, n.named = h[r].named,
         h' = [h EXCEPT ![r] = n],
         UNCHANGED <<order, heard, positions, lock, late, forgotten, blind>>,
         cache \subseteq cache',
         \/ reply' = reply
         \/ /\ n.pc = "done" /\ \E how \in {"placed", "failed"} : reply' = [reply EXCEPT ![r] = how]
            /\ h[r].body.kind = "market" /\ h[r].body.key # NoKey => h[r].body.key \in cache',
         intent' \in [Requests -> Statuses], cand' \in Candidates,
         saved' \in [intent : [Requests -> Statuses], cand : Candidates],
         \A x \in Requests : Truthful(intent, x)' /\ Truthful(saved.intent, x)',
         Earned(cand)', Earned(saved.cand)'
  PROVE  IInv'
<1>1. h'[r] = n /\ \A x \in Requests \ {r} : h'[x] = h[x]
  BY DEF IInv, Types
<1>2. order[r] # "none" /\ heard[r] # "none" /\ reply[r] = "none" /\ ~late[r]
  BY DEF IInv, Staged, Caught, After
<1>3. /\ reply' \in [Requests -> {"none", "refused", "placed", "failed", "cached"}]
      /\ \A x \in Requests \ {r} : reply'[x] = reply[x]
      /\ reply'[r] \in {"none", "placed", "failed"} /\ (reply'[r] # "none" => n.pc = "done")
  BY <1>2 DEF IInv, Types
<1>4. /\ AnsweredKeys \subseteq AnsweredKeys'
      /\ AnsweredKeys' \subseteq AnsweredKeys \cup cache'
  <2>1. ASSUME NEW k \in AnsweredKeys PROVE k \in AnsweredKeys'
    <3>1. PICK x \in Requests : reply[x] \in {"placed", "failed"} /\ h[x].body.kind = "market" /\ k = h[x].body.key /\ k # NoKey
      BY DEF AnsweredKeys
    <3>2. x # r /\ h'[x] = h[x] /\ reply'[x] = reply[x]
      BY <1>1, <1>2, <1>3, <3>1
    <3> QED
      BY <3>1, <3>2 DEF AnsweredKeys
  <2>2. ASSUME NEW k \in AnsweredKeys' PROVE k \in AnsweredKeys \cup cache'
    <3>1. PICK x \in Requests : reply'[x] \in {"placed", "failed"} /\ h'[x].body.kind = "market" /\ k = h'[x].body.key /\ k # NoKey
      BY DEF AnsweredKeys
    <3>2. CASE x = r
      BY <1>1, <1>2, <3>1, <3>2
    <3>3. CASE x # r
      <4>1. h'[x] = h[x] /\ reply'[x] = reply[x]
        BY <1>1, <1>3, <3>3
      <4> QED
        BY <3>1, <4>1 DEF AnsweredKeys
    <3> QED
      BY <3>2, <3>3
  <2> QED
    BY <2>1, <2>2
<1>5. Types'
  <2>1. h' \in [Requests -> Handlers]
    BY DEF IInv, Types
  <2> QED
    BY <1>3, <2>1 DEF IInv, Types
<1>6. \A x \in Requests : Staged(x)'
  BY <1>1, <1>2, <1>3 DEF IInv, Staged, OrderTaken, After, Before, OnTheWay
<1>7. \A x \in Requests : Caught(x)'
  BY <1>1, <1>2, <1>4 DEF IInv, Caught
<1>8. KeysAreCached'
  BY <1>4 DEF IInv, KeysAreCached
<1>9. ASSUME ~blind PROVE Capped'
  <2>1. Sighted(r)'
    BY <1>1 DEF Sighted
  <2>2. Committed(r)' => Committed(r) /\ Amount(r)' = Amount(r) /\ Amount(r) \in Nat
    <3>1. h[r].qty \in Nat
      BY DEF IInv, Types, Handlers
    <3> QED
      BY <1>1, <1>2, <3>1 DEF Committed, IsEntry, Amount
  <2> QED
    BY <1>1, <1>9, <2>1, <2>2, CapStays
<1> QED
  BY <1>5, <1>6, <1>7, <1>8, <1>9 DEF IInv

LEMMA HandlerStep ==
  ASSUME NEW n \in Handlers, NEW where \in Places
  PROVE  LET m == [n EXCEPT !.pc = where] IN
         m \in Handlers /\ m.pc = where /\ m.body = n.body /\ m.qty = n.qty /\ m.named = n.named
  BY DEF Handlers

LEMMA RoutedIsNamed ==
  ASSUME NEW c \in Candidates, NEW r \in Requests
  PROVE  LET d == Route(c, r) IN
         d \in Candidates /\ (d.order = c.order \/ d.order = r) /\ (d.state = "executed" => c = d)
<1>1. c.state \in States /\ c.order \in Requests \cup {NoOrder}
  BY DEF Candidates
<1> DEFINE ready == IF c.state = "validated" THEN Transition(c, "actionable", NoOrder) ELSE c
<1>2. ready = c \/ ready = [state |-> "actionable", order |-> c.order]
  BY DEF Transition
<1>3. Route(c, r) = ready \/ Route(c, r) = [state |-> "routed", order |-> r]
  BY LimitsAssumption DEF Route, Transition
<1>4. {"actionable", "routed"} \subseteq States
  BY DEF States
<1> QED
  BY <1>1, <1>2, <1>3, <1>4 DEF Candidates

LEMMA ReconciledIsNamed ==
  ASSUME NEW c \in Candidates, NEW r \in Requests
  PROVE  LET d == Reconcile(c, r, "auto_order_placed") IN
         d \in Candidates /\ d.order = c.order /\ (d.state = "executed" => c = d \/ d.order = r)
<1>1. c.state \in States /\ c.order \in Requests \cup {NoOrder} /\ "executed" \in States /\ r # NoOrder
  BY LimitsAssumption DEF Candidates, States
<1>2. \/ Reconcile(c, r, "auto_order_placed") = c
      \/ c.order = r /\ Reconcile(c, r, "auto_order_placed") = [state |-> "executed", order |-> r]
  BY <1>1 DEF Reconcile, Transition
<1> QED
  BY <1>1, <1>2 DEF Candidates

(* The order was named by its own snapshot before the candidate names it.      *)
LEMMA AcknowledgeKeeps == ASSUME IInv, NEW r \in Requests, Acknowledge(r) PROVE IInv'
<1>1. h[r].pc = "ack" /\ heard[r] # "none"
  BY DEF Acknowledge, At, IInv, Staged, After
<1>2. h[r] \in Handlers /\ cand \in Candidates /\ Earned(cand) /\ Earned(saved.cand) /\ saved.cand \in Candidates
      /\ intent \in [Requests -> Statuses]
  BY DEF IInv, Types
<1>3. UNCHANGED <<reply, order, heard, positions, lock, saved, cache, late, forgotten, blind>>
  BY DEF Acknowledge, Go, market, ghosts
<1>4. PICK where \in {"clear", "finish"} : h' = [h EXCEPT ![r].pc = where]
  BY DEF Acknowledge, Go
<1> DEFINE n == [h[r] EXCEPT !.pc = where]
<1>5. n \in Handlers /\ n.pc = where /\ n.body = h[r].body /\ n.qty = h[r].qty /\ n.named = h[r].named
  BY <1>2, HandlerStep DEF Places
<1>6. h' = [h EXCEPT ![r] = n] /\ h'[r] = n /\ \A x \in Requests \ {r} : h'[x] = h[x]
  BY <1>4 DEF IInv, Types
<1> HIDE DEF n
<1>7. cand.order # r /\ saved.cand.order # r
  BY <1>1, <1>2, LimitsAssumption DEF Earned
<1>8. ASSUME NEW c \in Candidates, c.order # r, Earned(c) PROVE Earned(c)'
  BY <1>3, <1>6, <1>8 DEF Earned, Candidates
<1>9. cand' \in Candidates /\ Earned(cand)'
  <2>1. CASE heard[r] = "ok"
    <3> DEFINE c == IF h[r].named THEN Route(cand, r) ELSE cand
    <3>1. c \in Candidates /\ (c.order = cand.order \/ (c.order = r /\ h[r].named)) /\ (c.state = "executed" => c = cand)
      BY <1>2, RoutedIsNamed
    <3>2. cand' = Reconcile(c, r, "auto_order_placed")
      BY <2>1 DEF Acknowledge
    <3> HIDE DEF c
    <3>3. /\ cand' \in Candidates /\ cand'.order = c.order
          /\ cand'.state = "executed" => c = cand' \/ cand'.order = r
      BY <3>1, <3>2, ReconciledIsNamed
    <3>4. CASE cand'.order = r
      <4>1. h[r].named
        BY <1>7, <3>1, <3>3, <3>4
      <4> QED
        BY <1>3, <1>5, <1>6, <2>1, <3>3, <3>4, <4>1, LimitsAssumption DEF Earned
    <3>5. CASE cand'.order # r
      <4>1. cand'.order = cand.order /\ (cand'.state = "executed" => cand.state = "executed")
        BY <3>1, <3>3, <3>5
      <4>2. cand'.state = "executed" => cand'.order # NoOrder
        BY <1>2, <4>1 DEF Earned
      <4>3. cand'.order # NoOrder => heard[cand'.order] = "ok" /\ h[cand'.order].named /\ h[cand'.order].pc # "ack"
        BY <1>2, <4>1 DEF Earned
      <4>4. cand'.order # NoOrder => h'[cand'.order] = h[cand'.order]
        BY <1>6, <3>3, <3>5 DEF Candidates
      <4> QED
        BY <1>3, <3>3, <4>2, <4>3, <4>4 DEF Earned
    <3> QED
      BY <3>4, <3>5
  <2>2. CASE heard[r] # "ok"
    <3>1. cand' = cand
      BY <2>2 DEF Acknowledge
    <3> QED
      BY <1>2, <1>7, <1>8, <3>1
  <2> QED
    BY <2>1, <2>2
<1>10. Earned(saved.cand)'
  BY <1>2, <1>3, <1>7, <1>8
<1>11. /\ intent' \in [Requests -> Statuses] /\ \A x \in Requests \ {r} : intent'[x] = intent[x]
       /\ intent'[r] = "auto_order_placed" => heard[r] = "ok" \/ intent[r] = "auto_order_placed"
       /\ intent'[r] \in {"policy_rejected", "rejected"} => heard[r] # "ok" \/ intent[r] \in {"policy_rejected", "rejected"}
  BY <1>2 DEF Acknowledge, Statuses
<1>12. \A x \in Requests : Truthful(intent, x)' /\ Truthful(saved.intent, x)'
  BY <1>1, <1>3, <1>6, <1>11 DEF IInv, Types, Truthful, Stopped
<1>13. saved' \in [intent : [Requests -> Statuses], cand : Candidates] /\ h[r].pc \in After
  BY <1>1, <1>3 DEF IInv, Types, After
<1> QED
  BY <1>3, <1>5, <1>6, <1>9, <1>10, <1>11, <1>12, <1>13, StepsBehind

(* What is in memory may be stored at any time.                                *)
LEMMA StoringKeeps ==
  ASSUME IInv, NEW r \in Requests, NEW n \in Handlers, h[r].pc \in {"clear", "finish"},
         n.pc \in {"finish", "done", "dead"}, n.body = h[r].body, n.qty = h[r].qty, n.named = h[r].named,
         h' = [h EXCEPT ![r] = n],
         UNCHANGED <<market, memory, ghosts>>,
         saved' = saved \/ saved' = [intent |-> intent, cand |-> cand], cache \subseteq cache',
         \/ reply' = reply
         \/ /\ n.pc = "done" /\ \E how \in {"placed", "failed"} : reply' = [reply EXCEPT ![r] = how]
            /\ h[r].body.kind = "market" /\ h[r].body.key # NoKey => h[r].body.key \in cache'
  PROVE  IInv'
<1>1. UNCHANGED <<order, heard, positions, lock, intent, cand, late, forgotten, blind>> /\ h[r].pc \in After
  BY DEF market, memory, ghosts, After
<1>2. h'[r] = n /\ \A x \in Requests \ {r} : h'[x] = h[x]
  BY DEF IInv, Types
<1>3. order[r] # "none"
  BY <1>1 DEF IInv, Staged
<1>4. /\ intent \in [Requests -> Statuses] /\ cand \in Candidates /\ Earned(cand) /\ Earned(saved.cand)
      /\ saved.cand \in Candidates /\ saved \in [intent : [Requests -> Statuses], cand : Candidates]
  BY DEF IInv, Types
<1>5. ASSUME NEW c \in Candidates, Earned(c) PROVE Earned(c)'
  BY <1>1, <1>2, <1>5 DEF Earned, Candidates
<1>6. ASSUME NEW i, \A x \in Requests : Truthful(i, x)
      PROVE  \A x \in Requests : Truthful(i, x)'
  BY <1>1, <1>2, <1>3, <1>6 DEF Truthful, Stopped
<1>7. \A x \in Requests : Truthful(intent, x) /\ Truthful(saved.intent, x)
  BY DEF IInv
<1>8. saved' \in [intent : [Requests -> Statuses], cand : Candidates] /\ Earned(saved.cand)' /\ Earned(cand)'
  BY <1>1, <1>4, <1>5
<1>9. \A x \in Requests : Truthful(intent, x)' /\ Truthful(saved.intent, x)'
  BY <1>1, <1>6, <1>7
<1> QED
  BY <1>1, <1>4, <1>8, <1>9, StepsBehind

LEMMA ClearPendingKeeps == ASSUME IInv, NEW r \in Requests, ClearPending(r) PROVE IInv'
<1>1. h[r].pc = "clear" /\ h[r] \in Handlers /\ order[r] # "none" /\ h \in [Requests -> Handlers]
  BY DEF ClearPending, At, IInv, Types, Staged, After
<1>2. UNCHANGED <<market, memory, cache, ghosts>> /\ reply' = reply
      /\ (saved' = saved \/ saved' = [intent |-> intent, cand |-> cand])
  BY DEF ClearPending, Go, Die
<1>3. CASE Go(r, "finish")
  <2> DEFINE n == [h[r] EXCEPT !.pc = "finish"]
  <2>1. n \in Handlers /\ n.pc = "finish" /\ n.body = h[r].body /\ n.qty = h[r].qty /\ n.named = h[r].named
    BY <1>1, HandlerStep DEF Places
  <2>2. h' = [h EXCEPT ![r] = n]
    BY <1>1, <1>3 DEF Go
  <2> HIDE DEF n
  <2> QED
    BY <1>1, <1>2, <2>1, <2>2, StoringKeeps
<1>4. CASE Die(r)
  <2>1. h' = [h EXCEPT ![r] = Ended(r, "dead")]
    BY <1>4 DEF Die
  <2>2. Types
    BY DEF IInv
  <2> QED
    BY <1>1, <1>2, <2>1, <2>2, EndedType, StoringKeeps
<1> QED
  BY <1>3, <1>4 DEF ClearPending

LEMMA FinishKeeps == ASSUME IInv, NEW r \in Requests, Finish(r) PROVE IInv'
<1>1. h[r].pc = "finish" /\ h[r] \in Handlers /\ order[r] # "none" /\ Types
  BY DEF Finish, At, IInv, Types, Staged, After
<1>2. UNCHANGED <<market, memory, ghosts>> /\ cache \subseteq cache'
      /\ (saved' = saved \/ saved' = [intent |-> intent, cand |-> cand])
  BY DEF Finish, Store, memory
<1>3. CASE /\ Answer(r, IF heard[r] = "ok" THEN "placed" ELSE "failed")
           /\ cache' = IF h[r].body.kind = "market" /\ h[r].body.key # NoKey THEN cache \cup {h[r].body.key} ELSE cache
  <2>1. h' = [h EXCEPT ![r] = Ended(r, "done")] /\ \E how \in {"placed", "failed"} : reply' = [reply EXCEPT ![r] = how]
    BY <1>3 DEF Answer
  <2>2. h[r].body.kind = "market" /\ h[r].body.key # NoKey => h[r].body.key \in cache'
    BY <1>3
  <2> QED
    BY <1>1, <1>2, <2>1, <2>2, EndedType, StoringKeeps
<1>4. CASE Die(r)
  <2>1. h' = [h EXCEPT ![r] = Ended(r, "dead")] /\ reply' = reply
    BY <1>4 DEF Die
  <2> QED
    BY <1>1, <1>2, <2>1, EndedType, StoringKeeps
<1> QED
  BY <1>3, <1>4 DEF Finish

(* The daily loss empties the account; orders at the exchange are cancelled.   *)
LEMMA CloseAllKeeps == ASSUME IInv, NEW r \in Requests, CloseAll(r) PROVE IInv'
<1>1. h[r].pc = "closing" /\ Answer(r, "refused") /\ h[r].pc \in Before
  BY DEF CloseAll, At, Before
<1>2. UNCHANGED <<heard, lock, intent, cand, saved, cache, late, forgotten, blind>> /\ lock \in BOOLEAN /\ blind \in BOOLEAN
  BY DEF CloseAll, memory, ghosts, IInv, Types
<1>3. CASE UNCHANGED <<order, positions>>
  BY <1>1, <1>2, <1>3, AnswerKeeps DEF memory
<1>4. CASE /\ order' = [x \in Requests |-> IF order[x] = "resting" THEN "cancelled" ELSE order[x]]
           /\ positions' = 0
  <2>1. order[r] = "none" /\ heard[r] = "none" /\ reply[r] = "none" /\ Types
    BY <1>1 DEF IInv, Staged
  <2>2. /\ h'[r] \in Handlers /\ h'[r].pc = "done" /\ h' \in [Requests -> Handlers]
        /\ \A x \in Requests \ {r} : h'[x] = h[x]
    BY <1>1, <2>1, EndedType DEF Answer, Types
  <2>3. /\ reply' \in [Requests -> {"none", "refused", "placed", "failed", "cached"}]
        /\ reply'[r] = "refused" /\ \A x \in Requests \ {r} : reply'[x] = reply[x]
    BY <1>1, <2>1 DEF Answer, Types
  <2>4. /\ order' \in [Requests -> {"none", "resting", "refused", "filled", "cancelled"}]
        /\ \A x \in Requests : /\ order'[x] = "none" <=> order[x] = "none"
                               /\ OrderTaken(x) => OrderTaken(x)'
                               /\ order'[x] # "resting"
    BY <1>4, <2>1 DEF Types, OrderTaken
  <2>5. AnsweredKeys' = AnsweredKeys
    BY <2>1, <2>2, <2>3, KeysStay
  <2>6. Types'
    BY <1>2, <1>4, <2>1, <2>2, <2>3, <2>4 DEF Types
  <2>7. \A x \in Requests : Staged(x)'
    BY <1>2, <2>1, <2>2, <2>3, <2>4 DEF IInv, Staged, After, Before, OnTheWay
  <2>8. \A x \in Requests : Truthful(intent, x)' /\ Truthful(saved.intent, x)'
    BY <1>2, <2>1, <2>2, <2>4 DEF IInv, Truthful, Stopped
  <2>9. \A x \in Requests : Caught(x)'
    BY <1>2, <2>1, <2>2, <2>4, <2>5 DEF IInv, Caught
  <2>10. Earned(cand)' /\ Earned(saved.cand)'
    <3>1. ASSUME NEW c \in Candidates, Earned(c)
          PROVE  Earned(c)'
      BY <3>1, <1>2, <2>1, <2>2 DEF Earned, Candidates
    <3> QED
      BY <3>1, <1>2 DEF IInv, Types
  <2>11. ASSUME ~blind PROVE Capped'
    <3>1. Capped /\ positions \in Nat
      BY <2>11 DEF IInv, Types
    <3>2. ASSUME NEW x \in Requests
          PROVE  Sighted(x)' /\ (Committed(x)' => Committed(x) /\ Amount(x)' = Amount(x))
      <4>1. CASE x = r
        BY <2>1, <2>2, <2>4, <4>1 DEF Sighted, Committed
      <4>2. CASE x # r
        BY <2>2, <2>4, <3>1, <4>2 DEF Capped, Sighted, Committed, Amount, IsEntry
      <4> QED
        BY <4>1, <4>2
    <3>3. \A x \in Requests : Amount(x) \in Nat
      BY <2>1, BodyIsBody DEF Types, Handlers, Amount
    <3>4. ASSUME NEW x \in Requests, Committed(x)' PROVE positions' + Amount(x)' <= GrossCap
      <4>1. positions + Amount(x) <= GrossCap /\ Amount(x)' = Amount(x)
        BY <3>1, <3>2, <3>4 DEF Capped
      <4> QED
        BY <1>4, <3>1, <3>3, <4>1, LimitsAssumption
    <3>5. positions' <= GrossCap
      BY <1>4, LimitsAssumption
    <3> QED
      BY <3>1, <3>2, <3>4, <3>5 DEF Capped
  <2> QED
    BY <1>2, <2>5, <2>6, <2>7, <2>8, <2>9, <2>10, <2>11 DEF IInv, KeysAreCached
<1> QED
  BY <1>3, <1>4 DEF CloseAll

-------------------------------------------------------------------------------
(* Environment                                                                *)

LEMMA FillKeeps == ASSUME IInv, NEW r \in Requests, Fill(r) PROVE IInv'
<1>1. order[r] = "resting" /\ Types /\ positions \in Nat /\ h[r].qty \in Nat
  BY DEF Fill, IInv, Types, Handlers
<1>2. UNCHANGED <<h, reply, heard, lock, intent, cand, saved, cache, late, forgotten, blind>>
  BY DEF Fill, memory, ghosts
<1>3. /\ order' \in [Requests -> {"none", "resting", "refused", "filled", "cancelled"}]
      /\ order'[r] = "filled" /\ \A x \in Requests \ {r} : order'[x] = order[x]
  BY <1>1 DEF Fill, Types
<1>4. positions' \in Nat /\ (~IsEntry(r) => positions' <= positions)
  BY <1>1 DEF Fill, Smaller
<1>5. AnsweredKeys' = AnsweredKeys
  BY <1>2, KeysStay
<1>6. Types'
  BY <1>1, <1>2, <1>3, <1>4 DEF Types
<1>7. \A x \in Requests : Staged(x)' /\ Truthful(intent, x)' /\ Truthful(saved.intent, x)' /\ Caught(x)'
  BY <1>1, <1>2, <1>3, <1>5 DEF IInv, Staged, Truthful, Caught, OrderTaken
<1>8. Earned(cand)' /\ Earned(saved.cand)'
  BY <1>2 DEF IInv, Earned
<1>9. ASSUME ~blind PROVE Capped'
  <2>1. Capped
    BY <1>9 DEF IInv
  <2>2. \A x \in Requests \ {r} : (Committed(x)' <=> Committed(x)) /\ Amount(x)' = Amount(x) /\ Amount(x) \in Nat
    BY <1>1, <1>2, <1>3, BodyIsBody DEF Committed, IsEntry, Amount, Types, Handlers
  <2>3. ~Committed(r)' /\ \A x \in Requests : Sighted(x)'
    BY <1>2, <1>3, <2>1 DEF Committed, Capped, Sighted, IsEntry
  <2>4. CASE IsEntry(r)
    <3>1. Committed(r) /\ Amount(r) = h[r].qty
      BY <1>1, <2>4 DEF Committed, Amount
    <3>2. positions' <= GrossCap
      BY <1>1, <2>1, <2>4, <3>1 DEF Fill, Capped
    <3>3. \A x \in Requests : ~Committed(x)'
      BY <2>1, <2>2, <2>3, <3>1 DEF Capped
    <3> QED
      BY <2>3, <3>2, <3>3 DEF Capped
  <2>5. CASE ~IsEntry(r)
    <3>1. ASSUME NEW x \in Requests, Committed(x)' PROVE positions' + Amount(x)' <= GrossCap
      <4>1. x # r /\ positions + Amount(x) <= GrossCap /\ Amount(x)' = Amount(x) /\ Amount(x) \in Nat
        BY <2>1, <2>2, <2>3, <3>1 DEF Capped
      <4> QED
        BY <1>1, <1>4, <2>5, <4>1, LimitsAssumption
    <3>2. positions' <= GrossCap
      BY <1>1, <1>4, <2>1, <2>5, LimitsAssumption DEF Capped
    <3> QED
      BY <2>1, <2>2, <2>3, <3>1, <3>2 DEF Capped
  <2> QED
    BY <2>4, <2>5
<1> QED
  BY <1>2, <1>5, <1>6, <1>7, <1>8, <1>9 DEF IInv, KeysAreCached

(* What the radar, a reload, a pruned key and the end of a run of steps that   *)
(* touch no handler keep.                                                      *)
LEMMA RestKeeps ==
  ASSUME IInv, UNCHANGED <<h, reply, market, saved, blind>>,
         intent' \in {intent, saved.intent}, cand' \in Candidates, Earned(cand'),
         late' \in [Requests -> BOOLEAN],
         \A x \in Requests : late'[x] => late[x] /\ h[x].body.key \notin forgotten' \ forgotten,
         AnsweredKeys \ forgotten' \subseteq cache'
  PROVE  IInv'
<1>1. UNCHANGED <<h, reply, order, heard, positions, lock, saved, blind>>
  BY DEF market
<1>2. AnsweredKeys' = AnsweredKeys
  BY <1>1, KeysStay
<1>3. Types'
  BY <1>1 DEF IInv, Types
<1>4. \A x \in Requests : Staged(x)' /\ Truthful(intent, x)' /\ Truthful(saved.intent, x)'
  BY <1>1 DEF IInv, Staged, Truthful, OrderTaken
<1>5. \A x \in Requests : Caught(x)'
  BY <1>1, <1>2 DEF IInv, Caught
<1>6. Earned(cand)' /\ Earned(saved.cand)'
  BY <1>1 DEF IInv, Earned
<1>7. ~blind' => Capped'
  BY <1>1 DEF IInv, Capped, Sighted, Committed, Amount, IsEntry
<1> QED
  BY <1>2, <1>3, <1>4, <1>5, <1>6, <1>7 DEF IInv, KeysAreCached

LEMMA RadarMovesKeeps == ASSUME IInv, RadarMoves PROVE IInv'
<1>1. cand \in Candidates /\ Earned(cand) /\ late \in [Requests -> BOOLEAN] /\ AnsweredKeys \ forgotten \subseteq cache
  BY DEF IInv, Types, KeysAreCached
<1>2. UNCHANGED <<h, reply, market, intent, saved, cache, late, forgotten, blind>>
  BY DEF RadarMoves, ghosts
<1>3. PICK to \in {"actionable", "expired", "postmortem_ready"} : cand' = [state |-> to, order |-> cand.order]
  BY DEF RadarMoves, Transition
<1>4. cand' \in Candidates
  BY <1>1, <1>3 DEF Candidates, States
<1>5. Earned(cand')
  BY <1>1, <1>3 DEF Earned
<1> QED
  BY <1>1, <1>2, <1>4, <1>5, RestKeeps

LEMMA ReloadKeeps == ASSUME IInv, Reload PROVE IInv'
<1>1. saved.cand \in Candidates /\ Earned(saved.cand) /\ late \in [Requests -> BOOLEAN]
      /\ AnsweredKeys \ forgotten \subseteq cache
  BY DEF IInv, Types, KeysAreCached
<1>2. UNCHANGED <<h, reply, market, saved, cache, late, forgotten, blind>>
      /\ intent' = saved.intent /\ cand' = saved.cand
  BY DEF Reload, ghosts
<1> QED
  BY <1>1, <1>2, RestKeeps

LEMMA PruneKeeps == ASSUME IInv, Prune PROVE IInv'
<1>1. cand \in Candidates /\ Earned(cand) /\ late \in [Requests -> BOOLEAN] /\ AnsweredKeys \ forgotten \subseteq cache
  BY DEF IInv, Types, KeysAreCached
<1>2. PICK k \in cache : /\ cache' = cache \ {k} /\ forgotten' = forgotten \cup {k}
                         /\ late' = [r \in Requests |-> late[r] /\ h[r].body.key \notin {k}]
  BY DEF Prune, Forgotten
<1>3. UNCHANGED <<h, reply, market, intent, cand, saved, blind>>
  BY DEF Prune, memory
<1>4. /\ late' \in [Requests -> BOOLEAN]
      /\ \A x \in Requests : late'[x] => late[x] /\ h[x].body.key \notin forgotten' \ forgotten
  BY <1>1, <1>2
<1>5. AnsweredKeys \ forgotten' \subseteq cache'
  BY <1>1, <1>2
<1> QED
  BY <1>1, <1>3, <1>4, <1>5, RestKeeps

(* A crash ends every handler on its way and loses every answer.               *)
LEMMA CrashKeeps == ASSUME IInv, Crash PROVE IInv'
<1>1. Types /\ saved.cand \in Candidates /\ saved.intent \in [Requests -> Statuses]
  BY DEF IInv, Types
<1>2. UNCHANGED <<reply, order, heard, positions, lock, saved, blind>> /\ intent' = saved.intent /\ cand' = saved.cand
  BY DEF Crash, market
<1>3. /\ cache' = {} /\ forgotten' = forgotten \cup AnsweredKeys
      /\ late' = [r \in Requests |-> late[r] /\ h[r].body.key \notin AnsweredKeys]
  BY DEF Crash, Forgotten
<1>4. ASSUME NEW x \in Requests
      PROVE  /\ h'[x] \in Handlers
             /\ h'[x].pc \in {"idle", "done", "dead"} /\ (h'[x].pc = "dead" \/ h'[x] = h[x])
             /\ h[x].pc = "done" => h'[x] = h[x]
             /\ h[x].pc = "dead" => h'[x].pc = "dead"
             /\ order[x] # "none" => h'[x].body = h[x].body /\ h'[x].named = h[x].named /\ h'[x].qty = h[x].qty
  <2>1. h'[x] = IF h[x].pc \in {"idle", "done"} THEN h[x] ELSE Ended(x, "dead")
    BY DEF Crash
  <2>2. CASE h[x].pc \in {"idle", "done"}
    BY <1>1, <2>1, <2>2 DEF Types
  <2>3. CASE h[x].pc \notin {"idle", "done"}
    BY <1>1, <2>1, <2>3, EndedType
  <2> QED
    BY <2>2, <2>3
<1>5. \A x \in Requests : reply[x] # "none" => h[x].pc = "done"
  BY DEF IInv, Staged
<1>6. AnsweredKeys' = AnsweredKeys
  BY <1>2, <1>4, <1>5, KeysStay
<1>7. Types'
  <2>1. h' \in [Requests -> Handlers]
    BY <1>4 DEF Crash
  <2>2. late' \in [Requests -> BOOLEAN]
    BY <1>1, <1>3 DEF Types
  <2> QED
    BY <1>1, <1>2, <2>1, <2>2 DEF Types
<1>8. \A x \in Requests : Staged(x)'
  BY <1>2, <1>4, <1>5 DEF IInv, Staged, OrderTaken, After, Before, OnTheWay
<1>9. \A x \in Requests : Truthful(intent, x)' /\ Truthful(saved.intent, x)'
  <2>1. \A x \in Requests : Truthful(saved.intent, x)
    BY DEF IInv
  <2>2. \A x \in Requests : h[x].pc \in Stopped => h'[x].pc \in Stopped
    BY <1>4 DEF Stopped
  <2> QED
    BY <1>2, <2>1, <2>2 DEF Truthful
<1>10. \A x \in Requests : Caught(x)'
  <2>1. \A x \in Requests : late'[x] => late[x] /\ h[x].body.key \notin AnsweredKeys
    BY <1>1, <1>3 DEF Types
  <2>2. \A x \in Requests : late'[x] => order[x] = "none" /\ h[x].pc \in {"done", "dead"}
    BY <2>1 DEF IInv, Caught
  <2> QED
    BY <1>2, <1>4, <2>2 DEF Caught
<1>11. Earned(cand)' /\ Earned(saved.cand)'
  <2>1. Earned(saved.cand)
    BY DEF IInv
  <2>2. ASSUME NEW x \in Requests, heard[x] = "ok" PROVE h'[x].named = h[x].named /\ h'[x].pc # "ack"
    BY <1>4, <2>2 DEF IInv, Staged
  <2> QED
    BY <1>1, <1>2, <2>1, <2>2 DEF Earned, Candidates
<1>12. KeysAreCached'
  BY <1>3, <1>6 DEF KeysAreCached
<1>13. ASSUME ~blind PROVE Capped'
  <2>1. Capped
    BY <1>13 DEF IInv
  <2>2. \A x \in Requests : Sighted(x)' /\ (Committed(x)' => Committed(x) /\ Amount(x)' = Amount(x))
    BY <1>2, <1>4 DEF Sighted, Committed, Amount, IsEntry
  <2> QED
    BY <1>2, <2>1, <2>2 DEF Capped
<1> QED
  BY <1>2, <1>7, <1>8, <1>9, <1>10, <1>11, <1>12, <1>13 DEF IInv

-------------------------------------------------------------------------------
LEMMA OrdersNext == ASSUME IInv, [Next]_vars PROVE IInv'
<1>1. CASE UNCHANGED vars
  <2>1. UNCHANGED <<h, reply, market, saved, blind, intent, cand, late, forgotten, cache>>
    BY <1>1 DEF vars, memory, ghosts
  <2>2. cand \in Candidates /\ Earned(cand) /\ late \in [Requests -> BOOLEAN] /\ AnsweredKeys \ forgotten \subseteq cache
    BY DEF IInv, Types, KeysAreCached
  <2> QED
    BY <2>1, <2>2, RestKeeps
<1>2. ASSUME NEW r \in Requests, Handler(r) PROVE IInv'
  BY <1>2, ArriveKeeps, FreshTickKeeps, RiskReadKeeps, CloseAllKeeps, ExposureReadKeeps, GrossReadKeeps,
     SignalReadKeeps, PolicyGateKeeps, StartKeeps, SizeReadKeeps, RefuseKeeps, LeverageKeeps, ExchangeKeeps,
     AcknowledgeKeeps, ClearPendingKeeps, FinishKeeps DEF Handler
<1>3. ASSUME NEW r \in Requests, Fill(r) PROVE IInv'
  BY <1>3, FillKeeps
<1>4. CASE RadarMoves \/ Reload \/ Prune \/ Crash
  BY <1>4, RadarMovesKeeps, ReloadKeeps, PruneKeeps, CrashKeeps
<1> QED
  BY <1>1, <1>2, <1>3, <1>4 DEF Next

LEMMA OrdersIInv == Spec => []IInv
BY OrdersInit, OrdersNext, PTL DEF Spec

(* The records say nothing of an order that the exchange would not confirm, for *)
(* any mix of requests, reloads of old records and crashes (server/index.ts    *)
(* 10092-10402, 9210-9506).                                                    *)
THEOREM OrderRecordsAreTrue == Spec => []RecordsAreTrue
<1>1. ASSUME IInv PROVE RecordsAreTrue
  <2>1. \A x \in Requests : /\ heard[x] = "ok" => OrderTaken(x)
                            /\ order[x] = "none" => ~OrderTaken(x)
    BY <1>1 DEF IInv, Staged, OrderTaken
  <2>2. TrueIntents(intent) /\ TrueIntents(saved.intent)
    BY <1>1, <2>1 DEF IInv, Truthful, TrueIntents
  <2>3. TrueCandidate(cand) /\ TrueCandidate(saved.cand)
    BY <1>1, <2>1 DEF IInv, Types, Candidates, Earned, TrueCandidate
  <2> QED
    BY <2>2, <2>3 DEF RecordsAreTrue
<1> QED
  BY <1>1, OrdersIInv, PTL

(* A retry sent after its key was answered, and before the answer is forgotten, *)
(* reaches no exchange, for any number of requests under any keys              *)
(* (server/index.ts 10255-10262).                                              *)
THEOREM LateRetries == Spec => []LateRetryPlacesNothing
<1>1. IInv => LateRetryPlacesNothing
  BY DEF IInv, Caught, LateRetryPlacesNothing
<1> QED
  BY <1>1, OrdersIInv, PTL

(* The account stays within the gross cap for any equity, cap and sizes, as    *)
(* long as no entry was compared with the cap while another rested or was on   *)
(* its way, or while the equity was unknown (server/index.ts 5912-5933).       *)
THEOREM OrdersStayCapped == Spec => []CapUnlessBlind
<1>1. IInv => CapUnlessBlind
  BY DEF IInv, Capped, CapUnlessBlind
<1> QED
  BY <1>1, OrdersIInv, PTL
===============================================================================
