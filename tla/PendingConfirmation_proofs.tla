---------------------- MODULE PendingConfirmation_proofs ----------------------
(***************************************************************************)
(* Manual mode for any numbers of monitors, requests, updates, timeouts,   *)
(* crashes and copies of the snapshot.                                     *)
(***************************************************************************)
EXTENDS PendingConfirmation, FiniteSetTheorems, TLAPS

(* Wherever a pending can still come from.                                 *)
Snapshots == {mem, disk} \cup copy
Stored    == UNION {d.pend : d \in Snapshots}
Pendings  == Stored \cup UNION {req[r].p : r \in Requests}

(* The Telegram request runs exactly while the tick serves an update.      *)
Serving ==
  /\ req[Telegram].pc # "done"
  /\ req[Telegram].pc # "idle" <=> tg.pc = "serving"
  /\ tg.pc \in {"serving", "reply"} => tg.at < tg.upto

(* A signal makes one pending, and a new one is younger than all others.   *)
Aged     == \A p \in Pendings : p.born <= born /\ p.id <= born
Known    == \A p, q \in Pendings : p.born = q.born => p = q
OneId(S) == \A p, q \in S : p.id = q.id => p = q
Distinct == \A d \in Snapshots : OneId(d.pend)

(* A pass that awaits the bias has its signal.                             *)
Signalled == \A m \in Monitors : mon[m].pc = "bias" => mon[m].sym \in Symbols /\ mon[m].side \in Sides

Base == TypeOK /\ Serving /\ Signalled /\ Aged /\ Known /\ Distinct

(* The conjuncts of TypeOK by what they are about.                         *)
Idle   == {"idle", "done"}
Awaits == {"leverage", "place", "verify", "placed", "acking", "refused", "protect", "rejecting"}
RunType  == [pc: Awaits \cup Idle, p: SUBSET Pending, attempt: {1, 2}]
TickType == [pc: {"idle", "handle", "serving", "reply", "saving"}, at: 0..MaxUpdates, upto: 0..MaxUpdates]
PassType == [pc: {"idle", "held", "bias"}, sym: Symbols \cup {Nothing}, side: Sides \cup {Nothing}]
DataTypes ==
  /\ mem \in Data /\ disk \in Data
  /\ copy \subseteq Data /\ Cardinality(copy) <= 1 /\ copies \in 0..MaxCopies
Clocks    == born \in 0..MaxSignals /\ expired \in 0..born
Runs ==
  /\ req \in [Requests -> RunType]
  /\ \A r \in Requests : req[r].pc \notin Idle => Cardinality(req[r].p) = 1
Venue ==
  /\ pos \in [Symbols -> Sides \cup {Flat}]
  /\ stops \subseteq {s \in Symbols : pos[s] # Flat}
  /\ fills \in [Born -> 0..MaxFills]
Inbox == inbox \in Seq(Command) /\ Len(inbox) <= MaxUpdates

LEMMA TypeParts ==
  TypeOK <=> /\ DataTypes /\ Clocks /\ mon \in [Monitors -> PassType] /\ Runs /\ tg \in TickType
             /\ Inbox /\ Venue /\ answered \subseteq Born /\ trouble \in Nat
BY DEF TypeOK, DataTypes, Clocks, PassType, Runs, RunType, Awaits, Idle, TickType, Inbox, Venue

LEMMA TypePartsNext ==
  TypeOK' <=> /\ DataTypes' /\ Clocks' /\ mon' \in [Monitors -> PassType] /\ Runs' /\ tg' \in TickType
              /\ Inbox' /\ Venue' /\ answered' \subseteq Born /\ trouble' \in Nat
BY DEF TypeOK, DataTypes, Clocks, PassType, Runs, RunType, Awaits, Idle, TickType, Inbox, Venue

LEMMA TelegramRequests == Telegram \in Requests /\ Dashboards \subseteq Requests /\ Telegram \notin Dashboards
BY PendingAssumption DEF Requests

-----------------------------------------------------------------------------
(* Snapshots                                                               *)

LEMMA DataPend ==
  ASSUME NEW d \in Data, NEW S \in SUBSET Pending
  PROVE  LET e == [d EXCEPT !.pend = S]
         IN  e \in Data /\ e.pend = S /\ e.events = d.events /\ e.offset = d.offset
BY DEF Data

(* What a step may leave in the snapshots and in the hands of requests.    *)
Sourced == \A d \in Snapshots' : d.pend \subseteq Stored /\ OneId(d.pend)
HeldFrom == \A r \in Requests : req'[r].p \subseteq Pendings

LEMMA SourcedKeeps ==
  ASSUME Base, Sourced, HeldFrom, UNCHANGED born
  PROVE  Aged' /\ Known' /\ Distinct'
<1>1. Pendings' \subseteq Pendings
  <2>1. Stored' \subseteq Stored
    BY DEF Sourced, Stored
  <2> QED
    BY <2>1 DEF Pendings, HeldFrom
<1>2. Aged' /\ Known'
  BY <1>1 DEF Base, Aged, Known
<1>3. Distinct'
  BY DEF Sourced, Distinct
<1> QED
  BY <1>2, <1>3

(* The memory loses some pendings or none.                                 *)
Trims == mem' \in Data /\ mem'.pend \subseteq mem.pend /\ UNCHANGED <<disk, copy>>

LEMMA TrimsSourced == ASSUME Base, Trims PROVE Sourced
<1>1. Snapshots' = {mem', disk} \cup copy
  BY DEF Trims, Snapshots
<1>2. mem'.pend \subseteq Stored /\ OneId(mem'.pend)
  BY DEF Trims, Stored, Snapshots, Base, Distinct, OneId
<1>3. \A d \in {disk} \cup copy : d.pend \subseteq Stored /\ OneId(d.pend)
  BY DEF Stored, Snapshots, Base, Distinct
<1> QED
  BY <1>1, <1>2, <1>3 DEF Sourced

LEMMA StayTrims == ASSUME Base, UNCHANGED <<mem, disk, copy>> PROVE Trims
BY TypeParts DEF Trims, Base, DataTypes

LEMMA ShrinkTrims ==
  ASSUME Base, NEW S \in SUBSET mem.pend, mem' = [mem EXCEPT !.pend = S], UNCHANGED <<disk, copy>>
  PROVE  Trims
<1>1. mem \in Data /\ S \in SUBSET Pending
  BY TypeParts DEF Base, DataTypes, Data
<1> QED
  BY <1>1, DataPend DEF Trims

LEMMA RemoveTrims ==
  ASSUME Base, NEW id, mem' = Remove(mem, id), UNCHANGED <<disk, copy>>
  PROVE  Trims /\ mem'.pend = {p \in mem.pend : p.id # id}
<1> DEFINE S == {p \in mem.pend : p.id # id}
<1>1. mem' = [mem EXCEPT !.pend = S]
  BY DEF Remove
<1>2. S \in SUBSET mem.pend
  OBVIOUS
<1>3. mem \in Data /\ S \in SUBSET Pending
  BY TypeParts DEF Base, DataTypes, Data
<1> HIDE DEF S
<1>4. Trims /\ mem'.pend = S
  BY <1>1, <1>2, <1>3, ShrinkTrims, DataPend
<1> QED
  BY <1>4 DEF S

(* A snapshot that lands in the store: the younger of two pendings with an *)
(* id is the only one, because no signal made two.                         *)
LEMMA MergedIs ==
  ASSUME Base, NEW local \in Snapshots
  PROVE  LET d == Merged(local)
         IN  /\ d \in Data /\ d.pend \subseteq Stored /\ OneId(d.pend)
             /\ Backend = "lowdb" => d = local
<1>1. local \in Data /\ disk \in Data /\ local.pend \subseteq Stored /\ disk.pend \subseteq Stored
  BY TypeParts DEF Base, DataTypes, Snapshots, Stored
<1>2. CASE Backend = "lowdb"
  BY <1>1, <1>2 DEF Merged, Base, Distinct
<1>3. CASE Backend # "lowdb"
  <2> DEFINE S == MergeById(disk.pend, local.pend)
  <2>1. S \subseteq Stored /\ S \in SUBSET Pending
    BY <1>1 DEF MergeById, Data
  <2>2. OneId(S)
    <3> SUFFICES ASSUME NEW p \in S, NEW q \in S, p.id = q.id PROVE p = q
      BY DEF OneId
    <3>1. q.born <= p.born /\ p.born <= q.born
      BY DEF MergeById
    <3>2. p.born \in Nat /\ q.born \in Nat /\ p \in Pendings /\ q \in Pendings
      BY <2>1 DEF Pending, Born, Pendings
    <3> QED
      BY <3>1, <3>2 DEF Base, Known
  <2>3. Merged(local) = [local EXCEPT !.pend = S]
    BY <1>3 DEF Merged
  <2> HIDE DEF S
  <2> QED
    BY <1>1, <1>3, <2>1, <2>2, <2>3, DataPend
<1> QED
  BY <1>2, <1>3

LEMMA FlushSourced ==
  ASSUME Base, Flush, UNCHANGED copy
  PROVE  Sourced /\ mem' \in Data /\ disk' \in Data /\ mem' = disk' /\ (Backend = "lowdb" => mem' = mem)
<1>1. disk' = Merged(mem) /\ mem' = Merged(mem) /\ mem \in Snapshots
  BY DEF Flush, Snapshots
<1>2. Snapshots' = {disk'} \cup copy
  BY <1>1 DEF Snapshots
<1>3. \A d \in copy : d.pend \subseteq Stored /\ OneId(d.pend)
  BY DEF Stored, Snapshots, Base, Distinct
<1> QED
  BY <1>1, <1>2, <1>3, MergedIs DEF Sourced

(* A new pending: the youngest, and the only one of its symbol and its id. *)
Adds(next) ==
  /\ next \in Pending /\ next.born = born + 1 /\ next.id <= born + 1
  /\ born' = born + 1 /\ born' \in 0..MaxSignals
  /\ mem' \in Data /\ mem'.pend \subseteq mem.pend \cup {next}
  /\ \A p \in mem'.pend : p.sym = next.sym \/ p.id = next.id => p = next
  /\ UNCHANGED <<disk, copy>>

LEMMA QueueIs ==
  ASSUME Base, NEW m \in Monitors, QueueCommit(m)
  PROVE  (Trims /\ UNCHANGED born) \/ \E next : Adds(next)
<1> DEFINE sym  == mon[m].sym
           side == mon[m].side
           list == Pruned(mem.pend)
           old  == {p \in list : p.sym = sym}
           id   == IF old = {} THEN born + 1 ELSE (CHOOSE p \in old : TRUE).id
           next == [id |-> id, sym |-> sym, side |-> side, born |-> born + 1]
<1>1. /\ UNCHANGED <<disk, copy>> /\ sym \in Symbols /\ side \in Sides
      /\ list \subseteq mem.pend /\ old \subseteq list
  BY DEF QueueCommit, MonitorOnly, jobs, Base, Signalled, Pruned
<1>2. CASE mem' = [mem EXCEPT !.pend = list] /\ UNCHANGED born
  BY <1>1, <1>2, ShrinkTrims
<1>3. CASE /\ born < MaxSignals /\ born' = born + 1
           /\ mem' = [mem EXCEPT !.pend = (list \ old) \cup {next}, !.events = @ \cup {next}]
  <2>1. mem \in Data /\ born \in 0..MaxSignals /\ MaxSignals \in Nat
    BY TypeParts, PendingAssumption DEF Base, DataTypes, Clocks
  <2>2. \A p \in mem.pend : p \in Pending /\ p.id \in Born /\ p.id <= born
    BY <2>1 DEF Data, Pending, Base, Aged, Pendings, Stored, Snapshots
  <2>3. id \in Born /\ id <= born + 1 /\ (old = {} => id = born + 1) /\ (old # {} => \E o \in old : id = o.id)
    <3>1. CASE old = {}
      BY <1>3, <2>1, <3>1 DEF Born
    <3>2. CASE old # {}
      <4>1. \E o \in old : id = o.id
        BY <3>2
      <4> HIDE DEF id, old
      <4>2. PICK o \in old : id = o.id /\ o \in mem.pend
        BY <1>1, <4>1
      <4> QED
        BY <2>1, <2>2, <3>2, <4>2 DEF Born
    <3> QED
      BY <3>1, <3>2
  <2>4. next \in Pending /\ next.born = born + 1 /\ next.id = id /\ next.sym = sym
    BY <1>1, <1>3, <2>1, <2>3 DEF Pending, Born
  <2>5. \A p \in list \ old : p.sym # sym /\ p.id # id
    <3> SUFFICES ASSUME NEW p \in list \ old PROVE p.sym # sym /\ p.id # id
      OBVIOUS
    <3>1. p.sym # sym
      OBVIOUS
    <3>2. CASE old = {}
      BY <1>1, <2>1, <2>2, <2>3, <3>1, <3>2 DEF Born
    <3>3. CASE old # {}
      <4>1. PICK o \in old : id = o.id
        BY <2>3, <3>3
      <4>2. p # o /\ p \in mem.pend /\ o \in mem.pend
        BY <1>1
      <4> QED
        BY <3>1, <4>1, <4>2 DEF Base, Distinct, Snapshots, OneId
    <3> QED
      BY <3>1, <3>2, <3>3
  <2> DEFINE S == (list \ old) \cup {next}
             E == mem.events \cup {next}
  <2>6. mem' = [mem EXCEPT !.pend = S, !.events = E]
    BY <1>3
  <2>7. S \subseteq mem.pend \cup {next} /\ S \in SUBSET Pending /\ E \in SUBSET Pending
    BY <1>1, <2>1, <2>2, <2>4 DEF Data
  <2>8. \A p \in S : p.sym = next.sym \/ p.id = next.id => p = next
    BY <2>4, <2>5
  <2> HIDE DEF S, E
  <2>9. mem' \in Data /\ mem'.pend = S
    BY <2>1, <2>6, <2>7 DEF Data
  <2>10. \E n : n = next
    OBVIOUS
  <2>11. PICK n : n = next
    BY <2>10
  <2> HIDE DEF next
  <2>12. Adds(n)
    BY <1>1, <1>3, <2>1, <2>3, <2>4, <2>7, <2>8, <2>9, <2>11 DEF Adds
  <2> QED
    BY <2>12
<1> QED
  BY <1>2, <1>3 DEF QueueCommit

LEMMA AddsKeeps ==
  ASSUME Base, NEW next, Adds(next), UNCHANGED req
  PROVE  Aged' /\ Known' /\ Distinct'
<1>1. Pendings' \subseteq Pendings \cup {next}
  BY DEF Adds, Pendings, Stored, Snapshots
<1>2. born \in Nat /\ \A p \in Pendings : p.born \in Nat /\ p.id \in Nat /\ p.born <= born /\ p.id <= born
  <2>1. born \in Nat
    BY TypeParts DEF Base, Clocks
  <2>2. \A p \in Pendings : p \in Pending
    BY TypeParts DEF Base, Pendings, Stored, Snapshots, DataTypes, Data, Runs, RunType
  <2> QED
    BY <2>1, <2>2 DEF Pending, Born, Base, Aged
<1>3. next.born = born + 1 /\ next.id <= born + 1 /\ next.id \in Nat /\ born' = born + 1
  BY DEF Adds, Pending, Born
<1>4. Aged'
  BY <1>1, <1>2, <1>3 DEF Aged
<1>5. Known'
  BY <1>1, <1>2, <1>3 DEF Base, Known
<1>6. Distinct'
  <2>1. OneId(mem'.pend)
    BY DEF Adds, OneId, Base, Distinct, Snapshots
  <2> QED
    BY <2>1 DEF Adds, Distinct, Snapshots, Base
<1> QED
  BY <1>4, <1>5, <1>6

LEMMA CopySourced ==
  ASSUME Base, CopyRead \/ CopyFlushed \/ CopyLoaded
  PROVE  Sourced /\ DataTypes'
<1>0. mem \in Snapshots /\ disk \in Snapshots
  BY DEF Snapshots
<1>1. \A d \in Snapshots : d \in Data /\ d.pend \subseteq Stored /\ OneId(d.pend)
  BY TypeParts DEF Base, DataTypes, Snapshots, Stored, Distinct
<1>2. /\ Cardinality({}) = 0 /\ \A x : Cardinality({x}) = 1
      /\ copies \in 0..MaxCopies /\ MaxCopies \in Nat
  BY FS_EmptySet, FS_Singleton, TypeParts, PendingAssumption DEF Base, DataTypes
<1>3. CASE CopyRead
  <2>1. Snapshots' = {mem, disk} /\ copy' = {disk} /\ copies' \in 0..MaxCopies /\ UNCHANGED <<mem, disk>>
    BY <1>2, <1>3 DEF CopyRead, Snapshots
  <2>2. Sourced
    BY <1>1, <1>0, <2>1 DEF Sourced
  <2>3. Cardinality(copy') <= 1
    BY <1>2, <2>1
  <2> QED
    BY <1>1, <1>0, <2>1, <2>2, <2>3 DEF DataTypes
<1>4. CASE CopyFlushed
  <2>1. PICK local \in copy : disk' = Merged(local)
    BY <1>4 DEF CopyFlushed
  <2>2. Snapshots' = {mem, disk'} /\ copy' = {} /\ UNCHANGED <<mem, copies>> /\ local \in Snapshots
    BY <1>4 DEF CopyFlushed, Snapshots
  <2>3. disk' \in Data /\ disk'.pend \subseteq Stored /\ OneId(disk'.pend)
    BY <2>1, <2>2, MergedIs
  <2> QED
    BY <1>1, <1>2, <1>0, <2>2, <2>3 DEF Sourced, DataTypes
<1>5. CASE CopyLoaded
  <2>1. /\ Snapshots' = {mem', disk} /\ copy' = {} /\ UNCHANGED <<disk, copies>>
        /\ mem' \in Snapshots
    BY <1>5 DEF CopyLoaded, Snapshots
  <2> QED
    BY <1>1, <1>2, <1>0, <2>1 DEF Sourced, DataTypes
<1> QED
  BY <1>3, <1>4, <1>5

-----------------------------------------------------------------------------
(* Requests                                                                *)

(* One request goes on with what it holds, ends, or starts.                *)
Others(r) == \A q \in Requests \ {r} : req'[q] = req[q]
Moved(r, where) ==
  req' \in [Requests -> RunType] /\ req'[r].pc = where /\ req'[r].p = req[r].p /\ Others(r)
Ended(r) == req' \in [Requests -> RunType] /\ req'[r] = Done(r) /\ Others(r)
Started(r, where, S) ==
  req' \in [Requests -> RunType] /\ req'[r].pc = where /\ req'[r].p = S /\ Others(r)

LEMMA DoneIs ==
  ASSUME NEW r
  PROVE  /\ NoRun \in RunType /\ Done(r) \in RunType /\ Done(r).p = {}
         /\ Done(r).pc = IF r = Telegram THEN "idle" ELSE "done"
BY DEF Done, NoRun, RunType, Idle, Awaits

LEMMA RunIs ==
  ASSUME Base, NEW r \in Requests, NEW where \in Awaits, Run(r, where)
  PROVE  Moved(r, where)
<1>1. req \in [Requests -> RunType]
  BY TypeParts DEF Base, Runs
<1> QED
  BY <1>1 DEF Run, Moved, Others, RunType

LEMMA EndIs ==
  ASSUME Base, NEW r \in Requests, req' = [req EXCEPT ![r] = Done(r)]
  PROVE  Ended(r)
<1>1. req \in [Requests -> RunType]
  BY TypeParts DEF Base, Runs
<1> QED
  BY <1>1, DoneIs DEF Ended, Others

LEMMA HoldIs ==
  ASSUME Base, NEW r \in Requests, NEW where \in Awaits, NEW S \in SUBSET Pending, Hold(r, where, S)
  PROVE  Started(r, where, S)
<1> DEFINE e == [NoRun EXCEPT !.pc = where, !.p = S]
<1>1. req \in [Requests -> RunType]
  BY TypeParts DEF Base, Runs
<1>2. e \in RunType /\ e.pc = where /\ e.p = S
  BY DEF NoRun, RunType
<1>3. req' = [req EXCEPT ![r] = e]
  BY DEF Hold
<1> HIDE DEF e
<1> QED
  BY <1>1, <1>2, <1>3 DEF Started, Others

LEMMA HeldIs ==
  ASSUME Base, NEW r \in Requests, req[r].pc \in Awaits
  PROVE  Held(r) \in req[r].p /\ Held(r) \in Pending /\ Held(r) \in Pendings
<1>1. Cardinality(req[r].p) = 1 /\ req[r].p \subseteq Pending
  BY TypeParts DEF Base, Runs, RunType, Idle, Awaits
<1>2. req[r].p # {}
  BY <1>1, FS_EmptySet
<1>3. Held(r) \in req[r].p
  BY <1>2 DEF Held
<1> QED
  BY <1>1, <1>3 DEF Pendings

(* What a request may take: one pending of the list.                       *)
LEMMA SingletonOf ==
  ASSUME Base, NEW id, {p \in mem.pend : p.id = id} # {}
  PROVE  Cardinality({p \in mem.pend : p.id = id}) = 1
<1>1. PICK p \in mem.pend : p.id = id
  OBVIOUS
<1>2. {q \in mem.pend : q.id = id} = {p}
  BY <1>1 DEF Base, Distinct, Snapshots, OneId
<1> QED
  BY <1>2, FS_Singleton

LEMMA ResolveIs ==
  ASSUME Base, NEW id, Resolve(mem, id) # {}
  PROVE  Resolve(mem, id) \subseteq mem.pend /\ Cardinality(Resolve(mem, id)) = 1
<1> DEFINE exact == {p \in mem.pend : p.id = id}
<1>1. CASE exact # {}
  BY <1>1, SingletonOf DEF Resolve
<1>2. CASE exact = {}
  <2>1. PICK S : S \subseteq mem.pend /\ Resolve(mem, id) = Single(S)
    BY <1>2 DEF Resolve
  <2> QED
    BY <2>1 DEF Single
<1> QED
  BY <1>1, <1>2

ControlsGoOn == Runs' /\ tg' \in TickType /\ Serving' /\ HeldFrom

LEMMA MovedKeeps ==
  ASSUME Base, NEW r \in Requests, req[r].pc \in Awaits, NEW where \in Awaits, Moved(r, where), UNCHANGED tg
  PROVE  ControlsGoOn
<1>1. Runs /\ tg \in TickType /\ Serving
  BY TypeParts DEF Base
<1>2. Runs'
  BY <1>1 DEF Runs, Moved, Others, Idle, Awaits
<1>3. Serving'
  BY <1>1, TelegramRequests DEF Serving, Moved, Others, Awaits
<1>4. HeldFrom
  BY <1>1 DEF HeldFrom, Moved, Others, Pendings
<1> QED
  BY <1>1, <1>2, <1>3, <1>4 DEF ControlsGoOn

LEMMA EndedKeeps ==
  ASSUME Base, NEW r \in Requests, req[r].pc \in Awaits, Ended(r),
         \/ tg' = IF r = Telegram THEN [tg EXCEPT !.pc = "reply"] ELSE tg
         \/ tg' = IF r = Telegram THEN NoTick ELSE tg
  PROVE  ControlsGoOn
<1>1. Runs /\ tg \in TickType /\ Serving
  BY TypeParts DEF Base
<1>2. Runs'
  BY <1>1, DoneIs DEF Runs, Ended, Others, Idle, Awaits
<1>3. tg' \in TickType
  BY <1>1, PendingAssumption DEF TickType, NoTick
<1>4. Serving'
  <2>1. CASE r = Telegram
    <3>1. tg.pc = "serving" /\ tg.at < tg.upto
      BY <1>1, <2>1 DEF Serving, Awaits
    <3>2. tg'.pc = "idle" \/ (tg'.pc = "reply" /\ tg'.at = tg.at /\ tg'.upto = tg.upto)
      BY <1>1, <2>1 DEF TickType, NoTick
    <3>3. req'[Telegram].pc = "idle"
      BY <2>1, DoneIs DEF Ended
    <3> QED
      BY <3>1, <3>2, <3>3 DEF Serving
  <2>2. CASE r # Telegram
    BY <1>1, <2>2, TelegramRequests DEF Serving, Ended, Others
  <2> QED
    BY <2>1, <2>2
<1>5. HeldFrom
  BY <1>1, DoneIs DEF HeldFrom, Ended, Others, Pendings
<1> QED
  BY <1>2, <1>3, <1>4, <1>5 DEF ControlsGoOn

LEMMA StartedKeeps ==
  ASSUME Base, NEW r \in Requests, NEW where \in Awaits, NEW S \in SUBSET mem.pend, Cardinality(S) = 1,
         Started(r, where, S),
         IF r = Telegram THEN tg' = [tg EXCEPT !.pc = "serving"] /\ tg.at < tg.upto ELSE UNCHANGED tg
  PROVE  ControlsGoOn
<1>1. Runs /\ tg \in TickType /\ Serving
  BY TypeParts DEF Base
<1>2. Runs'
  BY <1>1 DEF Runs, Started, Others, Idle, Awaits
<1>3. tg' \in TickType
  BY <1>1 DEF TickType
<1>4. Serving'
  <2>1. CASE r = Telegram
    <3>1. tg'.pc = "serving" /\ tg'.at = tg.at /\ tg'.upto = tg.upto
      BY <1>1, <2>1 DEF TickType
    <3>2. req'[Telegram].pc \in Awaits
      BY <2>1 DEF Started
    <3> QED
      BY <2>1, <3>1, <3>2 DEF Serving, Awaits
  <2>2. CASE r # Telegram
    BY <1>1, <2>2, TelegramRequests DEF Serving, Started, Others
  <2> QED
    BY <2>1, <2>2
<1>5. HeldFrom
  BY <1>1 DEF HeldFrom, Started, Others, Pendings, Stored, Snapshots
<1> QED
  BY <1>2, <1>3, <1>4, <1>5 DEF ControlsGoOn

LEMMA NobodyMoves == ASSUME Base, UNCHANGED req PROVE HeldFrom
BY DEF HeldFrom, Pendings

-----------------------------------------------------------------------------
(* Every step keeps Base.                                                  *)

DataGoesOn == DataTypes' /\ Aged' /\ Known' /\ Distinct'
WorldGoesOn ==
  /\ Clocks' /\ mon' \in [Monitors -> PassType] /\ Signalled' /\ Inbox'
  /\ Venue' /\ answered' \subseteq Born /\ trouble' \in Nat

LEMMA BaseFrom == ASSUME DataGoesOn, ControlsGoOn, WorldGoesOn PROVE Base'
BY TypePartsNext DEF DataGoesOn, ControlsGoOn, WorldGoesOn, Base

LEMMA StayControls == ASSUME Base, UNCHANGED <<req, tg>> PROVE ControlsGoOn
BY TypeParts, NobodyMoves DEF ControlsGoOn, Base, Runs, Serving

LEMMA TrimsData == ASSUME Base, Trims, HeldFrom, UNCHANGED <<born, copies>> PROVE DataGoesOn
<1>1. DataTypes'
  BY TypeParts DEF Base, DataTypes, Trims
<1> QED
  BY <1>1, TrimsSourced, SourcedKeeps DEF DataGoesOn

LEMMA FlushData == ASSUME Base, Flush, HeldFrom, UNCHANGED <<born, copy, copies>> PROVE DataGoesOn
<1>1. Sourced /\ mem' \in Data /\ disk' \in Data
  BY FlushSourced
<1>2. DataTypes'
  BY <1>1, TypeParts DEF Base, DataTypes
<1> QED
  BY <1>1, <1>2, SourcedKeeps DEF DataGoesOn

LEMMA PassIs ==
  ASSUME Base, NEW m \in Monitors, NEW where \in {"held", "bias"}, NEW sym \in Symbols,
         NEW side \in Sides \cup {Nothing}, where = "bias" => side \in Sides, Pass(m, where, sym, side)
  PROVE  mon' \in [Monitors -> PassType] /\ Signalled'
<1>1. mon \in [Monitors -> PassType] /\ Signalled
  BY TypeParts DEF Base
<1> DEFINE e == [pc |-> where, sym |-> sym, side |-> side]
<1>2. e \in PassType /\ e.pc = where /\ e.sym = sym /\ e.side = side
  BY DEF PassType
<1>3. mon' = [mon EXCEPT ![m] = e]
  BY DEF Pass
<1> HIDE DEF e
<1>4. mon' \in [Monitors -> PassType] /\ mon'[m] = e /\ \A n \in Monitors \ {m} : mon'[n] = mon[n]
  BY <1>1, <1>2, <1>3
<1> QED
  BY <1>1, <1>2, <1>4 DEF Signalled

LEMMA PassedIs == ASSUME Base, NEW m \in Monitors, Passed(m) PROVE mon' \in [Monitors -> PassType] /\ Signalled'
<1>1. mon \in [Monitors -> PassType] /\ Signalled
  BY TypeParts DEF Base
<1>2. NoPass \in PassType /\ NoPass.pc = "idle"
  BY DEF PassType, NoPass
<1>3. mon' \in [Monitors -> PassType] /\ mon'[m] = NoPass /\ \A n \in Monitors \ {m} : mon'[n] = mon[n]
  BY <1>1, <1>2 DEF Passed
<1> QED
  BY <1>1, <1>2, <1>3 DEF Signalled

(* What a step of a monitor or of a clock leaves alone is as before.       *)
LEMMA WorldStays ==
  ASSUME Base, Clocks', mon' \in [Monitors -> PassType], Signalled', UNCHANGED <<inbox, exchange, answered, trouble>>
  PROVE  WorldGoesOn
BY TypeParts DEF Base, WorldGoesOn, Inbox, Venue, exchange

LEMMA ClocksStay == ASSUME Base, UNCHANGED <<born, expired>> PROVE Clocks'
BY TypeParts DEF Base, Clocks

LEMMA MonitorsStay == ASSUME Base, UNCHANGED mon PROVE mon' \in [Monitors -> PassType] /\ Signalled'
BY TypeParts DEF Base, Signalled

LEMMA ScanBase == ASSUME Base, NEW m \in Monitors, NEW sym \in Symbols, MonitorScan(m, sym) PROVE Base'
<1>1. UNCHANGED <<mem, born, disk, copy, copies, expired, req, tg, inbox, exchange, answered, trouble>>
  BY DEF MonitorScan, MonitorOnly, jobs
<1>2. mon' \in [Monitors -> PassType] /\ Signalled'
  BY PassIs DEF MonitorScan
<1>3. ControlsGoOn /\ HeldFrom
  BY <1>1, StayControls DEF ControlsGoOn
<1>4. DataGoesOn
  BY <1>1, <1>3, StayTrims, TrimsData
<1> QED
  BY <1>1, <1>2, <1>3, <1>4, ClocksStay, WorldStays, BaseFrom

LEMMA MonitorBase == ASSUME Base, NEW m \in Monitors, MonitorStep(m) PROVE Base'
<1>1. UNCHANGED <<disk, copy, copies, expired, req, tg, inbox, exchange, answered, trouble>> /\ Passed(m)
  BY DEF MonitorStep, MonitorClear, QueueBlocked, QueueCommit, MonitorOnly, jobs
<1>2. ControlsGoOn /\ HeldFrom
  BY <1>1, StayControls DEF ControlsGoOn
<1>3. CASE Trims /\ UNCHANGED born
  <2>1. DataGoesOn
    BY <1>1, <1>2, <1>3, TrimsData
  <2> QED
    BY <1>1, <1>2, <1>3, <2>1, PassedIs, ClocksStay, WorldStays, BaseFrom
<1>4. CASE \E next : Adds(next)
  <2>1. PICK next : Adds(next)
    BY <1>4
  <2>2. DataGoesOn
    <3>1. DataTypes'
      BY <1>1, <2>1, TypeParts DEF Base, DataTypes, Adds
    <3> QED
      BY <1>1, <2>1, <3>1, AddsKeeps DEF DataGoesOn
  <2>3. Clocks'
    BY <1>1, <2>1, TypeParts DEF Base, Clocks, Adds
  <2> QED
    BY <1>1, <1>2, <2>2, <2>3, PassedIs, WorldStays, BaseFrom
<1>5. CASE MonitorClear(m)
  <2> DEFINE S == {p \in mem.pend : p.sym # mon[m].sym}
  <2>1. mem' = [mem EXCEPT !.pend = S] /\ S \in SUBSET mem.pend /\ UNCHANGED born
    BY <1>5 DEF MonitorClear
  <2> HIDE DEF S
  <2> QED
    BY <1>1, <1>3, <2>1, ShrinkTrims
<1>6. CASE QueueBlocked(m)
  BY <1>1, <1>3, <1>6, StayTrims DEF QueueBlocked
<1>7. CASE QueueCommit(m)
  BY <1>3, <1>4, <1>7, QueueIs
<1> QED
  BY <1>5, <1>6, <1>7 DEF MonitorStep

LEMMA ListIs == ASSUME Base, ListPending PROVE Trims
<1> DEFINE S == Pruned(mem.pend)
<1>1. mem' = [mem EXCEPT !.pend = S] /\ S \in SUBSET mem.pend /\ UNCHANGED <<disk, copy>>
  BY DEF ListPending, Pruned, MonitorOnly, jobs
<1> HIDE DEF S
<1> QED
  BY <1>1, ShrinkTrims

LEMMA StoreBase == ASSUME Base, ListPending \/ WriteLands \/ CopyRead \/ CopyFlushed \/ CopyLoaded PROVE Base'
<1>1. UNCHANGED <<born, expired, mon, req, tg, inbox, exchange, answered, trouble>>
  BY DEF ListPending, MonitorOnly, WriteLands, CopyRead, CopyFlushed, CopyLoaded, clocks
<1>2. ControlsGoOn /\ HeldFrom /\ WorldGoesOn
  BY <1>1, StayControls, ClocksStay, MonitorsStay, WorldStays DEF ControlsGoOn
<1>3. CASE ListPending
  BY <1>1, <1>2, <1>3, ListIs, TrimsData, BaseFrom DEF ListPending, MonitorOnly, jobs
<1>4. CASE WriteLands
  BY <1>1, <1>2, <1>4, FlushData, BaseFrom DEF WriteLands, jobs
<1>5. CASE CopyRead \/ CopyFlushed \/ CopyLoaded
  BY <1>1, <1>2, <1>5, CopySourced, SourcedKeeps, BaseFrom DEF DataGoesOn
<1> QED
  BY <1>3, <1>4, <1>5

(* A request leaves the clocks, the monitors and the updates alone.        *)
LEMMA ServerStays ==
  ASSUME Base, ServerOnly, Venue', answered' \subseteq Born, trouble' \in Nat
  PROVE  WorldGoesOn /\ UNCHANGED <<born, expired, copy, copies>>
<1>1. UNCHANGED <<born, expired, copy, copies, mon, inbox>>
  BY DEF ServerOnly, jobs, clocks
<1>2. Inbox'
  BY <1>1, TypeParts DEF Base, Inbox
<1> QED
  BY <1>1, <1>2, ClocksStay, MonitorsStay DEF WorldGoesOn

LEMMA VenueStays == ASSUME Base, UNCHANGED exchange PROVE Venue'
BY TypeParts DEF Base, Venue, exchange

LEMMA TroubleIs == ASSUME Base PROVE /\ trouble \in Nat /\ trouble + 1 \in Nat
                                     /\ Trouble => trouble' = trouble + 1
                                     /\ answered \subseteq Born
BY TypeParts DEF Base, Trouble

LEMMA AcceptIs ==
  ASSUME Base, NEW p \in Pending, Accept(p)
  PROVE  /\ Venue'
         /\ fills' = [fills EXCEPT ![p.born] = @ + 1]
         /\ \A s \in Symbols \ {p.sym} : pos'[s] = pos[s] /\ (s \in stops => s \in stops')
<1>1. Venue /\ p.sym \in Symbols /\ p.side \in Sides /\ p.born \in Born /\ MaxFills \in Nat
  BY TypeParts, PendingAssumption DEF Base, Pending
<1>2. fills' \in [Born -> 0..MaxFills] /\ fills' = [fills EXCEPT ![p.born] = @ + 1]
  BY <1>1 DEF Accept, Venue
<1>3. PICK now \in Sides \cup {Flat} :
        /\ pos' = [pos EXCEPT ![p.sym] = now]
        /\ stops' = IF now = pos[p.sym] THEN stops ELSE stops \ {p.sym}
  <2> DEFINE after == IF pos[p.sym] \in {Flat, p.side} THEN {p.side} ELSE {Flat, p.side, pos[p.sym]}
  <2>1. after \subseteq Sides \cup {Flat}
    BY <1>1 DEF Venue
  <2>2. \E now \in after : /\ pos' = [pos EXCEPT ![p.sym] = now]
                          /\ stops' = IF now = pos[p.sym] THEN stops ELSE stops \ {p.sym}
    BY DEF Accept
  <2> HIDE DEF after
  <2> QED
    BY <2>1, <2>2
<1>4. pos' \in [Symbols -> Sides \cup {Flat}] /\ \A s \in Symbols \ {p.sym} : pos'[s] = pos[s]
  BY <1>1, <1>3 DEF Venue
<1>5. stops' \subseteq {s \in Symbols : pos'[s] # Flat}
  <2>1. CASE now = pos[p.sym]
    BY <1>1, <1>3, <1>4, <2>1 DEF Venue
  <2>2. CASE now # pos[p.sym]
    BY <1>1, <1>3, <1>4, <2>2 DEF Venue
  <2> QED
    BY <2>1, <2>2
<1>6. \A s \in Symbols \ {p.sym} : s \in stops => s \in stops'
  BY <1>3
<1> QED
  BY <1>2, <1>4, <1>5, <1>6 DEF Venue

LEMMA RequestStarts ==
  ASSUME Base, NEW r \in Requests, NEW id, ConfirmStart(r, id) \/ RejectStart(r, id), UNCHANGED <<disk, copy>>
  PROVE  /\ Trims
         /\ \E where \in {"leverage", "rejecting"}, S \in SUBSET mem.pend :
              /\ Cardinality(S) = 1 /\ Started(r, where, S)
              /\ where = "rejecting" => \A p \in S, q \in mem'.pend : p.id # q.id
<1>1. mem.pend \subseteq Pending
  BY TypeParts DEF Base, DataTypes, Data
<1>2. CASE ConfirmStart(r, id)
  <2>1. Resolve(mem, id) \subseteq mem.pend /\ Cardinality(Resolve(mem, id)) = 1
    BY <1>2, ResolveIs DEF ConfirmStart
  <2>2. Started(r, "leverage", Resolve(mem, id))
    BY <1>1, <1>2, <2>1, HoldIs DEF ConfirmStart, Awaits
  <2>3. Trims
    BY <1>2, StayTrims DEF ConfirmStart
  <2> QED
    BY <2>1, <2>2, <2>3
<1>3. CASE RejectStart(r, id)
  <2> DEFINE S == {p \in mem.pend : p.id = id}
  <2>1. S \subseteq mem.pend /\ Cardinality(S) = 1
    BY <1>3, SingletonOf DEF RejectStart
  <2>2. Started(r, "rejecting", S)
    BY <1>1, <1>3, HoldIs DEF RejectStart, Awaits
  <2>3. Trims /\ mem'.pend = {p \in mem.pend : p.id # id}
    BY <1>3, RemoveTrims DEF RejectStart
  <2> QED
    BY <2>1, <2>2, <2>3
<1> QED
  BY <1>2, <1>3

LEMMA DashboardBase == ASSUME Base, NEW r \in Requests, NEW id, DashboardRequest(r, id) PROVE Base'
<1>1. r # Telegram /\ UNCHANGED <<disk, tg, exchange, answered, trouble>> /\ ServerOnly
  BY TelegramRequests DEF DashboardRequest
<1>2. WorldGoesOn /\ UNCHANGED <<born, expired, copy, copies>>
  BY <1>1, ServerStays, VenueStays, TroubleIs
<1>3. PICK where \in {"leverage", "rejecting"}, S \in SUBSET mem.pend : Cardinality(S) = 1 /\ Started(r, where, S)
  BY <1>1, <1>2, RequestStarts DEF DashboardRequest
<1>4. Trims
  BY <1>1, <1>2, RequestStarts DEF DashboardRequest
<1>5. ControlsGoOn
  BY <1>1, <1>3, StartedKeeps DEF Awaits
<1> QED
  BY <1>2, <1>4, <1>5, TrimsData, BaseFrom DEF ControlsGoOn

(* A request's step: where it goes, and what it leaves in the snapshots.   *)
LEMMA RequestMoves ==
  ASSUME Base, NEW r \in Requests, RequestStep(r)
  PROVE  /\ req[r].pc \in Awaits
         /\ \/ UNCHANGED tg /\ \E where \in Awaits : Moved(r, where)
            \/ /\ Ended(r)
               /\ \/ tg' = IF r = Telegram THEN [tg EXCEPT !.pc = "reply"] ELSE tg
                  \/ tg' = IF r = Telegram THEN NoTick ELSE tg
<1>1. \A where \in Awaits : Run(r, where) => Moved(r, where)
  BY RunIs
<1>2. Return(r) \/ Throw(r) =>
        /\ Ended(r)
        /\ \/ tg' = IF r = Telegram THEN [tg EXCEPT !.pc = "reply"] ELSE tg
           \/ tg' = IF r = Telegram THEN NoTick ELSE tg
  BY EndIs DEF Return, Throw
<1>3. CASE SetLeverage(r)
  BY <1>1, <1>2, <1>3 DEF SetLeverage, Awaits
<1>4. CASE PlaceOrder(r)
  <2>1. CASE req[r].attempt = 1 /\ req' = [req EXCEPT ![r].attempt = 2] /\ UNCHANGED tg
    <3>1. req \in [Requests -> RunType]
      BY TypeParts DEF Base, Runs
    <3>2. Moved(r, req[r].pc)
      BY <2>1, <3>1 DEF Moved, Others, RunType
    <3> QED
      BY <1>4, <2>1, <3>2 DEF PlaceOrder, Awaits
  <2> QED
    BY <1>1, <1>2, <1>4, <2>1 DEF PlaceOrder, Awaits
<1>5. CASE Verify(r)
  BY <1>1, <1>2, <1>5 DEF Verify, Awaits
<1>6. CASE Acknowledge(r)
  BY <1>1, <1>6 DEF Acknowledge, Awaits
<1>7. CASE AnswerLanded(r)
  BY <1>1, <1>2, <1>7 DEF AnswerLanded, Awaits
<1>8. CASE RefusalLanded(r)
  BY <1>2, <1>8 DEF RefusalLanded, Awaits
<1>9. CASE Protect(r)
  BY <1>2, <1>9 DEF Protect, Awaits
<1> QED
  BY <1>3, <1>4, <1>5, <1>6, <1>7, <1>8, <1>9 DEF RequestStep

LEMMA RequestBase == ASSUME Base, NEW r \in Requests, RequestStep(r) PROVE Base'
<1>1. ControlsGoOn /\ HeldFrom
  BY RequestMoves, MovedKeeps, EndedKeeps DEF ControlsGoOn
<1>2. ServerOnly
  BY DEF RequestStep, SetLeverage, PlaceOrder, Verify, Acknowledge, AnswerLanded, RefusalLanded, Protect
<1>3. UNCHANGED <<born, expired, copy, copies>>
  BY <1>2 DEF ServerOnly, jobs, clocks
<1>4. Held(r) \in Pending
  BY RequestMoves, HeldIs
<1>5. trouble' \in Nat
  BY TroubleIs DEF RequestStep, SetLeverage, PlaceOrder, Verify, Acknowledge, AnswerLanded, RefusalLanded, Protect
<1>6. answered' \subseteq Born
  BY <1>4, TroubleIs
  DEF RequestStep, SetLeverage, PlaceOrder, Verify, Acknowledge, AnswerLanded, RefusalLanded, Protect, Pending
<1>7. Venue'
  <2>1. CASE UNCHANGED exchange
    BY <2>1, VenueStays
  <2>2. CASE Accept(Held(r))
    BY <1>4, <2>2, AcceptIs
  <2>3. CASE Protect(r)
    <3>1. Venue /\ Held(r).sym \in Symbols
      BY <1>4, TypeParts DEF Base, Pending
    <3> QED
      BY <2>3, <3>1 DEF Protect, Venue
  <2> QED
    BY <2>1, <2>2, <2>3 DEF RequestStep, SetLeverage, PlaceOrder, Verify, Acknowledge, AnswerLanded, RefusalLanded
<1>8. DataGoesOn
  <2>1. CASE UNCHANGED <<mem, disk>>
    BY <1>1, <1>3, <2>1, StayTrims, TrimsData
  <2>2. CASE Flush
    BY <1>1, <1>3, <2>2, FlushData
  <2>3. CASE Acknowledge(r)
    BY <1>1, <1>3, <2>3, RemoveTrims, TrimsData DEF Acknowledge
  <2> QED
    BY <2>1, <2>2, <2>3 DEF RequestStep, SetLeverage, PlaceOrder, Verify, AnswerLanded, RefusalLanded, Protect
<1> QED
  BY <1>1, <1>2, <1>5, <1>6, <1>7, <1>8, ServerStays, BaseFrom

LEMMA TickStays ==
  ASSUME Base, TickOnly, UNCHANGED trouble
  PROVE  WorldGoesOn /\ UNCHANGED <<born, expired, copy, copies>>
BY ServerStays, VenueStays, TroubleIs DEF TickOnly

LEMMA TelegramBase == ASSUME Base, TelegramStep PROVE Base'
<1>1. TickOnly
  BY DEF TelegramStep, TelegramPoll, TelegramHandle, TelegramReply, TelegramSave, TelegramSaved
<1>2. trouble' \in Nat
  BY TroubleIs DEF TelegramStep, TelegramPoll, TelegramHandle, TelegramReply, TelegramSave, TelegramSaved
<1>3. WorldGoesOn /\ UNCHANGED <<born, expired, copy, copies>>
  BY <1>1, <1>2, ServerStays, VenueStays, TroubleIs DEF TickOnly
<1>4. Runs /\ tg \in TickType /\ Serving /\ MaxUpdates \in Nat
  BY TypeParts, PendingAssumption DEF Base
<1>5. ASSUME UNCHANGED req, tg' \in TickType, tg'.pc \in {"idle", "handle", "saving", "reply"}, tg.pc # "serving",
             tg'.pc = "reply" => tg'.at < tg'.upto
      PROVE  ControlsGoOn /\ HeldFrom
  BY <1>4, <1>5, NobodyMoves DEF ControlsGoOn, Runs, Serving
<1>6. NoTick \in TickType /\ NoTick.pc = "idle"
  BY <1>4 DEF TickType, NoTick
<1>7. CASE TelegramPoll
  <2>1. mem.offset \in 0..MaxUpdates /\ Len(inbox) \in 0..MaxUpdates
    BY TypeParts, <1>4 DEF Base, DataTypes, Data, Inbox
  <2>2. tg' \in TickType /\ tg'.pc = "handle" /\ tg.pc = "idle" /\ UNCHANGED <<req, mem, disk>>
    BY <1>7, <2>1 DEF TelegramPoll, TickType
  <2> QED
    BY <1>3, <1>5, <2>2, StayTrims, TrimsData, BaseFrom
<1>8. CASE TelegramHandle
  <2>1. tg.pc = "handle" /\ tg.at < tg.upto /\ UNCHANGED disk
    BY <1>8 DEF TelegramHandle
  <2>2. CASE /\ \E id : ConfirmStart(Telegram, id) \/ RejectStart(Telegram, id)
             /\ tg' = [tg EXCEPT !.pc = "serving"]
    <3>1. PICK id : ConfirmStart(Telegram, id) \/ RejectStart(Telegram, id)
      BY <2>2
    <3>2. PICK where \in {"leverage", "rejecting"}, S \in SUBSET mem.pend :
            Cardinality(S) = 1 /\ Started(Telegram, where, S)
      BY <1>3, <2>1, <3>1, RequestStarts, TelegramRequests
    <3>3. Trims
      BY <1>3, <2>1, <3>1, RequestStarts, TelegramRequests
    <3>4. ControlsGoOn /\ HeldFrom
      BY <2>1, <2>2, <3>2, StartedKeeps, TelegramRequests DEF Awaits, ControlsGoOn
    <3> QED
      BY <1>3, <3>3, <3>4, TrimsData, BaseFrom
  <2>3. CASE tg' = [tg EXCEPT !.pc = "reply"] /\ UNCHANGED <<req, mem>>
    <3>1. tg' \in TickType /\ tg'.pc = "reply" /\ tg'.at < tg'.upto
      BY <1>4, <2>1, <2>3 DEF TickType
    <3> QED
      BY <1>3, <1>5, <2>1, <2>3, <3>1, StayTrims, TrimsData, BaseFrom
  <2> QED
    BY <1>8, <2>2, <2>3 DEF TelegramHandle
<1>9. CASE TelegramReply
  <2>1. tg.pc = "reply" /\ tg.at < tg.upto /\ UNCHANGED <<mem, disk, req>>
    BY <1>4, <1>9 DEF TelegramReply, Serving
  <2>2. tg' \in TickType /\ tg'.pc \in {"idle", "handle"}
    <3>1. CASE tg' = [tg EXCEPT !.pc = "handle", !.at = @ + 1]
      <4>1. tg.at + 1 \in 0..MaxUpdates
        BY <1>4, <2>1 DEF TickType
      <4> DEFINE k == [tg EXCEPT !.pc = "handle"]
      <4>2. k \in TickType /\ k.pc = "handle" /\ tg' = [k EXCEPT !.at = tg.at + 1]
        BY <1>4, <3>1 DEF TickType
      <4> HIDE DEF k
      <4> QED
        BY <4>1, <4>2 DEF TickType
    <3> QED
      BY <1>6, <1>9, <3>1 DEF TelegramReply
  <2> QED
    BY <1>3, <1>5, <2>1, <2>2, StayTrims, TrimsData, BaseFrom
<1>10. CASE TelegramSave
  <2>1. tg' \in TickType /\ tg'.pc = "saving" /\ tg.pc = "handle" /\ UNCHANGED <<req, disk>>
    BY <1>4, <1>10 DEF TelegramSave, TickType
  <2>2. Trims
    BY <1>3, <1>4, <1>10, TypeParts DEF TelegramSave, Trims, Base, DataTypes, Data, TickType
  <2> QED
    BY <1>3, <1>5, <2>1, <2>2, TrimsData, BaseFrom
<1>11. CASE TelegramSaved
  <2>1. tg' \in TickType /\ tg'.pc = "idle" /\ tg.pc = "saving" /\ UNCHANGED req
    BY <1>6, <1>11 DEF TelegramSaved
  <2> QED
    BY <1>3, <1>5, <1>11, <2>1, FlushData, BaseFrom DEF TelegramSaved
<1> QED
  BY <1>7, <1>8, <1>9, <1>10, <1>11 DEF TelegramStep

LEMMA OutsideBase ==
  ASSUME Base, OwnerPresses \/ TimePasses \/ \E sym \in Symbols : PositionCloses(sym)
  PROVE  Base'
<1>1. UNCHANGED <<mem, disk, copy, copies, born, mon, req, tg, answered, trouble>>
  BY DEF OwnerPresses, TimePasses, PositionCloses, jobs, clocks
<1>2. ControlsGoOn /\ DataGoesOn
  BY <1>1, StayControls, StayTrims, TrimsData DEF ControlsGoOn
<1>3. Clocks'
  BY <1>1, TypeParts DEF OwnerPresses, TimePasses, PositionCloses, clocks, Base, Clocks
<1>4. Venue'
  <2>1. Venue
    BY TypeParts DEF Base
  <2>2. CASE UNCHANGED exchange
    BY <2>2, VenueStays
  <2>3. ASSUME NEW sym \in Symbols, PositionCloses(sym) PROVE Venue'
    BY <2>1, <2>3 DEF PositionCloses, Venue
  <2> QED
    BY <2>2, <2>3 DEF OwnerPresses, TimePasses, exchange
<1>5. Inbox'
  <2>1. inbox \in Seq(Command) /\ Len(inbox) <= MaxUpdates /\ born \in 0..MaxSignals /\ MaxSignals \in Nat
    BY TypeParts, PendingAssumption DEF Base, Inbox, Clocks
  <2>2. CASE UNCHANGED inbox
    BY <2>1, <2>2 DEF Inbox
  <2>3. CASE OwnerPresses
    <3>1. PICK u : u \in Command /\ inbox' = Append(inbox, u) /\ Len(inbox) < MaxUpdates
      BY <2>1, <2>3 DEF OwnerPresses, Command, Born, UnknownId
    <3> QED
      BY <2>1, <3>1, PendingAssumption DEF Inbox
  <2> QED
    BY <2>2, <2>3 DEF TimePasses, PositionCloses
<1>6. WorldGoesOn
  BY <1>1, <1>3, <1>4, <1>5, MonitorsStay, TypeParts DEF WorldGoesOn, Base
<1> QED
  BY <1>2, <1>6, BaseFrom

LEMMA CrashBase == ASSUME Base, Crash PROVE Base'
<1>1. UNCHANGED <<disk, copy, copies, born, expired, inbox, exchange, answered>> /\ mem' = disk
  BY DEF Crash, jobs, clocks
<1>2. disk \in Data /\ copy \subseteq Data
  BY TypeParts DEF Base, DataTypes
<1>3. Runs' /\ tg' \in TickType /\ Serving' /\ HeldFrom
  <2>1. /\ req' \in [Requests -> RunType]
        /\ \A r \in Requests : req'[r].pc \in Idle /\ req'[r].p = {} /\ (r = Telegram => req'[r].pc = "idle")
    <3>1. \A r \in Requests : req'[r] = IF req[r].pc = "idle" THEN NoRun ELSE Done(r)
      BY DEF Crash
    <3>2. NoRun.pc = "idle" /\ NoRun.p = {}
      BY DEF NoRun
    <3> QED
      BY <3>1, <3>2, DoneIs DEF Crash, Idle
  <2>2. tg' = NoTick /\ NoTick \in TickType /\ NoTick.pc = "idle"
    BY PendingAssumption DEF Crash, TickType, NoTick
  <2> QED
    BY <2>1, <2>2, TelegramRequests DEF Runs, Serving, HeldFrom
<1>4. DataGoesOn
  <2>1. Snapshots' \subseteq Snapshots
    BY <1>1 DEF Snapshots
  <2>2. Sourced
    BY <2>1 DEF Sourced, Stored, Base, Distinct
  <2>3. DataTypes'
    BY <1>1, TypeParts DEF Base, DataTypes
  <2> QED
    BY <1>1, <1>3, <2>2, <2>3, SourcedKeeps DEF DataGoesOn
<1>5. mon' \in [Monitors -> PassType] /\ Signalled'
  BY DEF Crash, PassType, NoPass, Signalled
<1>6. trouble' \in Nat
  BY TroubleIs DEF Crash
<1>7. WorldGoesOn
  BY <1>1, <1>5, <1>6, VenueStays, ClocksStay, TypeParts DEF WorldGoesOn, Base, Inbox
<1> QED
  BY <1>3, <1>4, <1>7, BaseFrom DEF ControlsGoOn

LEMMA BaseInit == ASSUME Init PROVE Base
<1>1. /\ {MaxSignals, MaxUpdates, MaxTrouble, MaxFills, MaxCopies} \subseteq Nat
      /\ MaxUpdates \in Nat /\ MaxSignals \in Nat /\ MaxFills \in Nat /\ MaxCopies \in Nat
  BY PendingAssumption
<1>2. mem = Empty /\ disk = Empty /\ copy = {} /\ Empty \in Data /\ Empty.pend = {}
  BY <1>1 DEF Init, Empty, Data
<1>3. \A r \in Requests : req[r].pc = "idle" /\ req[r].p = {}
  BY DEF Init, NoRun
<1>4. Pendings = {}
  BY <1>2, <1>3 DEF Pendings, Stored, Snapshots
<1>5. DataTypes /\ Clocks
  BY <1>1, <1>2, FS_EmptySet DEF Init, DataTypes, Clocks
<1>6. mon \in [Monitors -> PassType] /\ Signalled
  BY DEF Init, PassType, NoPass, Signalled
<1>7. Runs
  BY <1>3, DoneIs DEF Init, Runs, Idle
<1>8. tg \in TickType /\ tg.pc = "idle" /\ Inbox
  BY <1>1 DEF Init, TickType, NoTick, Inbox
<1>9. Venue /\ answered \subseteq Born /\ trouble \in Nat
  BY <1>1 DEF Init, Venue
<1>10. Serving
  BY <1>3, <1>8, TelegramRequests DEF Serving
<1>11. Aged /\ Known /\ Distinct
  BY <1>2, <1>4 DEF Aged, Known, Distinct, Snapshots, OneId
<1> QED
  BY <1>5, <1>6, <1>7, <1>8, <1>9, <1>10, <1>11, TypeParts DEF Base

LEMMA BaseNext == ASSUME Base, [Next]_vars PROVE Base'
<1>1. CASE UNCHANGED vars
  <2>1. UNCHANGED <<mem, disk, copy, copies, born, expired, mon, req, tg, inbox, exchange, answered, trouble>>
    BY <1>1 DEF vars, jobs, clocks
  <2> QED
    BY <2>1, StayControls, StayTrims, TrimsData, ClocksStay, MonitorsStay, WorldStays, BaseFrom DEF ControlsGoOn
<1>2. CASE \E m \in Monitors : (\E sym \in Symbols : MonitorScan(m, sym)) \/ MonitorStep(m)
  BY <1>2, ScanBase, MonitorBase
<1>3. CASE \E r \in Requests : (\E id \in 0..born : DashboardRequest(r, id)) \/ RequestStep(r)
  BY <1>3, DashboardBase, RequestBase
<1> QED
  BY <1>1, <1>2, <1>3, StoreBase, TelegramBase, OutsideBase, CrashBase DEF Next

(* Every reachable state of manual mode is well typed; in particular a     *)
(* request beyond its start holds exactly one pending, whatever an id on a *)
(* button resolves to (resolvePending).                                    *)
THEOREM PendingTypeOK == Spec => []TypeOK
<1>1. Init => Base
  BY BaseInit
<1>2. Base /\ [Next]_vars => Base'
  BY BaseNext
<1>3. Base => TypeOK
  BY DEF Base
<1> QED
  BY <1>1, <1>2, <1>3, PTL DEF Spec

-----------------------------------------------------------------------------
(* Protection                                                              *)

(* What a position is still owed: a request that has opened it goes on.    *)
Underway == {"verify", "placed", "acking", "protect"}
Owed(s) == \E r \in Requests : req[r].pc \in Underway /\ Held(r).sym = s
Covered == trouble = 0 => \A s \in Symbols : pos[s] # Flat => s \in stops \/ Owed(s)

LEMMA HeldSame == ASSUME NEW r, req'[r].p = req[r].p PROVE Held(r)' = Held(r)
BY DEF Held

(* A request that owes something goes on owing it.                         *)
LEMMA StillOwed ==
  ASSUME NEW r \in Requests, Others(r), req[r].pc \in Underway => req'[r].pc \in Underway /\ req'[r].p = req[r].p,
         NEW s, Owed(s)
  PROVE  Owed(s)'
<1>1. PICK q \in Requests : req[q].pc \in Underway /\ Held(q).sym = s
  BY DEF Owed
<1>2. req'[q].pc \in Underway /\ req'[q].p = req[q].p
  BY <1>1 DEF Others
<1>3. Held(q)' = Held(q)
  BY <1>2, HeldSame
<1> QED
  BY <1>1, <1>2, <1>3 DEF Owed

LEMMA CoveredStays ==
  ASSUME Covered, UNCHANGED <<pos, stops>>, trouble' = 0 => trouble = 0, \A s : Owed(s) => Owed(s)'
  PROVE  Covered'
BY DEF Covered

LEMMA OwedStays == ASSUME UNCHANGED req PROVE \A s : Owed(s) => Owed(s)'
BY DEF Owed, Held

LEMMA RequestCovered == ASSUME Base, Covered, NEW r \in Requests, RequestStep(r) PROVE Covered'
<1>1. SUFFICES ASSUME trouble' = 0 PROVE Covered'
  BY DEF Covered
<1>2. trouble = 0 /\ UNCHANGED trouble /\ trouble \in Nat
  <2>1. trouble \in Nat /\ (Trouble => trouble' = trouble + 1)
    BY TroubleIs
  <2> QED
    BY <1>1, <2>1
    DEF RequestStep, SetLeverage, PlaceOrder, Verify, Acknowledge, AnswerLanded, RefusalLanded, Protect
<1>3. ~Trouble /\ trouble' # trouble + 1
  BY <1>2, TroubleIs
<1>4. Held(r) \in Pending /\ Others(r)
  BY RequestMoves, HeldIs DEF Moved, Ended
<1>5. \A where \in Awaits : Run(r, where) => Moved(r, where)
  BY RunIs
<1>6. CASE UNCHANGED <<pos, stops>> /\ (req[r].pc \in Underway => \E where \in Underway : Run(r, where))
  <2>1. req[r].pc \in Underway => req'[r].pc \in Underway /\ req'[r].p = req[r].p
    BY <1>5, <1>6 DEF Moved, Underway, Awaits
  <2> QED
    BY <1>2, <1>4, <1>6, <2>1, StillOwed, CoveredStays
<1>7. CASE PlaceOrder(r) /\ Accept(Held(r)) /\ Run(r, "verify")
  <2>1. req[r].pc = "place" /\ Moved(r, "verify") /\ Held(r)' = Held(r)
    BY <1>5, <1>7, HeldSame DEF PlaceOrder, Awaits, Moved
  <2>2. \A s : Owed(s) => Owed(s)'
    BY <1>4, <2>1, StillOwed DEF Underway
  <2>0. PICK sym : sym = Held(r).sym
    OBVIOUS
  <2>3. Owed(sym)'
    BY <2>0, <2>1 DEF Owed, Moved, Underway
  <2>4. \A s \in Symbols \ {sym} : pos'[s] = pos[s] /\ (s \in stops => s \in stops')
    BY <1>4, <1>7, <2>0, AcceptIs
  <2>5. ASSUME NEW s \in Symbols, pos'[s] # Flat PROVE s \in stops' \/ Owed(s)'
    <3>1. CASE s = sym
      BY <2>3, <3>1
    <3>2. CASE s # sym
      BY <1>2, <2>2, <2>4, <2>5, <3>2 DEF Covered
    <3> QED
      BY <3>1, <3>2
  <2> QED
    BY <2>5 DEF Covered
<1>8. CASE Protect(r)
  <2>1. /\ stops' = IF pos[Held(r).sym] = Flat THEN stops ELSE stops \cup {Held(r).sym}
        /\ UNCHANGED pos /\ req[r].pc = "protect"
    BY <1>3, <1>8 DEF Protect
  <2>2. ASSUME NEW s \in Symbols, s # Held(r).sym, Owed(s) PROVE Owed(s)'
    <3>1. PICK q \in Requests : req[q].pc \in Underway /\ Held(q).sym = s
      BY <2>2 DEF Owed
    <3>2. req'[q] = req[q]
      BY <1>4, <2>2, <3>1 DEF Others
    <3> QED
      BY <3>1, <3>2, HeldSame DEF Owed
  <2> QED
    BY <1>2, <2>1, <2>2 DEF Covered
<1>9. CASE SetLeverage(r)
  BY <1>3, <1>6, <1>9 DEF SetLeverage, Underway, exchange
<1>10. CASE PlaceOrder(r)
  BY <1>3, <1>6, <1>7, <1>10 DEF PlaceOrder, Underway, exchange
<1>11. CASE Verify(r)
  BY <1>3, <1>6, <1>11 DEF Verify, Underway, exchange
<1>12. CASE Acknowledge(r)
  BY <1>6, <1>12 DEF Acknowledge, Underway, exchange
<1>13. CASE AnswerLanded(r)
  BY <1>6, <1>13 DEF AnswerLanded, Underway, exchange
<1>14. CASE RefusalLanded(r)
  BY <1>6, <1>14 DEF RefusalLanded, Underway, exchange
<1> QED
  BY <1>8, <1>9, <1>10, <1>11, <1>12, <1>13, <1>14 DEF RequestStep

(* A request that starts owed nothing before.                              *)
LEMMA StartCovered ==
  ASSUME Base, Covered, NEW r \in Requests, NEW id, ConfirmStart(r, id) \/ RejectStart(r, id),
         UNCHANGED <<disk, copy, pos, stops, trouble>>
  PROVE  Covered'
<1>1. req[r].pc = "idle" /\ Others(r)
  BY RequestStarts DEF Started, ConfirmStart, RejectStart
<1> QED
  BY <1>1, StillOwed, CoveredStays DEF Underway

LEMMA CoveredNext == ASSUME Base, Covered, [Next]_vars PROVE Covered'
<1>1. CASE UNCHANGED <<req, pos, stops>> /\ (trouble' = 0 => trouble = 0)
  BY <1>1, OwedStays, CoveredStays
<1>2. CASE UNCHANGED vars
  BY <1>1, <1>2 DEF vars, exchange
<1>3. CASE \E m \in Monitors : (\E sym \in Symbols : MonitorScan(m, sym)) \/ MonitorStep(m)
  BY <1>1, <1>3 DEF MonitorScan, MonitorStep, MonitorClear, QueueBlocked, QueueCommit, MonitorOnly, exchange
<1>4. CASE ListPending \/ WriteLands \/ CopyRead \/ CopyFlushed \/ CopyLoaded \/ OwnerPresses \/ TimePasses
  BY <1>1, <1>4
  DEF ListPending, WriteLands, CopyRead, CopyFlushed, CopyLoaded, OwnerPresses, TimePasses, MonitorOnly, exchange
<1>5. CASE \E r \in Requests : \E id \in 0..born : DashboardRequest(r, id)
  BY <1>5, StartCovered DEF DashboardRequest, ServerOnly, jobs, exchange
<1>6. CASE \E r \in Requests : RequestStep(r)
  BY <1>6, RequestCovered
<1>7. CASE TelegramStep
  <2>1. UNCHANGED <<pos, stops>> /\ TickOnly
    BY <1>7 DEF TelegramStep, TelegramPoll, TelegramHandle, TelegramReply, TelegramSave, TelegramSaved, TickOnly, exchange
  <2>2. trouble' = 0 => trouble = 0
    BY <1>7, TroubleIs DEF TelegramStep, TelegramPoll, TelegramHandle, TelegramReply, TelegramSave, TelegramSaved
  <2>3. CASE TelegramHandle /\ ~UNCHANGED req
    <3>1. UNCHANGED <<disk, trouble, copy>> /\ \E id : ConfirmStart(Telegram, id) \/ RejectStart(Telegram, id)
      BY <2>1, <2>3 DEF TelegramHandle, TickOnly, ServerOnly, jobs
    <3> QED
      BY <2>1, <3>1, StartCovered, TelegramRequests
  <2> QED
    BY <1>1, <1>7, <2>1, <2>2, <2>3 DEF TelegramStep, TelegramPoll, TelegramReply, TelegramSave, TelegramSaved
<1>8. ASSUME NEW sym \in Symbols, PositionCloses(sym) PROVE Covered'
  <2>1. Venue
    BY TypeParts DEF Base
  <2>2. \A s \in Symbols : pos'[s] = (IF s = sym THEN Flat ELSE pos[s]) /\ (s # sym /\ s \in stops => s \in stops')
    BY <1>8, <2>1 DEF PositionCloses, Venue
  <2>3. UNCHANGED <<req, trouble>>
    BY <1>8 DEF PositionCloses
  <2> QED
    BY <2>2, <2>3, OwedStays DEF Covered
<1>9. CASE Crash
  BY <1>9, TroubleIs DEF Crash, Covered
<1> QED
  BY <1>2, <1>3, <1>4, <1>5, <1>6, <1>7, <1>8, <1>9 DEF Next

(* Where nothing timed out, failed or crashed, a position that requests    *)
(* opened and then left alone has its TP/SL, for any number of requests,   *)
(* on both backends (executePendingConfirmation).                          *)
THEOREM EntriesProtected == Spec => []EntriesAreProtected
<1>1. Init => Base /\ Covered
  BY BaseInit DEF Init, Covered
<1>2. Base /\ Covered /\ [Next]_vars => (Base /\ Covered)'
  BY BaseNext, CoveredNext
<1>3. Base /\ Covered => EntriesAreProtected
  BY DEF Covered, Owed, Underway, EntriesAreProtected
<1> QED
  BY <1>1, <1>2, <1>3, PTL DEF Spec

-----------------------------------------------------------------------------
(* The file                                                                *)

OneSym(S) == \A p, q \in S : p.sym = q.sym => p = q
OneEach   == \A d \in Snapshots : OneSym(d.pend)

(* Each snapshot comes from one there was, less some pendings.             *)
Kept == \A d \in Snapshots' : \E e \in Snapshots : d.pend \subseteq e.pend

LEMMA TrimsKept == ASSUME Trims PROVE Kept
BY DEF Trims, Kept, Snapshots

(* What a request or the tick leaves in the memory and in the file: the    *)
(* memory loses some pendings, or is written as it is.                     *)
LEMMA ServerWrites ==
  ASSUME Base, NEW r \in Requests, RequestStep(r) \/ (\E id : DashboardRequest(r, id)) \/ TelegramStep
  PROVE  UNCHANGED <<copy, copies, born>> /\ (Trims \/ Flush)
<1>1. UNCHANGED <<copy, copies, born>>
  BY DEF RequestStep, SetLeverage, PlaceOrder, Verify, Acknowledge, AnswerLanded, RefusalLanded, Protect,
         TelegramStep, TelegramPoll, TelegramHandle, TelegramReply, TelegramSave, TelegramSaved, TickOnly,
         DashboardRequest, ServerOnly, jobs, clocks
<1>2. CASE UNCHANGED <<mem, disk>>
  BY <1>1, <1>2, StayTrims
<1>3. CASE Acknowledge(r)
  BY <1>1, <1>3, RemoveTrims DEF Acknowledge
<1>4. ASSUME NEW q \in Requests, NEW id, ConfirmStart(q, id) \/ RejectStart(q, id), UNCHANGED disk PROVE Trims
  BY <1>1, <1>4, RequestStarts
<1>5. CASE \E id : DashboardRequest(r, id)
  BY <1>1, <1>4, <1>5 DEF DashboardRequest
<1>6. CASE TelegramHandle
  BY <1>1, <1>2, <1>4, <1>6, TelegramRequests DEF TelegramHandle
<1>7. CASE TelegramSave
  <2>1. mem \in Data /\ tg.upto \in 0..MaxUpdates
    BY TypeParts DEF Base, DataTypes, TickType
  <2> QED
    BY <1>1, <1>7, <2>1 DEF TelegramSave, Trims, Data
<1>8. CASE RequestStep(r)
  BY <1>1, <1>2, <1>3, <1>8
  DEF RequestStep, SetLeverage, PlaceOrder, Verify, AnswerLanded, RefusalLanded, Protect
<1> QED
  BY <1>1, <1>2, <1>5, <1>6, <1>7, <1>8 DEF TelegramStep, TelegramPoll, TelegramReply, TelegramSaved

LEMMA FileStep ==
  ASSUME Base, Backend = "lowdb", [Next]_vars
  PROVE  Kept \/ \E next : Adds(next)
<1>1. CASE UNCHANGED <<mem, disk, copy>>
  BY <1>1, StayTrims, TrimsKept
<1>2. CASE UNCHANGED vars
  BY <1>1, <1>2 DEF vars, jobs
<1>3. CASE Flush /\ UNCHANGED copy
  <2>1. mem' = mem /\ disk' = mem
    BY <1>3, FlushSourced
  <2> QED
    BY <1>3, <2>1 DEF Kept, Snapshots
<1>4. ASSUME NEW m \in Monitors, (\E sym \in Symbols : MonitorScan(m, sym)) \/ MonitorStep(m)
      PROVE  Kept \/ \E next : Adds(next)
  <2>1. CASE QueueCommit(m)
    BY <2>1, QueueIs, TrimsKept
  <2>2. CASE MonitorClear(m)
    <3> DEFINE S == {p \in mem.pend : p.sym # mon[m].sym}
    <3>1. mem' = [mem EXCEPT !.pend = S] /\ S \in SUBSET mem.pend /\ UNCHANGED <<disk, copy>>
      BY <2>2 DEF MonitorClear, MonitorOnly, jobs
    <3> HIDE DEF S
    <3> QED
      BY <3>1, ShrinkTrims, TrimsKept
  <2> QED
    BY <1>1, <1>4, <2>1, <2>2 DEF MonitorScan, MonitorStep, QueueBlocked, MonitorOnly, jobs
<1>5. CASE ListPending
  BY <1>5, ListIs, TrimsKept
<1>6. CASE WriteLands
  BY <1>3, <1>6 DEF WriteLands, jobs
<1>7. CASE CopyRead \/ CopyFlushed \/ CopyLoaded
  BY <1>7 DEF CopyRead, CopyFlushed, CopyLoaded, Merged, Kept, Snapshots
<1>8. CASE TelegramStep \/ \E r \in Requests : (\E id \in 0..born : DashboardRequest(r, id)) \/ RequestStep(r)
  BY <1>3, <1>8, ServerWrites, TrimsKept, TelegramRequests
<1>9. CASE OwnerPresses \/ TimePasses \/ \E sym \in Symbols : PositionCloses(sym)
  BY <1>1, <1>9 DEF OwnerPresses, TimePasses, PositionCloses, jobs
<1>10. CASE Crash
  BY <1>10 DEF Crash, jobs, Kept, Snapshots
<1> QED
  BY <1>2, <1>4, <1>5, <1>6, <1>7, <1>8, <1>9, <1>10 DEF Next

LEMMA OneEachNext == ASSUME Base, OneEach, Backend = "lowdb", [Next]_vars PROVE OneEach'
<1>1. CASE Kept
  BY <1>1 DEF Kept, OneEach, OneSym
<1>2. ASSUME NEW next, Adds(next) PROVE OneEach'
  <2>1. Snapshots' = {mem', disk} \cup copy
    BY <1>2 DEF Adds, Snapshots
  <2>2. OneSym(mem'.pend)
    BY <1>2 DEF Adds, OneSym, OneEach, Snapshots
  <2>3. \A d \in {disk} \cup copy : OneSym(d.pend)
    BY DEF OneEach, Snapshots
  <2> QED
    BY <2>1, <2>2, <2>3 DEF OneEach
<1> QED
  BY <1>1, <1>2, FileStep

(* With the file, a symbol has at most one pending, in memory and in the   *)
(* file, for any number of monitors that each await the operator's bias    *)
(* between reading a signal and queueing it (queuePendingConfirmation).    *)
THEOREM OnePending == Backend = "lowdb" => (Spec => []OnePendingPerSymbol)
<1> SUFFICES ASSUME Backend = "lowdb" PROVE Spec => []OnePendingPerSymbol
  OBVIOUS
<1>1. Init => Base /\ OneEach
  BY BaseInit DEF Init, OneEach, OneSym, Snapshots, Empty
<1>2. Base /\ OneEach /\ [Next]_vars => (Base /\ OneEach)'
  BY BaseNext, OneEachNext
<1>3. Base /\ OneEach => OnePendingPerSymbol
  BY DEF OneEach, OneSym, Snapshots, OnePendingPerSymbol
<1> QED
  BY <1>1, <1>2, <1>3, PTL DEF Spec

(* The request's pending has left the memory, and the write is awaited.    *)
Leaving == {"acking", "rejecting"}
AnsweredWasBorn == \A b \in answered : b <= born
Gone ==
  copies = 0 =>
    /\ copy = {}
    /\ \A p \in mem.pend \cup disk.pend : p.born \notin answered
    /\ \A r \in Requests : req[r].pc \in Leaving => \A p \in mem.pend : p.born # Held(r).born

(* What is removed by its id is the one pending that its signal made.      *)
LEMMA OutOfReach ==
  ASSUME Base, NEW p \in Pendings, NEW S \in SUBSET mem.pend, \A q \in S : q.id # p.id
  PROVE  \A q \in S : q.born # p.born
BY DEF Base, Known, Pendings, Stored, Snapshots

LEMMA CopiesGrow == ASSUME Base, [Next]_vars, copies' = 0 PROVE copies = 0 /\ ~CopyRead
<1>1. copies \in Nat
  BY TypeParts DEF Base, DataTypes
<1>2. CASE CopyRead
  BY <1>1, <1>2 DEF CopyRead
<1>3. CASE ~CopyRead
  <2>1. CASE UNCHANGED copies
    BY <1>3, <2>1
  <2>2. CASE UNCHANGED vars
    BY <2>1, <2>2 DEF vars, jobs
  <2>3. CASE TelegramStep \/ \E r \in Requests : (\E id \in 0..born : DashboardRequest(r, id)) \/ RequestStep(r)
    BY <2>1, <2>3, ServerWrites, TelegramRequests
  <2> QED
    BY <1>3, <2>1, <2>2, <2>3
    DEF Next, MonitorScan, MonitorStep, MonitorClear, QueueBlocked, QueueCommit, MonitorOnly, ListPending,
        WriteLands, CopyFlushed, CopyLoaded, OwnerPresses, TimePasses, PositionCloses, Crash, jobs
<1> QED
  BY <1>2, <1>3

LEMMA GoneStays ==
  ASSUME Gone, copies = 0, UNCHANGED copy, UNCHANGED answered,
         mem'.pend \subseteq mem.pend, disk'.pend \subseteq mem.pend \cup disk.pend,
         \A r \in Requests : req'[r].pc \in Leaving => req[r].pc \in Leaving /\ req'[r].p = req[r].p
  PROVE  Gone'
<1>1. \A r \in Requests : req'[r].pc \in Leaving => req[r].pc \in Leaving /\ Held(r)' = Held(r)
  BY HeldSame
<1> QED
  BY <1>1 DEF Gone

LEMMA WritesShrink ==
  ASSUME Base, Backend = "lowdb", Trims \/ (Flush /\ UNCHANGED copy)
  PROVE  UNCHANGED copy /\ mem'.pend \subseteq mem.pend /\ disk'.pend \subseteq mem.pend \cup disk.pend
BY FlushSourced DEF Trims

LEMMA RequestGone ==
  ASSUME Base, Gone, Backend = "lowdb", copies = 0, NEW r \in Requests, RequestStep(r)
  PROVE  Gone'
<1>1. Held(r) \in Pendings /\ Others(r)
  BY RequestMoves, HeldIs DEF Moved, Ended
<1>2. UNCHANGED copy /\ (Trims \/ Flush)
  BY ServerWrites
<1>3. mem'.pend \subseteq mem.pend /\ disk'.pend \subseteq mem.pend \cup disk.pend
  BY <1>2, WritesShrink
<1>4. \A where \in Awaits : Run(r, where) => Moved(r, where)
  BY RunIs
<1>5. CASE AnswerLanded(r)
  <2>1. mem'.pend = mem.pend /\ disk'.pend = mem.pend
    BY <1>2, <1>5, FlushSourced DEF AnswerLanded
  <2>2. PICK b : b = Held(r).born
    OBVIOUS
  <2>3. answered' = answered \cup {b} /\ req[r].pc \in Leaving
    BY <1>5, <2>2 DEF AnswerLanded, Leaving
  <2>4. req'[r].pc \notin Leaving
    <3>1. CASE req[r].pc = "acking"
      BY <1>4, <1>5, <3>1 DEF AnswerLanded, Leaving, Awaits, Moved
    <3>2. CASE req[r].pc # "acking"
      <4>1. Ended(r)
        BY <1>5, <3>2, EndIs DEF AnswerLanded, Return
      <4> QED
        BY <4>1, DoneIs DEF Ended, Leaving
    <3> QED
      BY <3>1, <3>2
  <2>5. copy = {} /\ (\A p \in mem.pend : p.born \notin answered) /\ (\A p \in mem.pend : p.born # b)
    BY <2>2, <2>3 DEF Gone
  <2>6. \A q \in Requests : req'[q].pc \in Leaving => req[q].pc \in Leaving /\ Held(q)' = Held(q)
    BY <1>1, <2>4, HeldSame DEF Others
  <2> QED
    BY <1>2, <2>1, <2>3, <2>5, <2>6 DEF Gone
<1>6. CASE Acknowledge(r)
  <2>1. PICK h : h = Held(r)
    OBVIOUS
  <2>2. mem'.pend = {p \in mem.pend : p.id # h.id} /\ Moved(r, "acking") /\ UNCHANGED <<disk, answered>>
    BY <1>2, <1>4, <1>6, <2>1, RemoveTrims DEF Acknowledge, Awaits, ServerOnly, jobs
  <2>3. Held(r)' = h
    BY <2>1, <2>2, HeldSame DEF Moved
  <2>4. \A p \in mem'.pend : p.born # h.born
    BY <1>1, <1>3, <2>1, <2>2, OutOfReach
  <2>5. \A q \in Requests \ {r} : req'[q].pc \in Leaving => req[q].pc \in Leaving /\ Held(q)' = Held(q)
    BY <1>1, HeldSame DEF Others
  <2>6. copy = {} /\ \A p \in mem.pend \cup disk.pend : p.born \notin answered
    BY DEF Gone
  <2>7. \A q \in Requests : req'[q].pc \in Leaving => \A p \in mem'.pend : p.born # Held(q)'.born
    <3>1. ASSUME NEW q \in Requests, req'[q].pc \in Leaving, q # r, NEW p \in mem'.pend
          PROVE  p.born # Held(q)'.born
      <4>1. Held(q)' = Held(q) /\ req[q].pc \in Leaving
        BY <2>5, <3>1
      <4>2. p.born # Held(q).born
        BY <1>3, <3>1, <4>1 DEF Gone
      <4> QED
        BY <4>1, <4>2
    <3> QED
      BY <2>3, <2>4, <3>1
  <2> QED
    BY <1>2, <1>3, <2>2, <2>6, <2>7 DEF Gone
<1>7. CASE UNCHANGED answered /\ req'[r].pc \notin Leaving
  BY <1>1, <1>2, <1>3, <1>7, GoneStays DEF Others
<1>8. Return(r) \/ Throw(r) => req'[r].pc \notin Leaving
  BY EndIs, DoneIs DEF Return, Throw, Ended, Leaving
<1>9. \A where \in {"place", "refused", "verify", "placed"} : Run(r, where) => req'[r].pc \notin Leaving
  BY <1>4 DEF Moved, Awaits, Leaving
<1>10. req[r].pc = "place" /\ req' = [req EXCEPT ![r].attempt = 2] => req'[r].pc \notin Leaving
  <2>1. req \in [Requests -> RunType]
    BY TypeParts DEF Base, Runs
  <2> QED
    BY <2>1 DEF RunType, Leaving
<1> QED
  BY <1>5, <1>6, <1>7, <1>8, <1>9, <1>10
  DEF RequestStep, SetLeverage, PlaceOrder, Verify, RefusalLanded, Protect

LEMMA StartGone ==
  ASSUME Base, Gone, Backend = "lowdb", copies = 0, NEW r \in Requests, NEW id,
         ConfirmStart(r, id) \/ RejectStart(r, id), UNCHANGED <<disk, copy, answered>>
  PROVE  Gone'
<1>1. Trims
  BY RequestStarts
<1>2. PICK where \in {"leverage", "rejecting"}, S \in SUBSET mem.pend :
        /\ Cardinality(S) = 1 /\ Started(r, where, S)
        /\ where = "rejecting" => \A p \in S, q \in mem'.pend : p.id # q.id
  BY RequestStarts
<1>3. PICK h \in S : Held(r)' = h
  <2>1. S # {}
    BY <1>2, FS_EmptySet
  <2>2. Held(r)' = CHOOSE p \in S : TRUE
    BY <1>2 DEF Held, Started
  <2> QED
    BY <2>1, <2>2
<1>4. where = "rejecting" => \A q \in mem'.pend : q.born # h.born
  <2>1. h \in Pendings /\ mem'.pend \subseteq mem.pend
    BY <1>1 DEF Trims, Pendings, Stored, Snapshots
  <2> QED
    BY <1>2, <2>1, OutOfReach
<1>5. \A q \in Requests \ {r} : req'[q].pc \in Leaving => req[q].pc \in Leaving /\ Held(q)' = Held(q)
  BY <1>2, HeldSame DEF Started, Others
<1>6. copy = {} /\ \A p \in mem'.pend \cup disk.pend : p.born \notin answered
  BY <1>1 DEF Gone, Trims
<1>7. \A q \in Requests : req'[q].pc \in Leaving => \A p \in mem'.pend : p.born # Held(q)'.born
  <2>1. ASSUME NEW q \in Requests, req'[q].pc \in Leaving, q # r, NEW p \in mem'.pend
        PROVE  p.born # Held(q)'.born
    <3>1. Held(q)' = Held(q) /\ req[q].pc \in Leaving /\ p \in mem.pend
      BY <1>1, <1>5, <2>1 DEF Trims
    <3>2. p.born # Held(q).born
      BY <3>1 DEF Gone
    <3> QED
      BY <3>1, <3>2
  <2>2. req'[r].pc \in Leaving => where = "rejecting"
    BY <1>2 DEF Started, Leaving
  <2> QED
    BY <1>3, <1>4, <2>1, <2>2
<1> QED
  BY <1>6, <1>7 DEF Gone

LEMMA AddsGone ==
  ASSUME Base, Gone, AnsweredWasBorn, copies = 0, NEW next, Adds(next), UNCHANGED <<req, answered>>
  PROVE  Gone'
<1>1. born \in Nat /\ answered \subseteq Nat
  BY TypeParts DEF Base, Clocks, Born
<1>2. next.born \notin answered
  BY <1>1 DEF Adds, AnsweredWasBorn
<1>3. \A r \in Requests : Held(r)' = Held(r) /\ (req[r].pc \in Leaving => next.born # Held(r).born)
  <2> SUFFICES ASSUME NEW r \in Requests PROVE Held(r)' = Held(r) /\ (req[r].pc \in Leaving => next.born # Held(r).born)
    OBVIOUS
  <2>1. req[r].pc \in Leaving => Held(r) \in Pendings /\ Held(r).born \in Nat /\ Held(r).born <= born
    BY HeldIs DEF Leaving, Awaits, Base, Aged, Pending, Born
  <2> QED
    BY <1>1, <2>1, HeldSame DEF Adds
<1>4. copy' = {} /\ \A p \in mem'.pend \cup disk'.pend : p.born \notin answered
  BY <1>2 DEF Gone, Adds
<1>5. ASSUME NEW r \in Requests, req'[r].pc \in Leaving, NEW p \in mem'.pend PROVE p.born # Held(r)'.born
  <2>1. p \in mem.pend \/ p = next
    BY DEF Adds
  <2>2. req[r].pc \in Leaving
    BY <1>5
  <2> QED
    BY <1>3, <2>1, <2>2 DEF Gone
<1> QED
  BY <1>4, <1>5 DEF Gone

LEMMA GoneNext == ASSUME Base, Gone, AnsweredWasBorn, Backend = "lowdb", [Next]_vars PROVE Gone'
<1>1. SUFFICES ASSUME copies' = 0 PROVE Gone'
  BY DEF Gone
<1>2. copies = 0 /\ ~CopyRead /\ copy = {}
  BY <1>1, CopiesGrow DEF Gone
<1>3. CASE UNCHANGED <<req, answered, copy>> /\ (Trims \/ Flush)
  BY <1>2, <1>3, WritesShrink, GoneStays
<1>4. CASE UNCHANGED <<mem, disk, copy, req, answered>>
  BY <1>3, <1>4, StayTrims
<1>5. CASE UNCHANGED vars
  BY <1>4, <1>5 DEF vars, jobs
<1>6. ASSUME NEW m \in Monitors, (\E sym \in Symbols : MonitorScan(m, sym)) \/ MonitorStep(m)
      PROVE  Gone'
  <2>1. UNCHANGED <<disk, copy, req, answered>>
    BY <1>6 DEF MonitorScan, MonitorStep, MonitorClear, QueueBlocked, QueueCommit, MonitorOnly, jobs
  <2>2. CASE QueueCommit(m)
    BY <1>2, <1>3, <2>1, <2>2, QueueIs, AddsGone
  <2>3. CASE MonitorClear(m)
    <3> DEFINE S == {p \in mem.pend : p.sym # mon[m].sym}
    <3>1. mem' = [mem EXCEPT !.pend = S] /\ S \in SUBSET mem.pend
      BY <2>3 DEF MonitorClear
    <3> HIDE DEF S
    <3> QED
      BY <1>3, <2>1, <3>1, ShrinkTrims
  <2> QED
    BY <1>4, <1>6, <2>1, <2>2, <2>3 DEF MonitorScan, MonitorStep, QueueBlocked
<1>7. CASE ListPending
  BY <1>3, <1>7, ListIs DEF ListPending, MonitorOnly, jobs
<1>8. CASE WriteLands
  BY <1>3, <1>8 DEF WriteLands, jobs
<1>9. ~CopyRead /\ ~CopyFlushed /\ ~CopyLoaded
  BY <1>2 DEF CopyFlushed, CopyLoaded
<1>10. ASSUME NEW r \in Requests, (\E id \in 0..born : DashboardRequest(r, id)) \/ RequestStep(r) PROVE Gone'
  BY <1>2, <1>10, RequestGone, StartGone DEF DashboardRequest, ServerOnly, jobs
<1>11. CASE TelegramStep
  <2>1. UNCHANGED <<answered, copy>> /\ (Trims \/ Flush)
    BY <1>11, ServerWrites, TelegramRequests
    DEF TelegramStep, TelegramPoll, TelegramHandle, TelegramReply, TelegramSave, TelegramSaved, TickOnly
  <2>2. CASE TelegramHandle /\ ~UNCHANGED req
    <3>1. UNCHANGED disk /\ \E id : ConfirmStart(Telegram, id) \/ RejectStart(Telegram, id)
      BY <2>2 DEF TelegramHandle
    <3> QED
      BY <1>2, <2>1, <3>1, StartGone, TelegramRequests
  <2> QED
    BY <1>3, <1>11, <2>1, <2>2 DEF TelegramStep, TelegramPoll, TelegramReply, TelegramSave, TelegramSaved
<1>12. CASE OwnerPresses \/ TimePasses \/ \E sym \in Symbols : PositionCloses(sym)
  BY <1>4, <1>12 DEF OwnerPresses, TimePasses, PositionCloses, jobs
<1>13. CASE Crash
  <2>1. \A r \in Requests : req'[r].pc \notin Leaving
    <3>1. \A r \in Requests : req'[r] = IF req[r].pc = "idle" THEN NoRun ELSE Done(r)
      BY <1>13 DEF Crash
    <3> QED
      BY <3>1, DoneIs DEF NoRun, Leaving
  <2> QED
    BY <1>2, <1>13, <2>1 DEF Crash, jobs, Gone
<1> QED
  BY <1>5, <1>6, <1>7, <1>8, <1>9, <1>10, <1>11, <1>12, <1>13 DEF Next

LEMMA AnsweredNext == ASSUME Base, AnsweredWasBorn, [Next]_vars PROVE AnsweredWasBorn'
<1>1. born \in Nat /\ answered \subseteq Nat
  BY TypeParts DEF Base, Clocks, Born
<1>2. CASE UNCHANGED answered
  <2>1. born' = born \/ born' = born + 1
    <3>1. CASE TelegramStep \/ \E r \in Requests : (\E id \in 0..born : DashboardRequest(r, id)) \/ RequestStep(r)
      BY <3>1, ServerWrites, TelegramRequests
    <3> QED
      BY <3>1
      DEF Next, vars, MonitorScan, MonitorStep, MonitorClear, QueueBlocked, QueueCommit, ListPending, clocks,
          WriteLands, CopyRead, CopyFlushed, CopyLoaded, OwnerPresses, TimePasses, PositionCloses, Crash
  <2> QED
    BY <1>1, <1>2, <2>1 DEF AnsweredWasBorn
<1>3. ASSUME NEW r \in Requests, AnswerLanded(r) PROVE AnsweredWasBorn'
  <2>1. req[r].pc \in Awaits /\ UNCHANGED born /\ answered' = answered \cup {Held(r).born}
    BY <1>3 DEF AnswerLanded, ServerOnly, clocks, Awaits
  <2>2. Held(r).born <= born
    BY <2>1, HeldIs DEF Base, Aged
  <2> QED
    BY <2>1, <2>2 DEF AnsweredWasBorn
<1>4. ASSUME NEW r \in Requests, RequestStep(r), ~AnswerLanded(r) PROVE UNCHANGED answered
  BY <1>4 DEF RequestStep, SetLeverage, PlaceOrder, Verify, Acknowledge, RefusalLanded, Protect
<1> QED
  BY <1>2, <1>3, <1>4
  DEF Next, vars, MonitorScan, MonitorStep, MonitorClear, QueueBlocked, QueueCommit, MonitorOnly, ListPending,
      WriteLands, CopyRead, CopyFlushed, CopyLoaded, OwnerPresses, TimePasses, PositionCloses, Crash,
      DashboardRequest, TelegramStep, TelegramPoll, TelegramHandle, TelegramReply, TelegramSave, TelegramSaved, TickOnly

(* With the file, and as long as no compute job was at the snapshot, a     *)
(* signal whose answer is stored is never pending again: not by a late     *)
(* write, a redelivered update, or a crash (executePendingConfirmation,    *)
(* rejectPendingConfirmation).                                             *)
THEOREM AnsweredIsGone == Backend = "lowdb" => (Spec => []AnsweredStaysAnswered)
<1> SUFFICES ASSUME Backend = "lowdb" PROVE Spec => []AnsweredStaysAnswered
  OBVIOUS
<1>1. Init => Base /\ Gone /\ AnsweredWasBorn
  BY BaseInit DEF Init, Gone, AnsweredWasBorn, NoRun, Leaving
<1>2. Base /\ Gone /\ AnsweredWasBorn /\ [Next]_vars => (Base /\ Gone /\ AnsweredWasBorn)'
  BY BaseNext, GoneNext, AnsweredNext
<1>3. Base /\ Gone => AnsweredStaysAnswered
  BY DEF Gone, AnsweredStaysAnswered
<1> QED
  BY <1>1, <1>2, <1>3, PTL DEF Spec

-----------------------------------------------------------------------------
(* How often a signal is entered                                           *)

(* Dashboard requests that have placed their order, or will never do so.   *)
Opened == {d \in Dashboards : req[d].pc \notin {"idle", "leverage", "place"}}

(* One update after another can enter a signal again only while it is      *)
(* pending and Telegram's request has not just entered it; a copy of the   *)
(* snapshot may bring it back.                                             *)
TelegramHolds(pcs, b) == req[Telegram].pc \in pcs /\ Held(Telegram).born = b
Wants(b)    == TelegramHolds({"leverage", "place"}, b)
Spent(b)    == TelegramHolds({"verify", "placed"}, b)
CanEnter(b) == Wants(b) \/ (~Spent(b) /\ \E p \in mem.pend : p.born = b)
Chance(b)   == IF CanEnter(b) THEN 1 ELSE 0
InCopy      == IF copy = {} THEN 0 ELSE 1
Budget      == Cardinality(Opened) + 1 + trouble + copies
Counted ==
  /\ InCopy <= copies
  /\ \A b \in Born : IF b > born THEN fills[b] = 0 ELSE fills[b] + Chance(b) + InCopy <= Budget

LEMMA CountTypes ==
  ASSUME Base
  PROVE  /\ Cardinality(Opened) \in Nat /\ IsFiniteSet(Opened) /\ Cardinality(Opened) <= Cardinality(Dashboards)
         /\ trouble \in Nat /\ copies \in Nat /\ born \in Nat /\ \A b \in Born : b \in Nat /\ fills[b] \in Nat
<1>1. Opened \subseteq Dashboards /\ IsFiniteSet(Dashboards)
  BY PendingAssumption DEF Opened
<1>2. Cardinality(Opened) \in Nat /\ IsFiniteSet(Opened) /\ Cardinality(Opened) <= Cardinality(Dashboards)
  BY <1>1, FS_Subset, FS_CardinalityType
<1> QED
  BY <1>2, TypeParts DEF Base, DataTypes, Clocks, Venue, Born

LEMMA OpenedGrows ==
  ASSUME Base, Base', \A d \in Dashboards : req[d].pc \notin {"idle", "leverage", "place"} =>
                                              req'[d].pc \notin {"idle", "leverage", "place"}
  PROVE  Cardinality(Opened) \in Nat /\ Cardinality(Opened)' \in Nat /\ Cardinality(Opened) <= Cardinality(Opened)'
<1>1. Opened \subseteq Opened' /\ Opened' \subseteq Dashboards /\ IsFiniteSet(Dashboards)
  BY PendingAssumption DEF Opened
<1>2. IsFiniteSet(Opened') /\ Cardinality(Opened') \in Nat
  BY <1>1, FS_Subset, FS_CardinalityType
<1> QED
  BY <1>1, <1>2, FS_Subset, FS_CardinalityType

(* What a signal's count gains, the budget gains too.                      *)
LEMMA CountedFrom ==
  ASSUME Base, Base', Counted, UNCHANGED born, Cardinality(Opened)' \in Nat,
         InCopy' <= copies',
         \A b \in Born : b > born => fills'[b] = fills[b],
         \A b \in Born : b <= born =>
           (fills'[b] - fills[b]) + (Chance(b)' - Chance(b)) + (InCopy' - InCopy) <= Budget' - Budget
  PROVE  Counted'
<1>1. trouble' \in Nat /\ copies' \in Nat /\ \A b \in Born : fills'[b] \in Nat
  BY TypePartsNext DEF Base, DataTypes, Venue, Born
<1> SUFFICES ASSUME NEW b \in Born, b <= born PROVE fills'[b] + Chance(b)' + InCopy' <= Budget'
  BY CountTypes DEF Counted
<1>2. fills[b] + Chance(b) + InCopy <= Budget
  BY CountTypes DEF Counted
<1>3. {fills[b], fills'[b], Chance(b), Chance(b)', InCopy, InCopy', Budget, Budget'} \subseteq Int
  BY <1>1, CountTypes DEF Chance, InCopy, Budget
<1> QED
  BY <1>2, <1>3

(* A step that neither fills nor reads a copy, and gives no new chance     *)
(* unless there is trouble.                                                *)
LEMMA CountedStays ==
  ASSUME Base, Base', Counted, UNCHANGED <<born, fills, copy, copies>>,
         \A d \in Dashboards : req[d].pc \notin {"idle", "leverage", "place"} =>
                                 req'[d].pc \notin {"idle", "leverage", "place"},
         \/ trouble' = trouble /\ \A b : CanEnter(b)' => CanEnter(b)
         \/ trouble' = trouble + 1
  PROVE  Counted'
<1>1. Cardinality(Opened) <= Cardinality(Opened)' /\ Cardinality(Opened)' \in Nat /\ Cardinality(Opened) \in Nat
  BY OpenedGrows
<1>2. InCopy' = InCopy /\ InCopy <= copies'
  BY DEF InCopy, Counted
<1>3. trouble \in Nat /\ copies \in Nat /\ copies' = copies
  BY CountTypes
<1>4. \A b : Chance(b)' - Chance(b) <= Budget' - Budget
  <2>1. Budget' - Budget = (Cardinality(Opened)' - Cardinality(Opened)) + (trouble' - trouble)
    BY <1>1, <1>3 DEF Budget
  <2>2. CASE trouble' = trouble /\ \A b : CanEnter(b)' => CanEnter(b)
    BY <1>1, <1>3, <2>1, <2>2 DEF Chance
  <2>3. CASE trouble' = trouble + 1
    BY <1>1, <1>3, <2>1, <2>3 DEF Chance
  <2> QED
    BY <2>2, <2>3
<1>5. \A b \in Born : (fills'[b] - fills[b]) + (Chance(b)' - Chance(b)) + (InCopy' - InCopy) <= Budget' - Budget
  <2> SUFFICES ASSUME NEW b \in Born
               PROVE  (fills'[b] - fills[b]) + (Chance(b)' - Chance(b)) + (InCopy' - InCopy) <= Budget' - Budget
    OBVIOUS
  <2>1. fills'[b] - fills[b] = 0 /\ InCopy' - InCopy = 0
    BY <1>2, CountTypes DEF InCopy
  <2>2. Chance(b)' - Chance(b) \in Int
    BY DEF Chance
  <2> QED
    BY <1>4, <2>1, <2>2
<1> QED
  BY <1>1, <1>2, <1>5, CountedFrom

(* Telegram's request as it was, and no pending that was not there.        *)
LEMMA NoNewChance ==
  ASSUME req'[Telegram].pc = req[Telegram].pc, req'[Telegram].p = req[Telegram].p, mem'.pend \subseteq mem.pend
  PROVE  \A b : CanEnter(b)' => CanEnter(b)
BY HeldSame DEF CanEnter, Wants, Spent, TelegramHolds, Held

(* The exchange accepts an order of a request: the dashboard's can place   *)
(* only one, Telegram's had its chance.                                    *)
LEMMA AcceptCounted ==
  ASSUME Base, Base', Counted, UNCHANGED <<born, copy, copies>>, NEW r \in Requests, req[r].pc = "place",
         Accept(Held(r)), Others(r), req'[r].pc \in {"verify"} \cup Idle,
         \/ req'[r].pc = "verify" /\ req'[r].p = req[r].p /\ trouble' = trouble /\ mem'.pend \subseteq mem.pend
         \/ trouble' = trouble + 1 /\ req'[r].pc # "idle"
         \/ trouble' = trouble + 1 /\ r = Telegram
  PROVE  Counted'
<1>1. PICK h : h = Held(r)
  OBVIOUS
<1>2. h \in Pending /\ h.born \in Born /\ h.born <= born
  BY <1>1, HeldIs DEF Awaits, Base, Aged, Pending
<1>3. fills' = [fills EXCEPT ![h.born] = @ + 1]
  BY <1>1, <1>2, AcceptIs
<1>4. /\ \A b \in Born \ {h.born} : fills'[b] = fills[b]
      /\ fills'[h.born] = fills[h.born] + 1
  BY <1>2, <1>3, TypeParts DEF Base, Venue
<1>5. /\ Cardinality(Opened) \in Nat /\ trouble \in Nat /\ copies \in Nat /\ copies' = copies /\ born \in Nat
      /\ \A b \in Born : b \in Nat /\ fills[b] \in Nat
  BY CountTypes
<1>6. InCopy' = InCopy /\ InCopy <= copies' /\ InCopy \in Int
  BY DEF InCopy, Counted
<1>7. \A b \in Born : b > born => fills'[b] = fills[b]
  BY <1>2, <1>4, <1>5
<1>8. \A b : {Chance(b), Chance(b)'} \subseteq {0, 1}
  BY DEF Chance
<1>9. CASE r \in Dashboards
  <2>1. req'[r].pc \in {"verify", "done"}
    BY <1>9, TelegramRequests DEF Idle
  <2>2. Opened' = Opened \cup {r} /\ r \notin Opened
    BY <1>9, <2>1, TelegramRequests DEF Opened, Others
  <2>3. Cardinality(Opened)' = Cardinality(Opened) + 1
    BY <2>2, CountTypes, FS_AddElement
  <2>4. req'[Telegram] = req[Telegram]
    BY <1>9, TelegramRequests DEF Others
  <2>5. Budget' - Budget = 1 + (trouble' - trouble)
    BY <1>5, <2>3 DEF Budget
  <2>6. \A b : Chance(b)' - Chance(b) <= trouble' - trouble
    <3>1. CASE mem'.pend \subseteq mem.pend /\ trouble' = trouble
      BY <1>5, <2>4, <3>1, NoNewChance DEF Chance
    <3>2. CASE trouble' = trouble + 1
      BY <1>5, <1>8, <3>2
    <3> QED
      BY <3>1, <3>2
  <2>7. \A b \in Born : (fills'[b] - fills[b]) + (Chance(b)' - Chance(b)) + (InCopy' - InCopy) <= Budget' - Budget
    <3> SUFFICES ASSUME NEW b \in Born
                 PROVE  (fills'[b] - fills[b]) + (Chance(b)' - Chance(b)) + (InCopy' - InCopy) <= Budget' - Budget
      OBVIOUS
    <3>1. fills'[b] - fills[b] \in {0, 1} /\ InCopy' - InCopy = 0
      BY <1>4, <1>5, <1>6
    <3>2. trouble' \in Nat /\ {Chance(b), Chance(b)'} \subseteq Int
      BY <1>5, <1>8
    <3> QED
      BY <1>5, <2>5, <2>6, <3>1, <3>2
  <2> QED
    BY <1>5, <1>6, <1>7, <2>3, <2>7, CountedFrom
<1>10. CASE r = Telegram
  <2>1. Opened' = Opened
    BY <1>10, TelegramRequests DEF Opened, Others
  <2>2. Wants(h.born) /\ Chance(h.born) = 1 /\ (\A b : ~Spent(b)) /\ (\A b : Wants(b) => b = h.born)
    BY <1>1, <1>10 DEF Wants, Spent, TelegramHolds, CanEnter, Chance
  <2>3. Budget' - Budget = trouble' - trouble /\ trouble' - trouble \in {0, 1}
    BY <1>5, <2>1 DEF Budget
  <2>4. trouble' = trouble => Chance(h.born)' = 0 /\ \A b : Chance(b)' <= Chance(b)
    <3> SUFFICES ASSUME trouble' = trouble PROVE Chance(h.born)' = 0 /\ \A b : Chance(b)' <= Chance(b)
      OBVIOUS
    <3>1. req'[r].pc = "verify" /\ Held(r)' = h /\ mem'.pend \subseteq mem.pend
      BY <1>1, <1>5, HeldSame
    <3>2. Spent(h.born)' /\ \A b : ~Wants(b)'
      BY <1>10, <3>1 DEF Spent, Wants, TelegramHolds
    <3>3. ~CanEnter(h.born)' /\ \A b : CanEnter(b)' => CanEnter(b)
      BY <2>2, <3>1, <3>2 DEF CanEnter
    <3> QED
      BY <3>3 DEF Chance
  <2>5. \A b \in Born : (fills'[b] - fills[b]) + (Chance(b)' - Chance(b)) + (InCopy' - InCopy) <= Budget' - Budget
    <3> SUFFICES ASSUME NEW b \in Born
                 PROVE  (fills'[b] - fills[b]) + (Chance(b)' - Chance(b)) + (InCopy' - InCopy) <= Budget' - Budget
      OBVIOUS
    <3>1. InCopy' - InCopy = 0 /\ Chance(b) \in {0, 1} /\ Chance(b)' \in {0, 1}
      BY <1>6, <1>8
    <3>2. CASE b = h.born
      BY <1>2, <1>4, <1>5, <2>2, <2>3, <2>4, <3>1, <3>2
    <3>3. CASE b # h.born
      BY <1>4, <1>5, <2>3, <2>4, <3>1, <3>3
    <3> QED
      BY <3>2, <3>3
  <2> QED
    BY <1>5, <1>6, <1>7, <2>1, <2>5, CountedFrom
<1> QED
  BY <1>9, <1>10, TelegramRequests DEF Requests

(* A step of Telegram's request without an order: its chance stays spent.  *)
LEMMA TelegramChance ==
  ASSUME Base, NEW where \in Awaits, Moved(Telegram, where), mem'.pend \subseteq mem.pend,
         \/ req[Telegram].pc = "leverage" /\ where \in {"place", "refused"}
         \/ req[Telegram].pc = "place" /\ where \in {"place", "refused"}
         \/ req[Telegram].pc = "verify" /\ where = "placed"
         \/ req[Telegram].pc = "placed" /\ where = "acking" /\ \A p \in mem'.pend : p.born # Held(Telegram).born
         \/ req[Telegram].pc = "acking" /\ where = "protect"
  PROVE  \A b : CanEnter(b)' => CanEnter(b)
<1>1. Held(Telegram)' = Held(Telegram)
  BY HeldSame DEF Moved
<1>2. req'[Telegram].pc = where
  BY DEF Moved
<1>3. CASE req[Telegram].pc \in {"leverage", "place", "acking"}
  <2>1. \A b : ~Spent(b)
    BY <1>3 DEF Spent, TelegramHolds
  <2>2. CASE req[Telegram].pc \in {"leverage", "place"}
    BY <1>1, <1>2, <2>1, <2>2 DEF CanEnter, Wants, TelegramHolds
  <2>3. CASE req[Telegram].pc = "acking" /\ where = "protect"
    BY <1>1, <1>2, <2>1, <2>3 DEF CanEnter, Wants, TelegramHolds
  <2> QED
    BY <1>3, <2>2, <2>3
<1>4. CASE req[Telegram].pc = "verify"
  BY <1>1, <1>2, <1>4 DEF CanEnter, Wants, Spent, TelegramHolds
<1>5. CASE req[Telegram].pc = "placed"
  BY <1>1, <1>2, <1>5 DEF CanEnter, Wants, Spent, TelegramHolds
<1> QED
  BY <1>3, <1>4, <1>5

LEMMA RequestCounted ==
  ASSUME Base, Base', Counted, Backend = "lowdb", NEW r \in Requests, RequestStep(r)
  PROVE  Counted'
<1>1. UNCHANGED <<born, copy, copies>> /\ mem'.pend \subseteq mem.pend
  BY ServerWrites, WritesShrink
<1>2. req[r].pc \in Awaits /\ Others(r) /\ Held(r) \in Pendings
  BY RequestMoves, HeldIs DEF Moved, Ended
<1>3. \A where \in Awaits : Run(r, where) => Moved(r, where)
  BY RunIs
<1>4. Return(r) \/ Throw(r) => Ended(r) /\ req'[r].pc \in Idle /\ (r # Telegram => req'[r].pc = "done")
  BY EndIs, DoneIs DEF Return, Throw, Ended, Idle
<1>5. trouble \in Nat /\ (Trouble => trouble' = trouble + 1)
  BY TroubleIs
<1>6. ASSUME Accept(Held(r)), PlaceOrder(r) PROVE Counted'
  <2>1. req[r].pc = "place"
    BY <1>6 DEF PlaceOrder
  <2>2. fills' # fills
    <3>1. fills'[Held(r).born] = fills[Held(r).born] + 1 /\ Held(r).born \in Born
      BY <1>2, <1>6, HeldIs, AcceptIs, TypeParts DEF Base, Venue, Pending
    <3> QED
      BY <3>1, CountTypes
  <2>3. CASE Run(r, "verify") /\ UNCHANGED trouble
    <3>1. Moved(r, "verify")
      BY <1>3, <2>3 DEF Awaits
    <3>2. req'[r].pc = "verify" /\ req'[r].p = req[r].p
      BY <3>1 DEF Moved
    <3> QED
      BY <1>1, <1>2, <1>6, <2>1, <2>3, <3>2, AcceptCounted
  <2>4. CASE Throw(r) /\ Trouble
    <3>1. req'[r].pc \in Idle /\ (r # Telegram => req'[r].pc # "idle") /\ trouble' = trouble + 1
      BY <1>4, <1>5, <2>4 DEF Idle
    <3> QED
      BY <1>1, <1>2, <1>6, <2>1, <3>1, AcceptCounted
  <2> QED
    BY <1>6, <2>2, <2>3, <2>4 DEF PlaceOrder, exchange
<1>7. \A d \in Dashboards : req[d].pc \notin {"idle", "leverage", "place"} =>
                              req'[d].pc \notin {"idle", "leverage", "place"}
  <2> SUFFICES ASSUME NEW d \in Dashboards, req[d].pc \notin {"idle", "leverage", "place"}
               PROVE  req'[d].pc \notin {"idle", "leverage", "place"}
    OBVIOUS
  <2>1. CASE d # r
    BY <1>2, <2>1, TelegramRequests DEF Others
  <2>2. CASE d = r
    <3>1. r # Telegram
      BY <2>2, TelegramRequests
    <3>2. \A where \in {"placed", "acking", "protect"} : Run(r, where) => req'[r].pc \notin {"idle", "leverage", "place"}
      BY <1>3 DEF Moved, Awaits
    <3> QED
      BY <1>4, <2>2, <3>1, <3>2
      DEF RequestStep, SetLeverage, PlaceOrder, Verify, Acknowledge, AnswerLanded, RefusalLanded, Protect
  <2> QED
    BY <2>1, <2>2
<1>8. ASSUME UNCHANGED fills PROVE Counted'
  <2>1. CASE trouble' = trouble + 1
    BY <1>1, <1>7, <1>8, <2>1, CountedStays
  <2>2. CASE r # Telegram /\ trouble' = trouble
    <3>1. req'[Telegram] = req[Telegram]
      BY <1>2, <2>2, TelegramRequests DEF Others
    <3> QED
      BY <1>1, <1>7, <1>8, <2>2, <3>1, NoNewChance, CountedStays
  <2>3. CASE r = Telegram /\ trouble' = trouble
    <3>1. ~Trouble /\ trouble' # trouble + 1
      BY <1>5, <2>3
    <3>2. CASE Ended(r) /\ \A b : ~Spent(b)
      <4>1. req'[Telegram].pc = "idle"
        BY <2>3, <3>2, DoneIs DEF Ended
      <4> QED
        BY <1>1, <1>7, <1>8, <2>3, <3>2, <4>1, CountedStays DEF CanEnter, Wants, TelegramHolds
    <3>3. CASE Acknowledge(r)
      <4>1. Moved(Telegram, "acking") /\ req[Telegram].pc = "placed"
        BY <1>3, <2>3, <3>3 DEF Acknowledge, Awaits
      <4>2. mem'.pend = {p \in mem.pend : p.id # Held(r).id}
        BY <1>1, <3>3, RemoveTrims DEF Acknowledge, ServerOnly, jobs
      <4>3. \A p \in mem'.pend : p.born # Held(r).born
        BY <1>1, <1>2, <4>2, OutOfReach
      <4>4. \A b : CanEnter(b)' => CanEnter(b)
        BY <1>1, <2>3, <4>1, <4>3, TelegramChance DEF Awaits
      <4> QED
        BY <1>1, <1>7, <1>8, <2>3, <4>4, CountedStays
    <3>4. ASSUME \E where \in Awaits :
                    /\ Moved(r, where)
                    /\ \/ req[r].pc \in {"leverage", "place"} /\ where \in {"place", "refused"}
                       \/ req[r].pc = "verify" /\ where = "placed"
                       \/ req[r].pc = "acking" /\ where = "protect"
                 PROVE  Counted'
      <4>1. \A b : CanEnter(b)' => CanEnter(b)
        BY <1>1, <2>3, <3>4, TelegramChance
      <4> QED
        BY <1>1, <1>7, <1>8, <2>3, <4>1, CountedStays
    <3>5. SetLeverage(r) => req[r].pc = "leverage" /\ \E where \in {"place", "refused"} : Moved(r, where)
      BY <1>3, <3>1 DEF SetLeverage, Awaits
    <3>6. PlaceOrder(r) => req[r].pc = "place" /\ \E where \in {"place", "refused"} : Moved(r, where)
      <4> SUFFICES ASSUME PlaceOrder(r) PROVE req[r].pc = "place" /\ \E where \in {"place", "refused"} : Moved(r, where)
        OBVIOUS
      <4>1. ~Accept(Held(r))
        <5>1. Held(r).born \in Born /\ fills[Held(r).born] \in Nat
          BY <1>2, HeldIs, CountTypes DEF Pending
        <5> QED
          BY <1>2, <1>8, <5>1, HeldIs, AcceptIs, TypeParts DEF Base, Venue
      <4>2. CASE req' = [req EXCEPT ![r].attempt = 2]
        <5>1. req \in [Requests -> RunType]
          BY TypeParts DEF Base, Runs
        <5>2. Moved(r, req[r].pc)
          BY <4>2, <5>1 DEF Moved, Others, RunType
        <5> QED
          BY <5>2 DEF PlaceOrder
      <4> QED
        BY <1>3, <3>1, <4>1, <4>2 DEF PlaceOrder, Awaits
    <3>7. Verify(r) => req[r].pc = "verify" /\ Moved(r, "placed")
      BY <1>3, <3>1 DEF Verify, Awaits
    <3>8. AnswerLanded(r) => \/ req[r].pc = "acking" /\ Moved(r, "protect")
                             \/ req[r].pc = "rejecting" /\ Ended(r)
      BY <1>3, <1>4 DEF AnswerLanded, Awaits
    <3>9. RefusalLanded(r) \/ Protect(r) => req[r].pc \in {"refused", "protect"} /\ Ended(r)
      BY <1>4 DEF RefusalLanded, Protect
    <3>10. req[r].pc \in {"rejecting", "refused", "protect"} => \A b : ~Spent(b)
      BY <2>3 DEF Spent, TelegramHolds
    <3> QED
      BY <3>2, <3>3, <3>4, <3>5, <3>6, <3>7, <3>8, <3>9, <3>10 DEF RequestStep, Awaits
  <2>4. trouble' \in {trouble, trouble + 1}
    BY <1>5 DEF RequestStep, SetLeverage, PlaceOrder, Verify, Acknowledge, AnswerLanded, RefusalLanded, Protect
  <2> QED
    BY <2>1, <2>2, <2>3, <2>4
<1> QED
  BY <1>6, <1>8
  DEF RequestStep, SetLeverage, PlaceOrder, Verify, Acknowledge, AnswerLanded, RefusalLanded, Protect, exchange

LEMMA StartCounted ==
  ASSUME Base, Base', Counted, NEW r \in Requests, NEW id, ConfirmStart(r, id) \/ RejectStart(r, id),
         UNCHANGED <<disk, fills, copy, copies, born, trouble>>
  PROVE  Counted'
<1>1. Trims /\ req[r].pc = "idle"
  BY RequestStarts DEF ConfirmStart, RejectStart
<1>2. PICK where \in {"leverage", "rejecting"}, S \in SUBSET mem.pend : Cardinality(S) = 1 /\ Started(r, where, S)
  BY RequestStarts
<1>3. \A b : CanEnter(b)' => CanEnter(b)
  <2>1. CASE r # Telegram
    BY <1>1, <1>2, <2>1, TelegramRequests, NoNewChance DEF Started, Others, Trims
  <2>2. CASE r = Telegram
    <3>1. Held(r)' \in S
      <4>1. S # {}
        BY <1>2, FS_EmptySet
      <4> QED
        BY <1>2, <4>1 DEF Held, Started
    <3>2. \A b : ~Spent(b)
      BY <1>1, <2>2 DEF Spent, TelegramHolds
    <3> QED
      BY <1>1, <2>2, <3>1, <3>2 DEF CanEnter, Wants, TelegramHolds, Trims
  <2> QED
    BY <2>1, <2>2
<1>4. \A d \in Dashboards : req[d].pc \notin {"idle", "leverage", "place"} =>
                              req'[d].pc \notin {"idle", "leverage", "place"}
  BY <1>1, <1>2, TelegramRequests DEF Started, Others
<1> QED
  BY <1>3, <1>4, CountedStays

LEMMA AddsCounted ==
  ASSUME Base, Base', Counted, NEW next, Adds(next), UNCHANGED <<req, fills, copies, trouble>>
  PROVE  Counted'
<1>1. /\ Cardinality(Opened) \in Nat /\ trouble \in Nat /\ copies \in Nat /\ born \in Nat
      /\ \A b \in Born : b \in Nat /\ fills[b] \in Nat
  BY CountTypes
<1>2. Opened' = Opened /\ InCopy' = InCopy /\ InCopy <= copies /\ InCopy \in {0, 1} /\ born' = born + 1
  BY DEF Opened, InCopy, Counted, Adds
<1>3. Budget' = Budget /\ Budget \in Nat /\ Budget >= 1 + copies
  BY <1>1, <1>2 DEF Budget
<1>4. \A b : Chance(b) \in {0, 1} /\ Chance(b)' \in {0, 1}
  BY DEF Chance
<1>5. ASSUME NEW b \in Born, b <= born PROVE fills'[b] + Chance(b)' + InCopy' <= Budget'
  <2>1. CanEnter(b)' => CanEnter(b)
    <3>1. Held(Telegram)' = Held(Telegram)
      BY DEF Held
    <3>2. \A p \in mem'.pend : p.born = b => p \in mem.pend
      BY <1>1, <1>5 DEF Adds
    <3> QED
      BY <3>1, <3>2 DEF CanEnter, Wants, Spent, TelegramHolds
  <2>2. Chance(b)' <= Chance(b)
    BY <2>1 DEF Chance
  <2>3. fills[b] + Chance(b) + InCopy <= Budget
    BY <1>1, <1>5 DEF Counted
  <2> QED
    BY <1>1, <1>2, <1>3, <1>4, <2>2, <2>3
<1>6. ASSUME NEW b \in Born, b > born PROVE fills'[b] = 0 /\ fills'[b] + Chance(b)' + InCopy' <= Budget'
  <2>1. fills'[b] = 0
    BY <1>1, <1>6 DEF Counted
  <2>2. Chance(b)' <= 1 /\ Chance(b)' \in Nat /\ InCopy' \in Nat /\ InCopy' <= copies
    BY <1>2, <1>4
  <2> QED
    BY <1>1, <1>3, <2>1, <2>2
<1>7. \A b \in Born : IF b > born' THEN fills'[b] = 0 ELSE fills'[b] + Chance(b)' + InCopy' <= Budget'
  <2> SUFFICES ASSUME NEW b \in Born
               PROVE  IF b > born' THEN fills'[b] = 0 ELSE fills'[b] + Chance(b)' + InCopy' <= Budget'
    OBVIOUS
  <2>1. b \in Nat /\ (b > born' => b > born) /\ (b <= born \/ b > born)
    BY <1>1, <1>2
  <2> QED
    BY <1>5, <1>6, <2>1
<1>8. InCopy' <= copies'
  BY <1>2
<1> QED
  BY <1>7, <1>8 DEF Counted

(* A copy that is read may bring a pending back once.                      *)
LEMMA CopyCounted ==
  ASSUME Base, Base', Counted, CopyRead \/ CopyFlushed \/ CopyLoaded
  PROVE  Counted'
<1>1. /\ Cardinality(Opened) \in Nat /\ trouble \in Nat /\ copies \in Nat /\ born \in Nat
      /\ \A b \in Born : b \in Nat /\ fills[b] \in Nat
  BY CountTypes
<1>2. UNCHANGED <<born, fills, req, trouble>> /\ Opened' = Opened
  BY DEF CopyRead, CopyFlushed, CopyLoaded, clocks, exchange, Opened
<1>3. InCopy \in {0, 1} /\ InCopy' \in {0, 1} /\ InCopy <= copies
  BY DEF InCopy, Counted
<1>4. \A b : Chance(b) \in {0, 1} /\ Chance(b)' \in {0, 1}
  BY DEF Chance
<1>5. UNCHANGED mem => \A b : Chance(b)' = Chance(b)
  BY <1>2 DEF Chance, CanEnter, Wants, Spent, TelegramHolds, Held
<1>6. Budget' - Budget = copies' - copies /\ copies' \in Nat
  <2>1. copies' \in Nat
    BY TypePartsNext DEF Base, DataTypes
  <2> QED
    BY <1>1, <1>2, <2>1 DEF Budget
<1>7. \/ UNCHANGED mem /\ copies' = copies + 1 /\ InCopy = 0
      \/ UNCHANGED <<mem, copies>> /\ InCopy' = 0
      \/ UNCHANGED copies /\ InCopy = 1 /\ InCopy' = 0
  BY DEF CopyRead, CopyFlushed, CopyLoaded, InCopy
<1>8. \A b : (Chance(b)' - Chance(b)) + (InCopy' - InCopy) <= copies' - copies
  <2> SUFFICES ASSUME NEW b PROVE (Chance(b)' - Chance(b)) + (InCopy' - InCopy) <= copies' - copies
    OBVIOUS
  <2>1. {Chance(b), Chance(b)', InCopy, InCopy'} \subseteq {0, 1}
    BY <1>3, <1>4
  <2> QED
    BY <1>1, <1>5, <1>7, <2>1
<1>9. \A b \in Born : (fills'[b] - fills[b]) + (Chance(b)' - Chance(b)) + (InCopy' - InCopy) <= Budget' - Budget
  <2> SUFFICES ASSUME NEW b \in Born
               PROVE  (fills'[b] - fills[b]) + (Chance(b)' - Chance(b)) + (InCopy' - InCopy) <= Budget' - Budget
    OBVIOUS
  <2>1. fills'[b] - fills[b] = 0 /\ {Chance(b), Chance(b)', InCopy, InCopy'} \subseteq {0, 1}
    BY <1>1, <1>2, <1>3, <1>4
  <2> QED
    BY <1>1, <1>6, <1>8, <2>1
<1>10. InCopy' <= copies'
  BY <1>1, <1>3, <1>6, <1>7
<1> QED
  BY <1>1, <1>2, <1>9, <1>10, CountedFrom

LEMMA CrashCounted == ASSUME Base, Base', Counted, Crash PROVE Counted'
<1>1. UNCHANGED <<born, fills, copy, copies>> /\ trouble' = trouble + 1
  BY TroubleIs DEF Crash, jobs, clocks, exchange
<1>2. ASSUME NEW d \in Dashboards, req[d].pc \notin {"idle", "leverage", "place"}
      PROVE  req'[d].pc \notin {"idle", "leverage", "place"}
  <2>1. req'[d] = Done(d) /\ d # Telegram
    BY <1>2, TelegramRequests DEF Crash
  <2> QED
    BY <2>1, DoneIs
<1> QED
  BY <1>1, <1>2, CountedStays

LEMMA CountedNext == ASSUME Base, Base', Counted, Backend = "lowdb", [Next]_vars PROVE Counted'
<1>1. CASE UNCHANGED <<req, fills, copy, copies, born, trouble>> /\ mem'.pend \subseteq mem.pend
  BY <1>1, NoNewChance, CountedStays
<1>2. CASE UNCHANGED vars
  BY <1>1, <1>2 DEF vars, jobs, clocks, exchange
<1>3. ASSUME NEW m \in Monitors, (\E sym \in Symbols : MonitorScan(m, sym)) \/ MonitorStep(m)
      PROVE  Counted'
  <2>1. UNCHANGED <<disk, copy, copies, req, fills, trouble>>
    BY <1>3 DEF MonitorScan, MonitorStep, MonitorClear, QueueBlocked, QueueCommit, MonitorOnly, jobs, exchange
  <2>2. CASE QueueCommit(m)
    BY <1>1, <2>1, <2>2, QueueIs, AddsCounted DEF Trims
  <2>3. CASE MonitorClear(m)
    <3> DEFINE S == {p \in mem.pend : p.sym # mon[m].sym}
    <3>1. mem' = [mem EXCEPT !.pend = S] /\ S \in SUBSET mem.pend /\ UNCHANGED born
      BY <2>3 DEF MonitorClear
    <3> HIDE DEF S
    <3> QED
      BY <1>1, <2>1, <3>1, ShrinkTrims DEF Trims
  <2> QED
    BY <1>1, <1>3, <2>1, <2>2, <2>3 DEF MonitorScan, MonitorStep, QueueBlocked
<1>4. CASE ListPending
  BY <1>1, <1>4, ListIs DEF ListPending, MonitorOnly, jobs, exchange, Trims
<1>5. CASE WriteLands
  BY <1>1, <1>5, WritesShrink DEF WriteLands, jobs, clocks, exchange
<1>6. CASE CopyRead \/ CopyFlushed \/ CopyLoaded
  BY <1>6, CopyCounted
<1>7. ASSUME NEW r \in Requests, (\E id \in 0..born : DashboardRequest(r, id)) \/ RequestStep(r) PROVE Counted'
  BY <1>7, RequestCounted, StartCounted DEF DashboardRequest, ServerOnly, jobs, clocks, exchange
<1>8. CASE TelegramStep
  <2>1. UNCHANGED <<fills, copy, copies, born>> /\ mem'.pend \subseteq mem.pend
    BY <1>8, ServerWrites, WritesShrink, TelegramRequests
    DEF TelegramStep, TelegramPoll, TelegramHandle, TelegramReply, TelegramSave, TelegramSaved, TickOnly, exchange
  <2>2. CASE TelegramHandle /\ ~UNCHANGED req
    <3>1. UNCHANGED <<disk, trouble>> /\ \E id : ConfirmStart(Telegram, id) \/ RejectStart(Telegram, id)
      BY <2>2 DEF TelegramHandle
    <3> QED
      BY <2>1, <3>1, StartCounted, TelegramRequests
  <2>3. CASE UNCHANGED req /\ trouble' = trouble + 1
    BY <2>1, <2>3, CountedStays
  <2>4. TelegramReply => UNCHANGED req /\ trouble' \in {trouble, trouble + 1}
    BY TroubleIs DEF TelegramReply
  <2> QED
    BY <1>1, <1>8, <2>1, <2>2, <2>3, <2>4 DEF TelegramStep, TelegramPoll, TelegramHandle, TelegramSave, TelegramSaved
<1>9. CASE OwnerPresses \/ TimePasses \/ \E sym \in Symbols : PositionCloses(sym)
  BY <1>1, <1>9 DEF OwnerPresses, TimePasses, PositionCloses, jobs, clocks, exchange
<1>10. CASE Crash
  BY <1>10, CrashCounted
<1> QED
  BY <1>2, <1>3, <1>4, <1>5, <1>6, <1>7, <1>8, <1>9, <1>10 DEF Next

(* Counted bounds the entries of a signal.                                 *)
LEMMA CountedBounds == ASSUME Base, Counted PROVE ReentryNeedsTrouble
<1>1. /\ Cardinality(Opened) \in Nat /\ Cardinality(Opened) <= Cardinality(Dashboards)
      /\ trouble \in Nat /\ copies \in Nat /\ born \in Nat /\ \A b \in Born : b \in Nat /\ fills[b] \in Nat
  BY CountTypes
<1>2. Cardinality(Requests) = Cardinality(Dashboards) + 1 /\ Cardinality(Dashboards) \in Nat
  BY PendingAssumption, FS_AddElement, FS_CardinalityType DEF Requests
<1>3. PICK n \in Nat : n = Cardinality(Dashboards)
  BY <1>2
<1>4. ASSUME NEW b \in Born PROVE fills[b] <= n + 1 + trouble + copies
  <2>1. CASE b > born
    BY <1>1, <2>1 DEF Counted
  <2>2. CASE ~(b > born)
    <3>1. fills[b] + Chance(b) + InCopy <= Budget
      BY <2>2 DEF Counted
    <3>2. Chance(b) \in Nat /\ InCopy \in Nat
      BY DEF Chance, InCopy
    <3> QED
      BY <1>1, <1>3, <3>1, <3>2 DEF Budget
  <2> QED
    BY <2>1, <2>2
<1> QED
  BY <1>2, <1>3, <1>4 DEF ReentryNeedsTrouble

(* With the file, a signal is entered once for each request, and once more *)
(* for each timeout, failed send, lost position, crash or compute job's    *)
(* copy, for any number of each (executePendingConfirmation,               *)
(* resolvePending).                                                        *)
THEOREM ReentryIsPaid == Backend = "lowdb" => (Spec => []ReentryNeedsTrouble)
<1> SUFFICES ASSUME Backend = "lowdb" PROVE Spec => []ReentryNeedsTrouble
  OBVIOUS
<1>1. Init => Base /\ Counted
  <2> SUFFICES ASSUME Init PROVE Base /\ Counted
    OBVIOUS
  <2>1. Base
    BY BaseInit
  <2>2. born = 0 /\ copies = 0 /\ copy = {} /\ \A b \in Born : b > 0 /\ fills[b] = 0
    BY DEF Init, Born
  <2> QED
    BY <2>1, <2>2 DEF Counted, InCopy
<1>2. Base /\ Counted /\ [Next]_vars => (Base /\ Counted)'
  BY BaseNext, CountedNext
<1>3. Base /\ Counted => ReentryNeedsTrouble
  BY CountedBounds
<1> QED
  BY <1>1, <1>2, <1>3, PTL DEF Spec
===============================================================================
